--------------------------- MODULE StandInJobsProofs ---------------------------
(***************************************************************************)
(* Proofs about the publication of checkpoints, for any workers,           *)
(* checkpoints, attempts and troubles.                                     *)
(***************************************************************************)
EXTENDS StandInJobs, FiniteSetTheorems, TLAPS

-----------------------------------------------------------------------------
\* The rows of the jobs: what is not submitted has none.
Rows ==
  /\ submitted \in {0} \union Checkpoints
  /\ status \in [Checkpoints -> Statuses]
  /\ holder \in [Checkpoints -> Workers \union {NoWorker}]
  /\ shown \in [of : {0} \union Checkpoints, status : Statuses]
  /\ \A c \in Checkpoints : c > submitted => status[c] = "none"

\* Graphile's rows: a job that it would run has an attempt left.
Queues ==
  /\ queue \in [Checkpoints -> {"none", "ready", "running", "dead"}]
  /\ runner \in [Checkpoints -> Workers \union {NoWorker}]
  /\ attempt \in [Checkpoints -> 0 .. MaxAttempts]
  /\ \A c \in Checkpoints : queue[c] = "ready" => attempt[c] < MaxAttempts

\* The workers: a busy one holds an output of its own, for a job there is.
Handlers ==
  /\ at \in [Workers -> [pc : Steps, try : 0 .. MaxAttempts, out : Outputs]]
  /\ \A w \in Workers : Busy(w) => at[w].out.of \in Checkpoints /\ at[w].out.by = w

\* What the Project shows.
Shows ==
  /\ pulse \in Outputs /\ withdrawn \in BOOLEAN
  /\ claim \in [Checkpoints -> {"none", "current", "superseded", "withdrawn"}]

\* The rest of the state.
Rest ==
  /\ collaborative \in BOOLEAN /\ member \in BOOLEAN
  /\ row \in [Checkpoints -> {"none", "open", "done"}]
  /\ turns \in 0 .. MaxTurns /\ troubles \in 0 .. MaxTroubles

\* The handler of a worker that has claimed its job.
Past(w) == at[w].pc \in {"read", "model", "boundary", "complete", "fail"}

\* A job somebody claimed has a worker_id, and one that failed for good was
\* failed by the handler that held it, which is over.
Held(w) ==
  LET c == at[w].out.of
  IN  /\ holder[c] # NoWorker /\ status[c] # "none"
      /\ status[c] = "failed" => holder[c] # w

Holders == \A w \in Workers : Past(w) => Held(w)

\* The inductive invariant.
IInv == Rows /\ Queues /\ Handlers /\ Shows /\ Rest /\ Holders

-----------------------------------------------------------------------------
LEMMA NothingIsOutput ==
  ASSUME JobsAssumption
  PROVE  Nothing \in Outputs /\ Idle \in [pc : Steps, try : 0 .. MaxAttempts, out : Outputs]
<1>1. Nothing \in Outputs
  BY DEF Nothing, Outputs
<1> QED
  BY <1>1 DEF Idle, Steps, JobsAssumption

LEMMA InitInvariant == JobsAssumption /\ Init => IInv
<1> SUFFICES ASSUME JobsAssumption, Init PROVE IInv
  OBVIOUS
<1>1. Rows
  BY DEF Init, Rows, Statuses
<1>2. Queues
  BY DEF Init, Queues, JobsAssumption
<1>3. Handlers /\ Holders
  BY NothingIsOutput DEF Init, Handlers, Holders, Past, Busy, Idle
<1>4. Shows
  BY NothingIsOutput DEF Init, Shows
<1>5. Rest
  BY DEF Init, Rest, JobsAssumption
<1> QED
  BY <1>1, <1>2, <1>3, <1>4, <1>5 DEF IInv

\* A status a job gets later keeps the rows.
LEMMA SetStatusKeeps ==
  ASSUME Rows, NEW c \in Checkpoints, NEW s \in Statuses, status[c] # "none", s # "none",
         SetStatus(c, s), submitted' = submitted,
         holder' \in [Checkpoints -> Workers \union {NoWorker}]
  PROVE  Rows'
  BY DEF Rows, SetStatus

\* A handler's step from one of its positions to the next.
LEMMA GoesKeeps ==
  ASSUME Queues, Handlers, NEW w \in Workers, Busy(w), NEW pc \in Steps, Goes(w, pc)
  PROVE  Queues' /\ Handlers'
  BY DEF Queues, Handlers, Goes, Busy, graphile

LEMMA ReturnsKeeps ==
  ASSUME JobsAssumption, Queues, Handlers, NEW w \in Workers, NEW c \in Checkpoints, Returns(w, c)
  PROVE  Queues' /\ Handlers'
<1>1. Queues'
  BY DEF Queues, Returns
<1>2. Handlers'
  BY NothingIsOutput DEF Handlers, Returns, Busy, Idle
<1> QED
  BY <1>1, <1>2

LEMMA ThrowsKeeps ==
  ASSUME JobsAssumption, Queues, Handlers, NEW w \in Workers, NEW c \in Checkpoints, Throws(w, c)
  PROVE  Queues' /\ Handlers'
<1>1. Queues'
  BY DEF Queues, Throws, Again, JobsAssumption
<1>2. Handlers'
  BY NothingIsOutput DEF Handlers, Throws, Busy, Idle
<1> QED
  BY <1>1, <1>2

LEMMA TroubleKeeps ==
  ASSUME JobsAssumption, Rest, Trouble \/ NoTrouble, UNCHANGED <<collaborative, member, row, turns>>
  PROVE  Rest'
  BY DEF Rest, Trouble, NoTrouble, JobsAssumption

\* Steps of people, of the dispatcher and of the reconciler.
LEMMA OutsideSteps ==
  ASSUME JobsAssumption, IInv,
         \/ Submit \/ TurnPosture \/ Leave \/ Withdraw
         \/ \E c \in Checkpoints : Reconcile(c) \/ Dispatch(c)
  PROVE  IInv'
<1>1. CASE Submit
  <2>1. UNCHANGED <<holder, queue, runner, attempt, at, pulse, withdrawn, claim, collaborative, member, turns, troubles>>
    BY <1>1 DEF Submit, public, project, graphile
  <2>2. Rows'
    BY <1>1, <2>1 DEF Submit, IInv, Rows, Statuses, Open, JobsAssumption
  <2>3. Queues' /\ Handlers' /\ Shows'
    BY <2>1 DEF IInv, Queues, Handlers, Shows, Busy
  <2>4. Rest'
    BY <1>1, <2>1 DEF Submit, IInv, Rest
  <2>5. Holders'
    BY <1>1, <2>1 DEF Submit, IInv, Holders, Held, Past, Rows, Handlers, Busy, Statuses
  <2> QED
    BY <2>2, <2>3, <2>4, <2>5 DEF IInv
<1>2. CASE TurnPosture \/ Leave
  <2>1. UNCHANGED <<submitted, status, holder, shown, pulse, withdrawn, claim, row, queue, runner, attempt, at, troubles>>
    BY <1>2 DEF TurnPosture, Leave, job, public, graphile
  <2>2. Rest'
    <3>1. turns < MaxTurns /\ turns' = turns + 1 /\ turns \in 0 .. MaxTurns
      BY <1>2 DEF TurnPosture, Leave, IInv, Rest
    <3>2. turns' \in 0 .. MaxTurns
      BY <3>1 DEF JobsAssumption
    <3>3. collaborative' \in BOOLEAN /\ member' \in BOOLEAN
      BY <1>2 DEF TurnPosture, Leave, IInv, Rest
    <3> QED
      BY <2>1, <3>2, <3>3 DEF IInv, Rest
  <2> QED
    BY <2>1, <2>2 DEF IInv, Rows, Queues, Handlers, Shows, Holders, Held, Past, Busy
<1>3. CASE Withdraw
  BY <1>3 DEF Withdraw, job, project, graphile,
              IInv, Rows, Queues, Handlers, Shows, Rest, Holders, Held, Past, Busy
<1>4. ASSUME NEW c \in Checkpoints, Reconcile(c) PROVE IInv'
  BY <1>4 DEF Reconcile, job, public, project, graphile,
              IInv, Rows, Queues, Handlers, Shows, Rest, Holders, Held, Past, Busy
<1>5. ASSUME NEW c \in Checkpoints, Dispatch(c) PROVE IInv'
  <2>1. UNCHANGED <<submitted, status, holder, shown, pulse, withdrawn, claim, collaborative, member, at, turns>>
    BY <1>5 DEF Dispatch, job, public, project
  <2>2. Queues'
    BY <1>5 DEF Dispatch, Add, graphile, IInv, Queues, JobsAssumption
  <2>3. Rest'
    BY <1>5, <2>1 DEF Dispatch, IInv, Rest, Trouble, NoTrouble, JobsAssumption
  <2> QED
    BY <2>1, <2>2, <2>3 DEF IInv, Rows, Handlers, Shows, Holders, Held, Past, Busy
<1> QED
  BY <1>1, <1>2, <1>3, <1>4, <1>5

\* Steps of Graphile Worker.
LEMMA GraphileSteps ==
  ASSUME JobsAssumption, IInv, NEW w \in Workers,
         (\E c \in Checkpoints : Start(w, c)) \/ Lapse(w) \/ Kill(w)
  PROVE  IInv'
<1>0. UNCHANGED <<submitted, status, holder, shown, pulse, withdrawn, claim, collaborative, member, row, turns>>
  BY DEF Start, Lapse, Kill, job, public, project
<1>1. Rows' /\ Shows'
  BY <1>0 DEF IInv, Rows, Shows
<1>2. Rest'
  BY <1>0, TroubleKeeps DEF IInv, Start, Lapse, Kill, NoTrouble
<1>3. ASSUME NEW c \in Checkpoints, Start(w, c) PROVE Queues' /\ Handlers' /\ Holders'
  <2>1. Queues'
    BY <1>3 DEF Start, IInv, Queues, JobsAssumption
  <2>2. [of |-> c, by |-> w, raw |-> FALSE] \in Outputs
    BY DEF Outputs
  <2>3. attempt[c] + 1 \in 0 .. MaxAttempts
    BY <1>3 DEF Start, IInv, Queues, JobsAssumption
  <2>4. Handlers'
    BY <1>3, <2>2, <2>3 DEF Start, IInv, Handlers, Busy, Steps
  <2>5. Holders'
    BY <1>0, <1>3 DEF Start, IInv, Handlers, Holders, Held, Past
  <2> QED
    BY <2>1, <2>4, <2>5
<1>4. CASE Lapse(w)
  <2>1. at[w].out.of \in Checkpoints /\ UNCHANGED <<attempt, at>>
    BY <1>4 DEF Lapse, IInv, Handlers
  <2>2. Queues'
    BY <1>4, <2>1 DEF Lapse, Again, IInv, Queues, JobsAssumption
  <2>3. Handlers' /\ Holders'
    BY <1>0, <2>1 DEF IInv, Handlers, Holders, Held, Past, Busy
  <2> QED
    BY <1>1, <1>2, <2>2, <2>3 DEF IInv
<1>5. CASE Kill(w)
  <2>1. at[w].out.of \in Checkpoints
    BY <1>5 DEF Kill, IInv, Handlers
  <2>2. Queues'
    BY <1>5, <2>1 DEF Kill, Again, IInv, Queues, JobsAssumption
  <2>3. [pc |-> "gone", try |-> 0, out |-> Nothing] \in [pc : Steps, try : 0 .. MaxAttempts, out : Outputs]
    BY NothingIsOutput DEF Steps, JobsAssumption
  <2>4. at' = [at EXCEPT ![w] = [pc |-> "gone", try |-> 0, out |-> Nothing]]
    BY <1>5 DEF Kill
  <2>5. Handlers'
    BY <2>3, <2>4 DEF IInv, Handlers, Busy
  <2>6. Holders'
    BY <1>0, <2>4 DEF IInv, Handlers, Holders, Held, Past
  <2> QED
    BY <1>1, <1>2, <2>2, <2>5, <2>6 DEF IInv
<1> QED
  BY <1>1, <1>2, <1>3, <1>4, <1>5 DEF IInv

\* Steps of the handler that leave the job alone.
LEMMA ReadingSteps ==
  ASSUME JobsAssumption, IInv, NEW w \in Workers, Read(w) \/ Model(w) \/ Boundary(w)
  PROVE  IInv'
<1>0. UNCHANGED <<submitted, status, holder, shown, pulse, withdrawn, collaborative, member, row, turns>>
  BY DEF Read, Model, Boundary, job, public, project
<1>1. Rows'
  BY <1>0 DEF IInv, Rows
<1>2. Shows'
  BY <1>0 DEF IInv, Shows, Read, Model, Boundary, Claimed, public
<1>3. Rest'
  <2>1. Trouble \/ NoTrouble
    BY DEF Read, Model, Boundary
  <2> QED
    BY <1>0, <2>1, TroubleKeeps DEF IInv
<1>4. Busy(w) /\ Past(w)
  BY DEF Read, Model, Boundary, Busy, Past
<1>5. \/ \E pc \in {"model", "boundary", "complete", "fail"} : Goes(w, pc)
      \/ at' = [at EXCEPT ![w] = [pc |-> "complete", try |-> @.try, out |-> [of |-> @.out.of, by |-> w, raw |-> TRUE]]] /\ UNCHANGED graphile
  BY DEF Read, Model, Boundary
<1>6. ASSUME NEW pc \in {"model", "boundary", "complete", "fail"}, Goes(w, pc)
      PROVE  Queues' /\ Handlers' /\ Holders'
  <2>1. Queues' /\ Handlers'
    BY <1>4, <1>6, GoesKeeps DEF IInv, Steps
  <2>2. Holders'
    BY <1>0, <1>4, <1>6 DEF Goes, IInv, Handlers, Holders, Held, Past
  <2> QED
    BY <2>1, <2>2
<1>7. ASSUME at' = [at EXCEPT ![w] = [pc |-> "complete", try |-> @.try, out |-> [of |-> @.out.of, by |-> w, raw |-> TRUE]]], UNCHANGED graphile
      PROVE  Queues' /\ Handlers' /\ Holders'
  <2>1. Queues'
    BY <1>7 DEF graphile, IInv, Queues
  <2>2. Handlers'
    <3>1. at[w].out \in Outputs /\ at[w].out.of \in Checkpoints /\ at[w].out.by = w
      BY <1>4 DEF IInv, Handlers
    <3>2. [of |-> at[w].out.of, by |-> at[w].out.by, raw |-> TRUE] \in Outputs
      BY <3>1 DEF Outputs
    <3>3. at' = [at EXCEPT ![w] = [pc |-> "complete", try |-> at[w].try,
                                   out |-> [of |-> at[w].out.of, by |-> at[w].out.by, raw |-> TRUE]]]
      BY <1>7, <3>1
    <3>4. at' \in [Workers -> [pc : Steps, try : 0 .. MaxAttempts, out : Outputs]]
      BY <3>2, <3>3 DEF IInv, Handlers, Steps
    <3>5. \A v \in Workers : at'[v].out.of = at[v].out.of /\ at'[v].out.by = at[v].out.by
                             /\ (v # w => at'[v] = at[v])
      BY <3>1, <3>3 DEF IInv, Handlers
    <3> QED
      BY <1>4, <3>1, <3>4, <3>5 DEF IInv, Handlers, Busy
  <2>3. Holders'
    BY <1>0, <1>4, <1>7 DEF IInv, Handlers, Holders, Held, Past
  <2> QED
    BY <2>1, <2>2, <2>3
<1> QED
  BY <1>1, <1>2, <1>3, <1>5, <1>6, <1>7 DEF IInv

\* The claim of a job.
LEMMA ClaimStep ==
  ASSUME JobsAssumption, IInv, NEW w \in Workers, Claim(w)
  PROVE  IInv'
<1> DEFINE c == at[w].out.of
<1>0. UNCHANGED <<submitted, pulse, withdrawn, claim, collaborative, member, row, turns>>
  BY DEF Claim, public, project
<1>1. c \in Checkpoints /\ Busy(w)
  BY DEF Claim, IInv, Handlers, Busy
<1>2. Shows' /\ Rest'
  <2>1. Trouble \/ NoTrouble
    BY DEF Claim
  <2> QED
    BY <1>0, <2>1, TroubleKeeps DEF IInv, Shows
<1>3. CASE UNCHANGED job /\ (Returns(w, c) \/ Throws(w, c))
  <2>1. Queues' /\ Handlers'
    BY <1>1, <1>3, ReturnsKeeps, ThrowsKeeps DEF IInv
  <2>2. at' = [at EXCEPT ![w] = Idle]
    BY <1>3 DEF Returns, Throws
  <2>3. Rows' /\ Holders'
    BY <1>0, <1>3, <2>2 DEF job, Idle, IInv, Rows, Handlers, Holders, Held, Past
  <2> QED
    BY <1>2, <2>1, <2>3 DEF IInv
<1>4. CASE status[c] \in Open /\ SetStatus(c, "processing") /\ holder' = [holder EXCEPT ![c] = w] /\ Goes(w, "read")
  <2>1. Queues' /\ Handlers'
    BY <1>1, <1>4, GoesKeeps DEF IInv, Steps
  <2>2. Rows'
    <3>1. status[c] # "none" /\ "processing" \in Statuses
      BY <1>4 DEF Open, Statuses
    <3>2. holder' \in [Checkpoints -> Workers \union {NoWorker}]
      BY <1>1, <1>4 DEF IInv, Rows
    <3> QED
      BY <1>0, <1>1, <1>4, <3>1, <3>2, SetStatusKeeps DEF IInv
  <2>3. /\ status' = [status EXCEPT ![c] = "processing"] /\ holder' = [holder EXCEPT ![c] = w]
        /\ at' = [at EXCEPT ![w].pc = "read"]
    BY <1>4 DEF SetStatus, Goes
  <2>4. Holders'
    <3> SUFFICES ASSUME NEW v \in Workers, Past(v)' PROVE Held(v)'
      BY DEF Holders
    <3>1. at'[v].out = at[v].out /\ at'[v].out.of \in Checkpoints /\ (v # w => Past(v))
      BY <1>1, <2>3 DEF IInv, Handlers, Past, Busy
    <3> QED
      BY <1>1, <2>3, <3>1 DEF JobsAssumption, IInv, Rows, Holders, Held
  <2> QED
    BY <1>2, <2>1, <2>2, <2>4 DEF IInv
<1> QED
  BY <1>3, <1>4 DEF Claim

\* The publication.
LEMMA CompleteStep ==
  ASSUME JobsAssumption, IInv, NEW w \in Workers, Complete(w)
  PROVE  IInv'
<1> DEFINE c == at[w].out.of
<1>0. UNCHANGED <<submitted, holder, claim, collaborative, member, row, turns>>
  BY DEF Complete, Apply, job, public, project
<1>1. c \in Checkpoints /\ Busy(w) /\ Past(w) /\ at[w].out \in Outputs
  BY DEF Complete, IInv, Handlers, Busy, Past
<1>2. Shows' /\ Rest'
  <2>1. Trouble \/ NoTrouble
    BY DEF Complete
  <2>2. Shows'
    BY <1>0, <1>1 DEF Complete, Apply, public, IInv, Shows
  <2> QED
    BY <1>0, <2>1, <2>2, TroubleKeeps DEF IInv
<1>3. Queues' /\ Handlers'
  BY <1>1, ReturnsKeeps, GoesKeeps DEF Complete, IInv, Steps
<1>4. \A v \in Workers : Past(v)' => Past(v) /\ at'[v].out = at[v].out
  BY <1>1 DEF Complete, Returns, Goes, Idle, Past, IInv, Handlers
<1>5. \/ UNCHANGED job
      \/ status[c] = "processing" /\ \E s \in Published : SetStatus(c, s)
  BY DEF Complete, Apply, Holds, Published
<1>6. Rows'
  <2>1. CASE UNCHANGED job
    BY <1>0, <2>1 DEF job, IInv, Rows
  <2>2. ASSUME status[c] = "processing", NEW s \in Published, SetStatus(c, s) PROVE Rows'
    <3>1. s \in Statuses /\ s # "none"
      BY DEF Published, Statuses, Final
    <3> QED
      BY <1>0, <1>1, <2>2, <3>1, SetStatusKeeps DEF IInv, Rows
  <2> QED
    BY <1>5, <2>1, <2>2
<1>7. \A d \in Checkpoints : status'[d] = status[d] \/ status'[d] \in Published
  BY <1>1, <1>5 DEF job, SetStatus, IInv, Rows
<1>8. Holders'
  <2> SUFFICES ASSUME NEW v \in Workers, Past(v)' PROVE Held(v)'
    BY DEF Holders
  <2>1. Held(v) /\ at[v].out.of \in Checkpoints
    BY <1>4 DEF IInv, Holders, Handlers, Past, Busy
  <2> QED
    BY <1>0, <1>4, <1>7, <2>1 DEF Held, Published
<1> QED
  BY <1>2, <1>3, <1>6, <1>8 DEF IInv

\* The failure of an attempt.
LEMMA FailStep ==
  ASSUME JobsAssumption, IInv, NEW w \in Workers, Fail(w)
  PROVE  IInv'
<1> DEFINE c == at[w].out.of
<1>0. UNCHANGED <<submitted, holder, pulse, withdrawn, claim, collaborative, member, row, turns>>
  BY DEF Fail, job, public, project
<1>1. c \in Checkpoints /\ Past(w) /\ Held(w)
  BY DEF Fail, IInv, Handlers, Holders, Busy, Past
<1>2. Shows' /\ Rest'
  <2>1. Trouble \/ NoTrouble
    BY DEF Fail
  <2> QED
    BY <1>0, <2>1, TroubleKeeps DEF IInv, Shows
<1>3. Queues' /\ Handlers'
  BY <1>1, ThrowsKeeps DEF Fail, IInv
<1>4. at' = [at EXCEPT ![w] = Idle]
  BY DEF Fail, Throws
<1>5. \/ UNCHANGED job
      \/ holder[c] = w /\ \E s \in {"failed", "retrying"} : SetStatus(c, s)
  BY <1>1 DEF Fail, MayFail, Held
<1>6. Rows'
  <2>1. CASE UNCHANGED job
    BY <1>0, <2>1 DEF job, IInv, Rows
  <2>2. ASSUME NEW s \in {"failed", "retrying"}, SetStatus(c, s) PROVE Rows'
    <3>1. s \in Statuses /\ s # "none"
      BY DEF Statuses, Final, Open
    <3> QED
      BY <1>0, <1>1, <2>2, <3>1, SetStatusKeeps DEF IInv, Rows, Held
  <2> QED
    BY <1>5, <2>1, <2>2
<1>7. \A d \in Checkpoints :
        status'[d] = status[d] \/ (d = c /\ holder[c] = w /\ status'[d] \in {"failed", "retrying"})
  BY <1>1, <1>5 DEF job, SetStatus, IInv, Rows
<1>8. Holders'
  <2> SUFFICES ASSUME NEW v \in Workers, Past(v)' PROVE Held(v)'
    BY DEF Holders
  <2>1. v # w /\ at'[v] = at[v]
    BY <1>4 DEF Past, Idle, IInv, Handlers
  <2>2. Held(v) /\ at[v].out.of \in Checkpoints
    BY <2>1 DEF IInv, Holders, Handlers, Past, Busy
  <2> QED
    BY <1>0, <1>7, <2>1, <2>2 DEF Held
<1> QED
  BY <1>2, <1>3, <1>6, <1>8 DEF IInv

\* Every step keeps the inductive invariant.
LEMMA NextInvariant == JobsAssumption /\ IInv /\ [Next]_vars => IInv'
<1> SUFFICES ASSUME JobsAssumption, IInv, [Next]_vars PROVE IInv'
  OBVIOUS
<1>1. CASE UNCHANGED vars
  BY <1>1 DEF vars, job, public, project, graphile,
              IInv, Rows, Queues, Handlers, Shows, Rest, Holders, Held, Past, Busy
<1> QED
  BY <1>1, OutsideSteps, GraphileSteps, ReadingSteps, ClaimStep, CompleteStep, FailStep DEF Next, Handle

LEMMA InductiveInvariant == ASSUME JobsAssumption PROVE Spec => []IInv
  BY InitInvariant, NextInvariant, PTL DEF Spec

-----------------------------------------------------------------------------
\* Every reachable state is well typed.
THEOREM TypeCorrect == ASSUME JobsAssumption PROVE Spec => []JobsTypeOK
<1>1. IInv => JobsTypeOK
  BY DEF IInv, Rows, Queues, Handlers, Shows, Rest, JobsTypeOK
<1> QED
  BY <1>1, InductiveInvariant, PTL

\* How a step changes the jobs: one is submitted, an open one is claimed or
\* fails an attempt of its holder, and its holder publishes it.
LEMMA StatusSteps ==
  ASSUME JobsAssumption, IInv, Next, NEW c \in Checkpoints, status'[c] # status[c] \/ holder'[c] # holder[c]
  PROVE  \/ status[c] \in Open
         \/ status[c] = "none" /\ holder'[c] = holder[c] /\ c = submitted + 1 /\ submitted' = c
<1> USE DEF IInv, Rows
<1>1. CASE Submit
  BY <1>1, SMTT(20) DEF Submit, JobsAssumption
<1>2. ASSUME NEW w \in Workers, Claim(w) PROVE status[c] \in Open
  BY <1>2 DEF Claim, SetStatus, job, Handlers, Busy
<1>3. ASSUME NEW w \in Workers, Complete(w) PROVE status[c] \in Open
  BY <1>3 DEF Complete, Apply, Holds, SetStatus, job, Handlers, Busy, Open
<1>4. ASSUME NEW w \in Workers, Fail(w) PROVE status[c] \in Open
  <2>1. Held(w) /\ at[w].out.of \in Checkpoints
    BY <1>4 DEF Fail, Holders, Past, Handlers, Busy
  <2>2. at[w].out.of = c /\ MayFail(w, c) /\ status[c] # "failed"
    BY <1>4, <2>1 DEF Fail, SetStatus, job, MayFail, Held
  <2> QED
    BY <2>1, <2>2 DEF MayFail, Held, Statuses, Final
<1> QED
  BY <1>1, <1>2, <1>3, <1>4
  DEF Next, Handle, TurnPosture, Leave, Withdraw, Reconcile, Dispatch, Start, Lapse, Kill, Read, Model,
      Boundary, job

\* A job that was published or failed for good stays as it is, whatever a late
\* worker, a retry or the reconciler does.
THEOREM FinalStays == ASSUME JobsAssumption PROVE Spec => FinalIsFinal
<1>1. IInv /\ [Next]_vars => [\A c \in Checkpoints : status[c] \in Final => status'[c] = status[c]]_vars
  BY StatusSteps DEF Final, Published, Open
<1> QED
  BY <1>1, InductiveInvariant, PTL DEF Spec, FinalIsFinal

\* The Work State shows the newest checkpoint's job and its status.
THEOREM ShownIsTheNewest == ASSUME JobsAssumption PROVE Spec => []ShownIsCurrent
<1>1. Init => ShownIsCurrent
  BY DEF Init, ShownIsCurrent
<1>2. IInv /\ ShownIsCurrent /\ [Next]_vars => ShownIsCurrent'
  <2> SUFFICES ASSUME IInv, ShownIsCurrent, [Next]_vars PROVE ShownIsCurrent'
    OBVIOUS
  <2> USE DEF IInv, Rows, ShownIsCurrent
  <2>1. CASE Submit
    BY <2>1 DEF Submit
  <2>2. ASSUME NEW w \in Workers, Claim(w) \/ Complete(w) \/ Fail(w) PROVE ShownIsCurrent'
    <3>1. submitted' = submitted /\ at[w].out.of \in Checkpoints
      BY <2>2 DEF Claim, Complete, Fail, Handlers, Busy
    <3>2. UNCHANGED <<status, shown>> \/ \E s \in Statuses : SetStatus(at[w].out.of, s)
      BY <2>2, Zenon DEF Claim, Complete, Apply, Fail, job, Statuses, Open, Final, Published
    <3> QED
      BY <3>1, <3>2 DEF SetStatus
  <2> QED
    BY <2>1, <2>2
    DEF Next, Handle, TurnPosture, Leave, Withdraw, Reconcile, Dispatch, Start, Lapse, Kill, Read, Model,
        Boundary, job, vars
<1> QED
  BY <1>1, <1>2, InductiveInvariant, PTL DEF Spec

\* What the Project shows was published by the last worker that claimed it: a
\* worker whose claim was taken over never publishes.
THEOREM PulseIsClaimed == ASSUME JobsAssumption PROVE Spec => []PulseIsOfTheLastClaim
<1> DEFINE PulseOK == PulseIsOfTheLastClaim /\ (pulse # Nothing => pulse.of \in Checkpoints)
<1>1. Init => PulseOK
  BY DEF Init, PulseIsOfTheLastClaim
<1>2. IInv /\ PulseOK /\ [Next]_vars => PulseOK'
  <2> SUFFICES ASSUME IInv, PulseOK, [Next]_vars, pulse' # Nothing
               PROVE  pulse'.of \in Checkpoints /\ status'[pulse'.of] = "published"
                      /\ pulse'.by = holder'[pulse'.of]
    BY DEF PulseIsOfTheLastClaim
  <2>1. CASE pulse' = pulse
    <3>1. pulse.of \in Checkpoints /\ status[pulse.of] = "published" /\ pulse.by = holder[pulse.of]
      BY <2>1 DEF PulseIsOfTheLastClaim
    <3>2. status'[pulse.of] = status[pulse.of] /\ holder'[pulse.of] = holder[pulse.of]
      BY <3>1, StatusSteps DEF vars, job, Open
    <3> QED
      BY <2>1, <3>1, <3>2
  <2>2. ASSUME NEW w \in Workers, Complete(w), pulse' # pulse
        PROVE  pulse'.of \in Checkpoints /\ status'[pulse'.of] = "published"
               /\ pulse'.by = holder'[pulse'.of]
    BY <2>2 DEF Complete, Apply, Holds, SetStatus, public, IInv, Rows, Handlers, Busy
  <2>3. pulse' = pulse \/ \E w \in Workers : Complete(w)
    BY DEF Next, Handle, Submit, TurnPosture, Leave, Withdraw, Reconcile, Dispatch, Start, Lapse, Kill, Claim,
           Read, Model, Boundary, Fail, public, vars
  <2> QED
    BY <2>1, <2>2, <2>3
<1> QED
  BY <1>1, <1>2, InductiveInvariant, PTL DEF Spec

-----------------------------------------------------------------------------
\* How a step changes the claims of shared boundaries.
LEMMA ClaimSteps ==
  ASSUME [Next]_vars
  PROVE  \/ UNCHANGED <<claim, withdrawn>>
         \/ withdrawn' = withdrawn /\ \E w \in Workers : claim' = Claimed(at[w].out.of)
         \/ withdrawn' /\ claim' = [c \in Checkpoints |-> IF claim[c] = "none" THEN "none" ELSE "withdrawn"]
  BY Zenon DEF Next, Handle, Submit, TurnPosture, Leave, Withdraw, Reconcile, Dispatch, Start, Lapse, Kill, Claim,
         Read, Model, Boundary, Complete, Apply, Fail, public, vars

\* A Workstream has one current claim at most.
THEOREM ClaimIsOne == ASSUME JobsAssumption PROVE Spec => []OneClaim
<1> DEFINE Unique == \A c, d \in Checkpoints : claim[c] = "current" /\ claim[d] = "current" => c = d
<1>1. Init => Unique
  BY DEF Init
<1>2. IInv /\ Unique /\ [Next]_vars => Unique'
  BY ClaimSteps DEF IInv, Shows, Claimed
<1>3. Unique => OneClaim
  <2> SUFFICES ASSUME Unique PROVE OneClaim
    OBVIOUS
  <2> DEFINE S == {c \in Checkpoints : claim[c] = "current"}
  <2>1. CASE S = {}
    BY <2>1, FS_EmptySet DEF OneClaim
  <2>2. CASE S # {}
    <3>1. PICK c \in S : TRUE
      BY <2>2
    <3>2. S = {c}
      BY <3>1
    <3>3. Cardinality({c}) = 1
      BY FS_Singleton
    <3> QED
      BY <3>2, <3>3 DEF OneClaim
  <2> QED
    BY <2>1, <2>2
<1> QED
  BY <1>1, <1>2, <1>3, InductiveInvariant, PTL DEF Spec

\* A claim that was superseded or withdrawn never is the Workstream's again.
THEOREM ClaimStaysOver == ASSUME JobsAssumption PROVE Spec => ClaimNeverReturns
<1>1. IInv /\ [Next]_vars =>
        [\A c \in Checkpoints : claim[c] \in {"superseded", "withdrawn"} => claim'[c] # "current"]_vars
  BY ClaimSteps DEF IInv, Shows, Claimed
<1> QED
  BY <1>1, InductiveInvariant, PTL DEF Spec, ClaimNeverReturns

\* No publication shows again what its author withdrew.
THEOREM WithdrawnIsFinal == ASSUME JobsAssumption PROVE Spec => WithdrawnStays
<1>1. [Next]_vars => [withdrawn => withdrawn']_vars
  BY ClaimSteps
<1> QED
  BY <1>1, PTL DEF Spec, WithdrawnStays
===============================================================================
