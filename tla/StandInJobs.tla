----------------------------- MODULE StandInJobs -----------------------------
(***************************************************************************)
(* The publication of checkpoints: one Workstream whose Agent submits      *)
(* checkpoints 1, 2, ..., the Stand-in job of each (apps/server-worker/    *)
(* src/pilot-jobs.ts, apps/server-api/src/pilot-service.ts) and what the   *)
(* pilot store keeps of it.  Every method of the store is one transaction  *)
(* under an advisory lock.                                                 *)
(*                                                                         *)
(* Graphile Worker is external: it runs the ready jobs of a Project's      *)
(* queue one at a time and in any order, an attempt that throws runs again *)
(* until MaxAttempts, a job whose lock is four hours old is handed to      *)
(* another worker, and "unsafe_dedupe" drops an addition while a job of    *)
(* that key exists, failed for good or not.  A worker is a process with an *)
(* id of its own; what it does after its lock lapsed still reaches the     *)
(* store.  Any claim may be older than the reconciler's 60 seconds.        *)
(***************************************************************************)
EXTENDS Naturals, FiniteSets

CONSTANTS
  Workers, NoWorker,
  Checkpoints,    \* 1 .. n: the checkpoints of the Workstream
  MaxAttempts,    \* Graphile: executions of one job
  Boundaries,     \* the checkpoints that state a shared boundary
  MaxTurns,       \* bound: changes of the Project's posture and of its members
  MaxTroubles     \* bound: errors, dead workers, lapsed locks, lost rows

\* What the modules that instantiate this one assume of its constants.
JobsAssumption ==
  /\ NoWorker \notin Workers /\ Checkpoints \subseteq Nat \ {0}
  /\ MaxAttempts \in Nat \ {0} /\ MaxTurns \in Nat /\ MaxTroubles \in Nat

VARIABLES
  submitted,            \* the newest checkpoint
  status, holder,       \* each checkpoint's job row: status, worker_id
  shown,                \* workState.standIn: the job it shows, and its status
  pulse, withdrawn,     \* the pulse entry: the output it shows; withdrawn_at
  claim,                \* each checkpoint's shared boundary claim
  collaborative, member,  \* the Project's posture; the owner participates
  row,                  \* the job's outbox row
  queue, runner, attempt,  \* Graphile: the job, its locked_by, its attempts
  at,                   \* each worker's handler
  turns, troubles

job == <<status, holder, shown>>
public == <<pulse, withdrawn, claim>>
project == <<collaborative, member>>
graphile == <<queue, runner, attempt>>
vars == <<submitted, job, public, project, row, graphile, at, turns, troubles>>

Nothing == [of |-> 0, by |-> NoWorker, raw |-> FALSE]
Idle == [pc |-> "idle", try |-> 0, out |-> Nothing]

Init ==
  /\ submitted = 0
  /\ status = [c \in Checkpoints |-> "none"] /\ holder = [c \in Checkpoints |-> NoWorker]
  /\ shown = [of |-> 0, status |-> "none"]
  /\ pulse = Nothing /\ withdrawn = FALSE /\ claim = [c \in Checkpoints |-> "none"]
  /\ collaborative \in BOOLEAN /\ member = TRUE
  /\ row = [c \in Checkpoints |-> "none"]
  /\ queue = [c \in Checkpoints |-> "none"] /\ runner = [c \in Checkpoints |-> NoWorker]
  /\ attempt = [c \in Checkpoints |-> 0]
  /\ at = [w \in Workers |-> Idle]
  /\ turns = 0 /\ troubles = 0

Published == {"published", "private"}
Final == Published \union {"failed"}
Open == {"pending", "processing", "retrying"}

Trouble == troubles < MaxTroubles /\ troubles' = troubles + 1
NoTrouble == UNCHANGED troubles

-----------------------------------------------------------------------------
(* What the store does with a job.                                         *)

\* Fault variant: every job's status is shown.
SetStatusOfAny(c, s) ==
  /\ status' = [status EXCEPT ![c] = s]
  /\ shown' = [of |-> c, status |-> s]

\* The Work State shows the job of its newest checkpoint only.
SetStatus(c, s) ==
  /\ status' = [status EXCEPT ![c] = s]
  /\ shown' = IF shown.of = c THEN [of |-> c, status |-> s] ELSE shown

\* ingestCheckpoint: the Work State, the job and its outbox row.
Submit ==
  LET c == submitted + 1
  IN  /\ c \in Checkpoints /\ member
      /\ submitted' = c
      /\ status' = [status EXCEPT ![c] = "pending"]
      /\ shown' = [of |-> c, status |-> "pending"]
      /\ row' = [row EXCEPT ![c] = "open"]
      /\ UNCHANGED <<holder, public, project, graphile, at, turns, troubles>>

\* Fault variant: only jobs that were claimed are looked for.
PendingClaimed(c) == status[c] = "processing" /\ row[c] = "done"

\* reconcilePending: the row was completed, the job was not.
Pending(c) == status[c] \in Open /\ row[c] = "done"

Reconcile(c) ==
  /\ Pending(c)
  /\ row' = [row EXCEPT ![c] = "open"]
  /\ UNCHANGED <<submitted, job, public, project, graphile, at, turns, troubles>>

Add(c) ==
  /\ queue' = [queue EXCEPT ![c] = IF @ = "none" THEN "ready" ELSE @]
  /\ attempt' = [attempt EXCEPT ![c] = IF queue[c] = "none" THEN 0 ELSE @]
  /\ UNCHANGED runner

\* The dispatcher enqueues the job and completes its row, stops before it
\* completes the row, or gives the row up after twenty failed tries.
Dispatch(c) ==
  /\ row[c] = "open"
  /\ \/ Add(c) /\ row' = [row EXCEPT ![c] = "done"] /\ NoTrouble
     \/ Add(c) /\ UNCHANGED row /\ Trouble
     \/ UNCHANGED graphile /\ row' = [row EXCEPT ![c] = "done"] /\ Trouble
  /\ UNCHANGED <<submitted, job, public, project, at, turns>>

-----------------------------------------------------------------------------
(* Graphile Worker.                                                        *)

Start(w, c) ==
  /\ at[w] = Idle /\ queue[c] = "ready"
  /\ \A d \in Checkpoints : queue[d] # "running"
  /\ queue' = [queue EXCEPT ![c] = "running"]
  /\ runner' = [runner EXCEPT ![c] = w]
  /\ attempt' = [attempt EXCEPT ![c] = @ + 1]
  /\ at' = [at EXCEPT ![w] = [pc |-> "claim", try |-> attempt[c] + 1,
                                out |-> [of |-> c, by |-> w, raw |-> FALSE]]]
  /\ UNCHANGED <<submitted, job, public, project, row, turns, troubles>>

Again(c) == IF attempt[c] < MaxAttempts THEN "ready" ELSE "dead"

\* The handler returned: the job is deleted.
Returns(w, c) ==
  /\ queue' = [queue EXCEPT ![c] = "none"]
  /\ runner' = [runner EXCEPT ![c] = NoWorker]
  /\ at' = [at EXCEPT ![w] = Idle]
  /\ UNCHANGED attempt

\* It threw: only the holder of the lock releases the job.
Throws(w, c) ==
  /\ queue' = [queue EXCEPT ![c] = IF runner[c] = w THEN Again(c) ELSE @]
  /\ runner' = [runner EXCEPT ![c] = IF @ = w THEN NoWorker ELSE @]
  /\ at' = [at EXCEPT ![w] = Idle]
  /\ UNCHANGED attempt

Goes(w, pc) == at' = [at EXCEPT ![w].pc = pc] /\ UNCHANGED graphile

Busy(w) == at[w].pc \notin {"idle", "gone"}

\* The lock of a hung worker is four hours old.
Lapse(w) ==
  LET c == at[w].out.of
  IN  /\ Busy(w) /\ runner[c] = w /\ Trouble
      /\ queue' = [queue EXCEPT ![c] = Again(c)]
      /\ runner' = [runner EXCEPT ![c] = NoWorker]
      /\ UNCHANGED <<submitted, job, public, project, row, attempt, at, turns>>

\* The process dies; a new one has a new id.
Kill(w) ==
  LET c == at[w].out.of
  IN  /\ Busy(w) /\ Trouble
      /\ queue' = [queue EXCEPT ![c] = IF runner[c] = w THEN Again(c) ELSE @]
      /\ runner' = [runner EXCEPT ![c] = IF @ = w THEN NoWorker ELSE @]
      /\ at' = [at EXCEPT ![w] = [pc |-> "gone", try |-> 0, out |-> Nothing]]
      /\ \E v \in Workers \ {w} : at[v].pc # "gone"
      /\ UNCHANGED <<submitted, job, public, project, row, attempt, turns>>

-----------------------------------------------------------------------------
(* The handler: PilotStandInJobHandler.handleJobKey.                       *)

\* claimStandInJob is called outside the try: its errors change no job row.
Claim(w) ==
  LET c == at[w].out.of
  IN  /\ at[w].pc = "claim"
      /\ \/ /\ status[c] \in Published /\ Returns(w, c) /\ UNCHANGED job /\ NoTrouble
         \/ /\ status[c] = "failed" /\ Throws(w, c) /\ UNCHANGED job /\ NoTrouble
         \/ /\ status[c] \in Open
            /\ SetStatus(c, "processing")
            /\ holder' = [holder EXCEPT ![c] = w]
            /\ Goes(w, "read") /\ NoTrouble
         \/ Throws(w, c) /\ UNCHANGED job /\ Trouble
      /\ UNCHANGED <<submitted, public, project, row, turns>>

\* Authorization and the Project: while its posture is not collaborative the
\* output is the raw narrative and no model is called.
Read(w) ==
  /\ at[w].pc = "read"
  /\ \/ /\ member /\ ~collaborative /\ NoTrouble
        /\ at' = [at EXCEPT ![w] = [pc |-> "complete", try |-> @.try,
                                     out |-> [of |-> @.out.of, by |-> w, raw |-> TRUE]]]
        /\ UNCHANGED graphile
     \/ member /\ collaborative /\ Goes(w, "model") /\ NoTrouble
     \/ ~member /\ Goes(w, "fail") /\ NoTrouble
     \/ Goes(w, "fail") /\ Trouble
  /\ UNCHANGED <<submitted, job, public, project, row, turns>>

Model(w) ==
  /\ at[w].pc = "model"
  /\ \/ Goes(w, IF at[w].out.of \in Boundaries THEN "boundary" ELSE "complete") /\ NoTrouble
     \/ Goes(w, "fail") /\ Trouble
  /\ UNCHANGED <<submitted, job, public, project, row, turns>>

\* reconcileSharedBoundaries: a checkpoint claims once, and supersedes the
\* claim that is current.
Claimed(c) ==
  IF claim[c] # "none" THEN claim
  ELSE [d \in Checkpoints |-> IF d = c THEN "current" ELSE IF claim[d] = "current" THEN "superseded" ELSE claim[d]]

\* After a withdrawal no claim is left to supersede: a new one is revision 1
\* again, which the table's unique index refuses.
Refused(c) == claim[c] = "none" /\ \E d \in Checkpoints : claim[d] = "withdrawn"

\* A transaction of its own, before the job is completed.
Boundary(w) ==
  LET c == at[w].out.of
  IN  /\ at[w].pc = "boundary"
      /\ \/ ~Refused(c) /\ claim' = Claimed(c) /\ Goes(w, "complete") /\ NoTrouble
         \/ Refused(c) /\ UNCHANGED claim /\ Goes(w, "fail") /\ NoTrouble
         \/ ~Refused(c) /\ claim' \in {claim, Claimed(c)} /\ Goes(w, "fail") /\ Trouble
      /\ UNCHANGED <<submitted, job, pulse, withdrawn, project, row, turns>>

\* Fault variant: any worker may complete a job that is being processed.
HoldsAny(w, c) == status[c] = "processing"

\* The lease of completeStandInJob.
Holds(w, c) == status[c] = "processing" /\ holder[c] = w

\* The Project's posture decides now whether the output is published; an entry
\* that was withdrawn keeps its mark.
Apply(w, c) ==
  /\ SetStatus(c, IF collaborative THEN "published" ELSE "private")
  /\ pulse' = IF collaborative THEN at[w].out ELSE pulse
  /\ UNCHANGED <<holder, withdrawn, claim>>

Complete(w) ==
  LET c == at[w].out.of
  IN  /\ at[w].pc = "complete"
      /\ \/ status[c] \in Published /\ UNCHANGED <<job, public>> /\ Returns(w, c) /\ NoTrouble
         \/ status[c] \notin Published /\ Holds(w, c) /\ Apply(w, c) /\ Returns(w, c) /\ NoTrouble
         \/ status[c] \notin Published /\ Holds(w, c) /\ Apply(w, c) /\ Goes(w, "fail") /\ Trouble
         \/ status[c] \notin Published /\ ~Holds(w, c) /\ UNCHANGED <<job, public>> /\ Goes(w, "fail") /\ NoTrouble
         \/ UNCHANGED <<job, public>> /\ Goes(w, "fail") /\ Trouble
      /\ UNCHANGED <<submitted, project, row, turns>>

\* Fault variant: the catch marks a published job for a retry.
MayFailPublished(w, c) == holder[c] \in {w, NoWorker}

\* failStandInJob leaves a published job and another worker's job alone.
MayFail(w, c) == status[c] \notin Published /\ holder[c] \in {w, NoWorker}

\* The catch: on the last attempt the job is failed for good.  Then it rethrows.
Fail(w) ==
  LET c == at[w].out.of
  IN  /\ at[w].pc = "fail"
      /\ \/ /\ MayFail(w, c) /\ NoTrouble
            /\ SetStatus(c, IF at[w].try >= MaxAttempts THEN "failed" ELSE "retrying")
            /\ UNCHANGED holder
         \/ ~MayFail(w, c) /\ UNCHANGED job /\ NoTrouble
         \/ UNCHANGED job /\ Trouble
      /\ Throws(w, c)
      /\ UNCHANGED <<submitted, public, project, row, turns>>

-----------------------------------------------------------------------------
(* People.                                                                 *)

\* updateProjectPosture.
TurnPosture ==
  /\ turns < MaxTurns /\ turns' = turns + 1
  /\ collaborative' = ~collaborative
  /\ UNCHANGED <<submitted, job, public, member, row, graphile, at, troubles>>

Leave ==
  /\ member /\ turns < MaxTurns /\ turns' = turns + 1
  /\ member' = FALSE
  /\ UNCHANGED <<submitted, job, public, collaborative, row, graphile, at, troubles>>

\* withdrawPulseEntry: the entry and every claim that is not withdrawn yet.
Withdraw ==
  /\ member /\ pulse # Nothing /\ ~withdrawn
  /\ withdrawn' = TRUE
  /\ claim' = [c \in Checkpoints |-> IF claim[c] = "none" THEN "none" ELSE "withdrawn"]
  /\ UNCHANGED <<submitted, job, pulse, project, row, graphile, at, turns, troubles>>

-----------------------------------------------------------------------------
Handle(w) == Claim(w) \/ Read(w) \/ Model(w) \/ Boundary(w) \/ Complete(w) \/ Fail(w)

Next ==
  \/ Submit \/ TurnPosture \/ Leave \/ Withdraw
  \/ \E c \in Checkpoints : Reconcile(c) \/ Dispatch(c)
  \/ \E w \in Workers : \/ \E c \in Checkpoints : Start(w, c)
                        \/ Handle(w) \/ Lapse(w) \/ Kill(w)

Spec == Init /\ [][Next]_vars

\* The loops of the worker process run, Graphile starts what is ready, and a
\* call of a handler returns or its worker dies.
Fairness ==
  /\ \A c \in Checkpoints : WF_vars(Reconcile(c)) /\ WF_vars(Dispatch(c))
  /\ \A w \in Workers : WF_vars(Handle(w))
  /\ WF_vars(\E w \in Workers, c \in Checkpoints : Start(w, c))

FairSpec == Spec /\ Fairness

-----------------------------------------------------------------------------
Statuses == {"none"} \union Open \union Final
Outputs == [of : {0} \union Checkpoints, by : Workers \union {NoWorker}, raw : BOOLEAN]
Steps == {"idle", "gone", "claim", "read", "model", "boundary", "complete", "fail"}

\* Every variable ranges over what its column or variable can hold.
JobsTypeOK ==
  /\ submitted \in {0} \union Checkpoints
  /\ status \in [Checkpoints -> Statuses]
  /\ holder \in [Checkpoints -> Workers \union {NoWorker}]
  /\ shown \in [of : {0} \union Checkpoints, status : Statuses]
  /\ pulse \in Outputs /\ withdrawn \in BOOLEAN
  /\ claim \in [Checkpoints -> {"none", "current", "superseded", "withdrawn"}]
  /\ collaborative \in BOOLEAN /\ member \in BOOLEAN
  /\ row \in [Checkpoints -> {"none", "open", "done"}]
  /\ queue \in [Checkpoints -> {"none", "ready", "running", "dead"}]
  /\ runner \in [Checkpoints -> Workers \union {NoWorker}]
  /\ attempt \in [Checkpoints -> 0 .. MaxAttempts]
  /\ at \in [Workers -> [pc : Steps, try : 0 .. MaxAttempts, out : Outputs]]
  /\ turns \in 0 .. MaxTurns /\ troubles \in 0 .. MaxTroubles

\* However many attempts, workers and additions a job had, it is settled once:
\* no late worker, failed answer to a commit or retry changes it afterwards.
FinalIsFinal ==
  [][\A c \in Checkpoints : status[c] \in Final => status'[c] = status[c]]_vars

\* The Work State shows the job of its newest checkpoint, while the jobs of
\* older ones go on changing.
ShownIsCurrent ==
  submitted # 0 => shown = [of |-> submitted, status |-> status[submitted]]

\* What the Team reads comes from the worker that claimed its job last, and
\* that job is published: a worker whose job was taken over publishes nothing.
PulseIsOfTheLastClaim ==
  pulse # Nothing => status[pulse.of] = "published" /\ pulse.by = holder[pulse.of]

\* A withdrawn entry is not shown again by a later publication.
WithdrawnStays == [][withdrawn => withdrawn']_vars

\* A claim that was superseded or withdrawn is not current again, though its
\* checkpoint is handled again.
ClaimNeverReturns ==
  [][\A c \in Checkpoints : claim[c] \in {"superseded", "withdrawn"} => claim'[c] # "current"]_vars

\* At most one claim of the Workstream is current.
OneClaim == Cardinality({c \in Checkpoints : claim[c] = "current"}) <= 1

\* With fewer troubles than attempts every checkpoint is published, kept
\* private or failed: no row that was given up and no dead worker loses it.  Not
\* so where every attempt fails: the last one may stop before it can say so.
EventuallySettled ==
  []<>(\A c \in Checkpoints : status[c] \in Final \union {"none"} \/ ~member \/ Refused(c))

\* What the Team reads never goes back to an older checkpoint.  The code does
\* not keep this, nor the next three: the README says when.
PulseNeverGoesBack == [][pulse'.of >= pulse.of]_vars

\* The claim that is current is that of the newest checkpoint that claimed.
ClaimIsOfTheNewest ==
  \A c, d \in Checkpoints : claim[c] = "current" /\ claim[d] = "superseded" => d < c

\* A job that Graphile will not run again is settled.
DeadIsSettled ==
  \A c \in Checkpoints : queue[c] = "dead" => status[c] \in Final

\* The Team reads what the model made safe for it.
PulseIsSafe == ~pulse.raw
=============================================================================
