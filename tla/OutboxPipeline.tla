--------------------------- MODULE OutboxPipeline ---------------------------
(***************************************************************************)
(* The worker's outbox as a whole: the realtime dispatcher and the job     *)
(* dispatchers poll the same outbox table every second, each with the      *)
(* topic filter of its own query.                                          *)
(***************************************************************************)
EXTENDS RealtimeOutbox, JobOutbox

CONSTANT ServedBy   \* the operations whose topic each job dispatcher claims

ASSUME PipelineAssumption == ServedBy \in [JobDispatchers -> SUBSET Ops]

allVars == <<tableVars, realtimeVars, jobVars>>

PipelineInit == Init /\ JobInit

PipelineTables == TablesStep /\ UNCHANGED jobVars

\* A job row taken by the realtime dispatcher counts an attempt as well.
RealtimeAdvance(d) ==
  /\ Advance(d)
  /\ IF pc[d] = "idle"
     THEN /\ Attempted({i[1] : i \in {x \in batch'[d] : x[2] = NoChannel}})
          /\ UNCHANGED <<enqueued, buried, jpc, claims, job>>
     ELSE UNCHANGED jobVars

RealtimeMisfortune(d) == Misfortune(d) /\ UNCHANGED jobVars

JobStep(d) == JobAdvance(d, ServedBy[d]) /\ UNCHANGED realtimeVars

JobFault(d) == JobMisfortune(d) /\ Fault
               /\ UNCHANGED <<published, pushJobs, dispatcherVars, shared>>

PipelineNext ==
  \/ PipelineTables
  \/ \E d \in Dispatchers : RealtimeAdvance(d) \/ RealtimeMisfortune(d)
  \/ \E d \in JobDispatchers : JobStep(d) \/ JobFault(d)

PipelineSpec == PipelineInit /\ [][PipelineNext]_allVars

\* Every dispatch loop runs again every second; leases and back-offs end.
PipelineFairness ==
  /\ \A d \in Dispatchers : WF_allVars(RealtimeAdvance(d))
  /\ \A d \in JobDispatchers : WF_allVars(JobStep(d))
  /\ \A i \in Items :
       WF_allVars(BecomesAvailable(i) /\ UNCHANGED <<realtimeVars, jobVars>>)

PipelineFairSpec == PipelineSpec /\ PipelineFairness

-----------------------------------------------------------------------------
\* A completed job row has put its job on the queue, or is a dead letter: no
\* interleaving of dispatchers, leases and failures drops the job of a durable
\* row.
JobRowDoneMeansEnqueued ==
  \A op \in rowDone : IsJob(op) => op \in enqueued \union buried

\* The same for the topics the realtime dispatcher leaves alone.
ReservedRowDoneMeansEnqueued ==
  \A op \in rowDone : KindOf[op] = "reservedJob" => op \in enqueued \union buried

\* Again and again everything committed is served: each client event has reached
\* each of its channels, each job reference of a reserved topic the queue or the
\* dead letters, whatever faults and crashes came first, as long as they do not use
\* up the attempts of a dispatch job.
EventuallyServed ==
  []<>(\A op \in committed :
         /\ ~IsJob(op) => \A i \in ItemsOf(op) : i \in published /\ ItemDone(i)
         /\ KindOf[op] = "reservedJob" => op \in enqueued \union buried)

\* Every variable ranges over what the tables and the dispatchers can hold.
PipelineTypeOK == TypeOK /\ JobTypeOK /\ shared \subseteq Ops
=============================================================================
