----------------------------- MODULE MCWorkerJobs -----------------------------
(***************************************************************************)
(* Instances of the worker's jobs for TLC to check in one run: a Stand-in  *)
(* question, the Stand-in jobs of a Workstream, an Intero request, the     *)
(* notifications of a Thread and the automation of a Project, the reports  *)
(* and the conflicts in it apart.  The models share no state: a            *)
(* behaviour is one of one of them (`part` says of which) while the others *)
(* rest as they started.                                                   *)
(***************************************************************************)
EXTENDS StandInQuestions

CONSTANTS
  Workers, NoWorker, Checkpoints, Boundaries, MaxJobAttempts, MaxTurns, MaxJobTroubles,
  MaxRequestAttempts, MaxRevision, MaxEvidence, MayWithdraw, MaxTroubles,
  Endpoints, MaxMessages, MaxPushAttempts, MaxFailures,
  Reports, Risks, Conflicts, CaseThread, NoSignal, NoPlan, NoThread, MaxTries, MaxMoves

VARIABLES
  part,
  submitted, jobStatus, holder, shown, pulse, withdrawn, claim, collaborative, participates,
  jobRow, jobQueue, runner, jobAttempt, at, turns, jobTroubles,
  requestStatus, rev, scope, evidence, readable, foreign, entry, cases, discussions,
  links, requestRow, requestQueue, requestAttempt, requestPc, ref, seen, troubles, lost, elsewhere,
  sequence, updates, pushJobs, nextId, running, subscribed, dead, pushed, failures,
  on, risks, report, retries, signalStatus, signalRow, tries, signalQueue, signalAttempt,
  thread, inbox, plan, confirming, moves, signalTroubles

Jobs == INSTANCE StandInJobs WITH
  MaxAttempts <- MaxJobAttempts, MaxTroubles <- MaxJobTroubles,
  status <- jobStatus, member <- participates, row <- jobRow, queue <- jobQueue,
  attempt <- jobAttempt, troubles <- jobTroubles
Request == INSTANCE InteroRequests WITH
  MaxAttempts <- MaxRequestAttempts,
  status <- requestStatus, row <- requestRow, queue <- requestQueue,
  attempt <- requestAttempt, pc <- requestPc
Push == INSTANCE WebPush WITH
  MaxAttempts <- MaxPushAttempts, stream <- sequence, jobs <- pushJobs
Automation == INSTANCE AutomationSignals WITH
  MaxAttempts <- MaxRequestAttempts,
  status <- signalStatus, row <- signalRow, queue <- signalQueue,
  attempt <- signalAttempt, troubles <- signalTroubles

ASSUME JobsConstants == Jobs!JobsAssumption
ASSUME RequestConstants == Request!RequestAssumption
ASSUME PushConstants == Push!PushAssumption
ASSUME AutomationConstants == Automation!AutomationAssumption

jobsVars ==
  <<submitted, jobStatus, holder, shown, pulse, withdrawn, claim, collaborative, participates,
    jobRow, jobQueue, runner, jobAttempt, at, turns, jobTroubles>>
requestVars ==
  <<requestStatus, rev, scope, evidence, readable, foreign, entry, cases, discussions,
    links, requestRow, requestQueue, requestAttempt, requestPc, ref, seen, troubles, lost,
    elsewhere>>
pushVars == <<sequence, updates, pushJobs, nextId, running, subscribed, dead, pushed, failures>>
automationVars ==
  <<on, risks, report, retries, signalStatus, signalRow, tries, signalQueue, signalAttempt,
    thread, inbox, plan, confirming, moves, signalTroubles>>
workerVars == <<part, vars, jobsVars, requestVars, pushVars, automationVars>>

WorkerInit ==
  /\ part \in {"question", "job", "request", "push", "automation", "conflict"}
  /\ Init
  /\ Jobs!Init /\ (part # "job" => collaborative)
  /\ Request!Init /\ (part # "request" => evidence = 0)
  /\ Push!Init
  /\ Automation!Init /\ (part # "automation" => risks = {})

\* Of automation, a behaviour is about risks with reports or with conflicts.
AutomationNext ==
  /\ Automation!Next
  /\ part = "automation" => \A c \in Conflicts : ~Automation!OpenConflict(c)
  /\ part = "conflict" => UNCHANGED report

WorkerNext ==
  /\ UNCHANGED part
  /\ \/ part = "question" /\ Next /\ UNCHANGED <<jobsVars, requestVars, pushVars, automationVars>>
     \/ part = "job" /\ Jobs!Next /\ UNCHANGED <<vars, requestVars, pushVars, automationVars>>
     \/ part = "request" /\ Request!Next /\ UNCHANGED <<vars, jobsVars, pushVars, automationVars>>
     \/ part = "push" /\ Push!Next /\ UNCHANGED <<vars, jobsVars, requestVars, automationVars>>
     \/ /\ part \in {"automation", "conflict"} /\ AutomationNext
        /\ UNCHANGED <<vars, jobsVars, requestVars, pushVars>>

Of(p, A) == part = p /\ A

\* The fairness of every module.
WorkerFairness ==
  /\ WF_vars(Of("question", Handle))
  /\ \A c \in Checkpoints : /\ WF_jobsVars(Of("job", Jobs!Reconcile(c)))
                            /\ WF_jobsVars(Of("job", Jobs!Dispatch(c)))
  /\ \A w \in Workers : WF_jobsVars(Of("job", Jobs!Handle(w)))
  /\ WF_jobsVars(Of("job", \E w \in Workers, c \in Checkpoints : Jobs!Start(w, c)))
  /\ WF_requestVars(Of("request", Request!Handle))
  /\ \A r \in 1 .. MaxRevision : /\ WF_requestVars(Of("request", Request!Dispatch(r)))
                                 /\ SF_requestVars(Of("request", Request!Start(r)))
  /\ WF_pushVars(Of("push", Push!Deliver))
  /\ WF_automationVars(Of("automation", Automation!Detect))
  /\ WF_automationVars(Of("automation", Automation!Persist))
  /\ \A s \in Reports \union Risks :
       /\ WF_automationVars(Of("automation", Automation!Dispatch(s)))
       /\ WF_automationVars(Of("automation", Automation!Open(s)))

WorkerFairSpec == WorkerInit /\ [][WorkerNext]_workerVars /\ WorkerFairness

-----------------------------------------------------------------------------
\* The properties of the instances, stated there.
CasesAreCurrent == Request!CasesAreCurrent
AnsweredIsShown == Request!AnsweredIsShown
EventuallyPushed == Push!EventuallyPushed
EventuallySettled == Jobs!EventuallySettled
SettledStays == Automation!SettledStays

\* The type invariants of the modules.
WorkerTypeOK ==
  TypeOK /\ Jobs!JobsTypeOK /\ Request!RequestTypeOK /\ Push!PushTypeOK
  /\ Automation!AutomationTypeOK

\* EventuallyAnswered of StandInQuestions, when that is the part that moves.
QuestionEventuallyAnswered == part = "question" => EventuallyAnswered

\* EventuallyClosed of InteroRequests, when that is the part that moves.
RequestEventuallyClosed == part = "request" => Request!EventuallyClosed

\* EventuallyRaised of AutomationSignals, when that is the part that moves.
SignalEventuallyRaised == part = "automation" => Automation!EventuallyRaised
=============================================================================
