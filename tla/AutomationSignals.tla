-------------------------- MODULE AutomationSignals --------------------------
(***************************************************************************)
(* Automation of one Project (apps/server-api/src/automation-store.ts, the *)
(* tasks of apps/server-worker/src/index.ts): what the detector finds      *)
(* becomes a signal, whose job opens a coordination thread and asks a      *)
(* person; people propose and confirm a conclusion, or revert the signal.  *)
(* Beside it the pilot store completes the Stand-in jobs that the reported *)
(* signals come from, writes the same threads, and keeps signals of its    *)
(* own, for the conflicts of claims.                                       *)
(*                                                                         *)
(* A mutation of the pilot store reads all threads and the signals of      *)
(* conflicts, changes its copy and writes all of them back                 *)
(* (normalized-postgres-pilot-store.ts), under a lock that opening a       *)
(* report's coordination takes too and a revert or a confirmation does     *)
(* not: it is two steps, its reads one of them.  Every other transaction   *)
(* is one.  The overlap of dispatchers is in JobOutbox and left out here.  *)
(* Graphile Worker is external: a job that throws runs again until         *)
(* MaxAttempts.                                                            *)
(***************************************************************************)
EXTENDS Naturals, FiniteSets

CONSTANTS
  Reports,      \* checkpoints of one Work State that report a blocker
  Risks,        \* other things that are detected: relations, reviews, carried work
  Conflicts,    \* conflicts of claims, which completed checkpoints make signals
  CaseThread,   \* the Work State's coordination thread; the others have one of their own
  NoSignal, NoPlan, NoThread,  \* nulls
  MaxTries,     \* attempts of the dispatchers on one row
  MaxAttempts,  \* Graphile: executions of one job
  MaxMoves,     \* bound: changes of policy and risks, proposals, other mutations
  MaxTroubles   \* bound: failing calls, dead workers

AutomationAssumption ==
  /\ MaxTries \in Nat \ {0} /\ MaxAttempts \in Nat \ {0}
  /\ MaxMoves \in Nat /\ MaxTroubles \in Nat
  /\ Reports \intersect Risks = {} /\ Conflicts \intersect (Reports \union Risks) = {}
  /\ CaseThread \notin Risks \union Conflicts
  /\ NoSignal \notin Reports \union Risks \union Conflicts
  /\ NoThread \notin Risks \union Conflicts \union {CaseThread}

Detected == Reports \union Risks
Signals == Detected \union Conflicts
Threads == Risks \union Conflicts \union {CaseThread}
ThreadOf(s) == IF s \in Reports THEN CaseThread ELSE s

VARIABLES
  on,           \* the policy: enabled and not quiet
  risks,        \* the risks that are there
  report,       \* each report's Stand-in job: "none", "due", "published", "failed"
  retries,      \* attempts of each report's job that were refused
  status,       \* project_automation_signals.status, "none" when there is no row
  row, tries,   \* a detected signal's outbox row
  queue, attempt,  \* its Graphile job
  thread,       \* pilot_coordination_threads
  inbox,        \* threads with an unresolved inbox item
  plan,         \* the pilot store's copy during a mutation
  confirming,   \* the thread whose confirm route is between its calls
  moves, troubles

source == <<on, risks, report, retries>>
job == <<row, tries, queue, attempt>>
people == <<plan, confirming>>
vars == <<source, status, job, thread, inbox, people, moves, troubles>>

NoCase == [status |-> "none", signal |-> NoSignal, concluded |-> FALSE]

Init ==
  /\ on = TRUE /\ risks \in SUBSET Risks
  /\ report = [r \in Reports |-> "none"] /\ retries = [r \in Reports |-> 0]
  /\ status = [s \in Signals |-> "none"]
  /\ row = [s \in Detected |-> "none"] /\ tries = [s \in Detected |-> 0]
  /\ queue = [s \in Detected |-> "none"] /\ attempt = [s \in Detected |-> 0]
  /\ thread = [t \in Threads |-> NoCase] /\ inbox = {}
  /\ plan = NoPlan /\ confirming = NoThread
  /\ moves = 0 /\ troubles = 0

Move == moves < MaxMoves /\ moves' = moves + 1
Trouble == troubles < MaxTroubles /\ troubles' = troubles + 1
NoTrouble == UNCHANGED troubles

-----------------------------------------------------------------------------
(* What is detected.                                                       *)

\* updatePolicy; a quiet time that ends.
ChangePolicy ==
  /\ Move /\ on' = ~on
  /\ UNCHANGED <<risks, report, retries, status, job, thread, inbox, people, troubles>>

RiskChanges(k) ==
  /\ Move
  /\ risks' = IF k \in risks THEN risks \ {k} ELSE risks \union {k}
  /\ UNCHANGED <<on, report, retries, status, job, thread, inbox, people, troubles>>

\* A checkpoint arrives: its job is pending, which the detector reads already.
Submit(r) ==
  /\ report[r] = "none"
  /\ report' = [report EXCEPT ![r] = "due"]
  /\ UNCHANGED <<on, risks, retries, status, job, thread, inbox, people, moves, troubles>>

\* candidates: failed jobs are no longer among them.
Candidates == risks \union {r \in Reports : report[r] \in {"due", "published"}}

\* The unique fingerprint of insertSignal.
Found == {s \in Candidates : status[s] = "none"}

\* detectMeaningfulSignals, insertSignal.
Detect ==
  /\ on /\ Found # {}
  /\ status' = [s \in Signals |-> IF s \in Found THEN "pending" ELSE status[s]]
  /\ row' = [s \in Detected |-> IF s \in Found THEN "open" ELSE row[s]]
  /\ UNCHANGED <<source, tries, queue, attempt, thread, inbox, people, moves, troubles>>

-----------------------------------------------------------------------------
(* The dispatcher.                                                         *)

\* enqueue: unsafe_dedupe drops an addition while the signal has a job.
Added(s) ==
  /\ queue' = [queue EXCEPT ![s] = IF @ = "none" THEN "ready" ELSE @]
  /\ attempt' = [attempt EXCEPT ![s] = IF queue[s] = "none" THEN 0 ELSE @]

\* Statuses that the job and the dead letter leave alone.
Handled == {"opened", "confirmed", "reverted", "dismissed"}

\* Fault variant: a dead letter fails the signal in any status.
FailsAny(s) ==
  IF tries[s] + 1 >= MaxTries
  THEN /\ row' = [row EXCEPT ![s] = "done"]
       /\ status' = [status EXCEPT ![s] = "failed"]
  ELSE UNCHANGED <<row, status>>

\* Fault variant: a failed attempt completes the row, as the last one does.
CompletesAnyway(s) == row' = [row EXCEPT ![s] = "done"] /\ UNCHANGED status

\* markOutboxFailed.
MarkFailed(s) ==
  IF tries[s] + 1 >= MaxTries
  THEN /\ row' = [row EXCEPT ![s] = "done"]
       /\ status' = [status EXCEPT ![s] = IF @ \in Handled THEN @ ELSE "failed"]
  ELSE UNCHANGED <<row, status>>

Claims(s) ==
  /\ row[s] = "open" /\ tries' = [tries EXCEPT ![s] = @ + 1]
  /\ UNCHANGED <<source, thread, inbox, people, moves>>

Dispatch(s) ==
  /\ Claims(s) /\ Added(s)
  /\ row' = [row EXCEPT ![s] = "done"]
  /\ UNCHANGED <<status, troubles>>

\* The addition or the completion of the row fails, or the worker dies.
DispatchFails(s) ==
  /\ Claims(s) /\ Trouble
  /\ Added(s) \/ UNCHANGED <<queue, attempt>>
  /\ MarkFailed(s) \/ UNCHANGED <<row, status>>

-----------------------------------------------------------------------------
(* The job: openCoordination, one transaction.                             *)

Opens(s) == status[s] \notin Handled

\* A report's thread is the Work State's, which it opens again, with whatever
\* people concluded there.
Effect(s) ==
  CASE ~Opens(s) -> UNCHANGED <<status, thread, inbox>>
    [] Opens(s) /\ ~on ->
         /\ status' = [status EXCEPT ![s] = "dismissed"]
         /\ UNCHANGED <<thread, inbox>>
    [] OTHER ->
         /\ s \in Reports => plan = NoPlan
         /\ status' = [status EXCEPT ![s] = "opened"]
         /\ thread' = [thread EXCEPT ![ThreadOf(s)].status = "open",
                                     ![ThreadOf(s)].signal = s]
         /\ inbox' = inbox \union {ThreadOf(s)}

Runs(s) ==
  /\ queue[s] = "ready" /\ attempt' = [attempt EXCEPT ![s] = @ + 1]
  /\ UNCHANGED <<source, row, tries, people, moves>>

Open(s) ==
  /\ Runs(s) /\ Effect(s)
  /\ queue' = [queue EXCEPT ![s] = "none"] /\ NoTrouble

\* The job throws, or commits and its worker dies.
OpenFails(s) ==
  /\ Runs(s) /\ Trouble
  /\ Effect(s) \/ UNCHANGED <<status, thread, inbox>>
  /\ queue' = [queue EXCEPT ![s] = IF attempt[s] + 1 < MaxAttempts THEN @ ELSE "dead"]

-----------------------------------------------------------------------------
(* People, and the pilot store.                                            *)

\* The inbox key of a risk is the signal's, that of a report the Work State's,
\* which nothing resolves.
Resolves(s) == inbox' = inbox \ (Risks \intersect {s})

\* revert: it takes no lock.
Revert(s) ==
  /\ status[s] \in {"opened", "confirmed"}
  /\ status' = [status EXCEPT ![s] = "reverted"]
  /\ thread' = [thread EXCEPT ![ThreadOf(s)].status = "resolved"]
  /\ Resolves(s)
  /\ UNCHANGED <<source, job, people, moves, troubles>>

\* updateSnapshot: the lock, the read, and the change of the copy.
Read(copy, signals, published, route) ==
  /\ plan = NoPlan
  /\ plan' = [thread |-> copy, signal |-> signals, report |-> published, route |-> route]
  /\ UNCHANGED <<source, status, job, thread, inbox, confirming, troubles>>

Standing == [c \in Conflicts |-> status[c]]
Reads(copy, published, route) == Read(copy, Standing, published, route)

\* persistSnapshot: every thread and every signal of a conflict that was read is
\* written.  The confirm route goes on from here.
Persist ==
  /\ plan # NoPlan
  /\ status' = [s \in Signals |->
                  IF s \in Conflicts /\ plan.signal[s] # "none" THEN plan.signal[s]
                  ELSE status[s]]
  /\ thread' = [t \in Threads |->
                  IF plan.thread[t].status = "none" THEN thread[t] ELSE plan.thread[t]]
  /\ report' = plan.report
  /\ confirming' = IF plan.route = NoThread THEN confirming ELSE plan.route
  /\ plan' = NoPlan
  /\ UNCHANGED <<on, risks, retries, job, inbox, moves, troubles>>

\* completeStandInJob; the model says whether to coordinate.
Publish(r) ==
  /\ report[r] = "due" /\ UNCHANGED moves
  /\ \/ Reads(thread, [report EXCEPT ![r] = "published"], NoThread)
     \/ /\ thread[CaseThread].status # "resolved"
        /\ Reads([thread EXCEPT ![CaseThread].status = IF @ = "none" THEN "open" ELSE @],
                 [report EXCEPT ![r] = "published"], NoThread)

\* A thread that is resolved is not the one to use; a second one of the Work State
\* is refused by the unique index, with the whole mutation (failStandInJob).
Refuse(r) ==
  /\ report[r] = "due" /\ plan = NoPlan /\ thread[CaseThread].status = "resolved"
  /\ retries' = [retries EXCEPT ![r] = @ + 1]
  /\ report' = [report EXCEPT ![r] = IF retries'[r] < MaxAttempts THEN @ ELSE "failed"]
  /\ UNCHANGED <<on, risks, status, job, thread, inbox, people, moves, troubles>>

\* proposeCoordinationConclusion, whatever the status.
Propose(t) ==
  /\ thread[t].status # "none" /\ Move
  /\ Reads([thread EXCEPT ![t].status = "needs_confirmation", ![t].concluded = TRUE],
           report, NoThread)

\* Claims of other Work States conflict: the thread and its signal.
OpenConflict(c) ==
  /\ thread[c].status = "none" /\ UNCHANGED moves
  /\ Read([thread EXCEPT ![c] = [status |-> "open", signal |-> c, concluded |-> FALSE]],
          [Standing EXCEPT ![c] = "opened"], report, NoThread)

Unresolved(c) == thread[c].status \in {"open", "needs_confirmation"} /\ UNCHANGED moves

\* reconcileAffectedBoundaryThreads: the claims conflict in another way.
TurnConflict(c) ==
  /\ Unresolved(c)
  /\ Reads([thread EXCEPT ![c].status = "open", ![c].concluded = FALSE], report, NoThread)

\* The claims do not conflict any more: the signal is dismissed, whatever its status.
ClearConflict(c) ==
  /\ Unresolved(c)
  /\ Read([thread EXCEPT ![c].status = "resolved", ![c].concluded = FALSE],
          [Standing EXCEPT ![c] = "dismissed"], report, NoThread)

\* Any other mutation.
Mutate == Move /\ Reads(thread, report, NoThread)

\* The confirm route begins with confirmCoordination.
Confirm(t) ==
  /\ confirming = NoThread /\ thread[t].status = "needs_confirmation"
  /\ Reads([thread EXCEPT ![t].status = "resolved"], report, t) /\ UNCHANGED moves

\* A repeated confirmation changes nothing and is not written.
ConfirmAgain(t) ==
  /\ plan = NoPlan /\ confirming = NoThread
  /\ thread[t].status = "resolved" /\ thread[t].concluded
  /\ Move /\ confirming' = t
  /\ UNCHANGED <<source, status, job, thread, inbox, plan, troubles>>

\* findSignalByCoordinationThread, any one of several; markConfirmed, which throws
\* when it is reverted.
MarkConfirmed(s) ==
  /\ confirming = ThreadOf(s) /\ status[s] \in {"opened", "confirmed", "reverted"}
  /\ confirming' = NoThread
  /\ IF status[s] = "reverted" THEN UNCHANGED <<status, inbox>>
     ELSE /\ status' = [status EXCEPT ![s] = "confirmed"]
          /\ Resolves(s)
  /\ UNCHANGED <<source, job, thread, plan, moves, troubles>>

\* There is no signal, or the server stops before.
EndConfirm ==
  /\ confirming # NoThread /\ confirming' = NoThread
  /\ UNCHANGED <<source, status, job, thread, inbox, plan, moves, troubles>>

-----------------------------------------------------------------------------
Next ==
  \/ ChangePolicy \/ Detect \/ Persist \/ Mutate \/ EndConfirm
  \/ \E k \in Risks : RiskChanges(k)
  \/ \E r \in Reports : Submit(r) \/ Publish(r) \/ Refuse(r)
  \/ \E s \in Detected : Dispatch(s) \/ DispatchFails(s) \/ Open(s) \/ OpenFails(s)
  \/ \E c \in Conflicts : OpenConflict(c) \/ TurnConflict(c) \/ ClearConflict(c)
  \/ \E s \in Signals : Revert(s) \/ MarkConfirmed(s)
  \/ \E t \in Threads : Propose(t) \/ Confirm(t) \/ ConfirmAgain(t)

Spec == Init /\ [][Next]_vars

\* The tasks run again and again, and a mutation ends.
Fairness ==
  /\ WF_vars(Detect) /\ WF_vars(Persist)
  /\ \A s \in Detected : WF_vars(Dispatch(s)) /\ WF_vars(Open(s))

FairSpec == Spec /\ Fairness

-----------------------------------------------------------------------------
Cases == [status : {"none", "open", "needs_confirmation", "resolved"},
          signal : Signals \union {NoSignal}, concluded : BOOLEAN]
States == {"none", "due", "published", "failed"}
Statuses == {"none", "pending", "failed"} \union Handled

\* Every variable keeps its type.
AutomationTypeOK ==
  /\ on \in BOOLEAN /\ risks \in SUBSET Risks
  /\ report \in [Reports -> States] /\ retries \in [Reports -> Nat]
  /\ status \in [Signals -> Statuses]
  /\ row \in [Detected -> {"none", "open", "done"}] /\ tries \in [Detected -> Nat]
  /\ queue \in [Detected -> {"none", "ready", "dead"}] /\ attempt \in [Detected -> Nat]
  /\ thread \in [Threads -> Cases] /\ inbox \in SUBSET Threads
  /\ plan \in {NoPlan} \union
       [thread : [Threads -> Cases], signal : [Conflicts -> Statuses],
        report : [Reports -> States], route : Threads \union {NoThread}]
  /\ confirming \in Threads \union {NoThread}
  /\ moves \in Nat /\ troubles \in Nat

\* A risk's person is asked exactly while its signal is open: not twice, not after
\* it was settled, and not for ever when a retry comes late.
AskedWhileOpen == \A k \in Risks : k \in inbox <=> status[k] = "opened"

\* The write-back of a mutation of the pilot store, which is all that touches a
\* signal of a conflict without looking at its status.
WrittenBack(s) == s \in Conflicts /\ plan # NoPlan /\ plan' = NoPlan

\* What a step that looks at the status of a signal may do to it.
Settled(s) ==
  /\ status[s] = "opened" => status'[s] \in {"opened", "confirmed", "reverted"}
  /\ status[s] = "confirmed" => status'[s] \in {"confirmed", "reverted"}
  /\ status[s] \in {"reverted", "dismissed"} => status'[s] = status[s]

\* What people or the policy settled about a detected signal stays settled through
\* retries, late jobs, dead letters and whatever the pilot store writes back; only a
\* person ends what is open.  A signal of a conflict keeps to it between mutations.
SettledStays == [][\A s \in Signals : WrittenBack(s) \/ Settled(s)]_vars

\* What is there while the policy is on is raised with people or was dismissed by
\* the policy, unless it goes away or the policy is turned off: nothing waits for ever.
EventuallyRaised ==
  \A s \in Detected :
    []<>(on /\ s \in Candidates => status[s] \in Handled \union {"failed"})

\* A reported blocker is published in the end: its thread is used, or made.  The
\* code does not keep it.
BlockersArePublished == \A r \in Reports : report[r] # "failed"

\* The thread of a reverted signal is closed, until something opens it again.  The
\* code does not keep it.
RevertedIsClosed ==
  [][\A t \in Threads : thread[t].status = "resolved" /\ thread'[t].status = "open"
       => \E s \in Signals : ThreadOf(s) = t /\ status'[s] = "opened" /\ status[s] # "opened"]_vars

\* Nobody is asked about what is settled.  The code does not keep it.
NobodyIsAskedInVain ==
  CaseThread \in inbox => \E s \in Reports : status[s] = "opened"

\* A conflict that a person settled is not opened again.  The code does not keep it.
ConflictStaysSettled ==
  [][\A c \in Conflicts : status[c] \in {"confirmed", "reverted"} => status'[c] # "opened"]_vars

\* A signal that is open has an open thread.  The code does not keep it.
OpenedHasOpenThread ==
  \A s \in Signals : status[s] = "opened" =>
    thread[ThreadOf(s)].status # "resolved" \/ confirming = ThreadOf(s)
=============================================================================
