----------------------- MODULE AutomationSignalsProofs -----------------------
(***************************************************************************)
(* Proofs about automation, for any reports, risks, conflicts and bounds:  *)
(* who is asked about a risk, and what stays settled.                      *)
(***************************************************************************)
EXTENDS AutomationSignals, TLAPS

-----------------------------------------------------------------------------
\* The type invariant in parts: what is detected, signals, jobs, threads, people.
SourceT ==
  /\ on \in BOOLEAN /\ risks \in SUBSET Risks
  /\ report \in [Reports -> States] /\ retries \in [Reports -> Nat]
SignalT == status \in [Signals -> Statuses]
RowT == row \in [Detected -> {"none", "open", "done"}] /\ tries \in [Detected -> Nat]
QueueT == queue \in [Detected -> {"none", "ready", "dead"}] /\ attempt \in [Detected -> Nat]
ThreadT == thread \in [Threads -> Cases]
InboxT == inbox \in SUBSET Threads
Plans == [thread : [Threads -> Cases], signal : [Conflicts -> Statuses],
          report : [Reports -> States], route : Threads \union {NoThread}]
PeopleT == plan \in {NoPlan} \union Plans /\ confirming \in Threads \union {NoThread}
BoundT == moves \in Nat /\ troubles \in Nat

Types == SourceT /\ SignalT /\ RowT /\ QueueT /\ ThreadT /\ InboxT /\ PeopleT /\ BoundT

\* The inductive invariant.
IInv == Types /\ AskedWhileOpen

LEMMA TypesAreTheTypes == Types <=> AutomationTypeOK
  BY DEF Types, SourceT, SignalT, RowT, QueueT, ThreadT, InboxT, PeopleT, BoundT, Plans,
         AutomationTypeOK

LEMMA ThreadsOfSignals == \A s \in Signals : ThreadOf(s) \in Threads
  BY DEF Signals, Detected, Threads, ThreadOf

LEMMA DetectedAreSignals == Detected \subseteq Signals
  BY DEF Signals

-----------------------------------------------------------------------------
LEMMA InitInvariant == ASSUME AutomationAssumption, Init PROVE IInv
<1>1. SourceT /\ BoundT BY DEF Init, SourceT, BoundT, States
<1>2. SignalT /\ RowT /\ QueueT BY DEF Init, SignalT, Statuses, RowT, QueueT
<1>3. NoCase \in Cases BY DEF NoCase, Cases
<1>4. ThreadT /\ InboxT BY <1>3 DEF Init, ThreadT, InboxT
<1>5. PeopleT BY DEF Init, PeopleT
<1>6. AskedWhileOpen BY DEF Init, AskedWhileOpen, Signals, Detected
<1> QED BY <1>1, <1>2, <1>4, <1>5, <1>6 DEF IInv, Types

\* Bounds count.
LEMMA MoveIsTyped == ASSUME BoundT, Move PROVE moves' \in Nat
  BY DEF BoundT, Move
LEMMA TroubleIsTyped == ASSUME BoundT, Trouble PROVE troubles' \in Nat
  BY DEF BoundT, Trouble

-----------------------------------------------------------------------------
\* Policy, risks and checkpoints.
LEMMA SourceSteps ==
  ASSUME IInv, ChangePolicy \/ (\E k \in Risks : RiskChanges(k)) \/ (\E r \in Reports : Submit(r))
  PROVE  IInv'
<1>1. SourceT'
  <2>1. CASE ChangePolicy BY <2>1 DEF IInv, Types, SourceT, ChangePolicy
  <2>2. CASE \E k \in Risks : RiskChanges(k) BY <2>2 DEF IInv, Types, SourceT, RiskChanges
  <2>3. CASE \E r \in Reports : Submit(r) BY <2>3 DEF IInv, Types, SourceT, Submit, States
  <2> QED BY <2>1, <2>2, <2>3
<1>2. BoundT'
  BY MoveIsTyped DEF IInv, Types, BoundT, ChangePolicy, RiskChanges, Submit
<1>3. UNCHANGED <<status, job, thread, inbox, people>>
  BY DEF ChangePolicy, RiskChanges, Submit
<1>4. SignalT' /\ RowT' /\ QueueT' /\ ThreadT' /\ InboxT' /\ PeopleT' /\ AskedWhileOpen'
  BY <1>3 DEF IInv, Types, SignalT, Statuses, RowT, QueueT, ThreadT, InboxT, PeopleT, AskedWhileOpen,
              job, people
<1> QED BY <1>1, <1>2, <1>4 DEF IInv, Types

\* What is found gets a pending signal and a row.
LEMMA DetectStep == ASSUME IInv, Detect PROVE IInv'
<1>1. SignalT' BY DEF IInv, Types, SignalT, Statuses, Detect
<1>2. RowT' BY DEF IInv, Types, RowT, Detect
<1>3. SourceT' /\ QueueT' /\ ThreadT' /\ InboxT' /\ PeopleT' /\ BoundT'
  BY DEF IInv, Types, SourceT, QueueT, ThreadT, InboxT, PeopleT, BoundT, Detect, source, people
<1>4. AskedWhileOpen' BY DEF IInv, AskedWhileOpen, Detect, Found, Signals, Detected
<1> QED BY <1>1, <1>2, <1>3, <1>4 DEF IInv, Types

\* An addition to the queue.
LEMMA AddedIsTyped == ASSUME QueueT, NEW s \in Detected, Added(s) PROVE QueueT'
  BY DEF QueueT, Added

\* A dead letter fails no signal that is open, and opens none.
LEMMA MarkFailedKeeps ==
  ASSUME IInv, NEW s \in Detected, MarkFailed(s), UNCHANGED inbox
  PROVE  SignalT' /\ row' \in [Detected -> {"none", "open", "done"}] /\ AskedWhileOpen'
<1>1. row' \in [Detected -> {"none", "open", "done"}] BY DEF IInv, Types, RowT, MarkFailed
<1>2. SignalT' BY DEF IInv, Types, SignalT, Statuses, MarkFailed
<1>3. AskedWhileOpen'
  BY DEF IInv, Types, SignalT, Statuses, AskedWhileOpen, MarkFailed, Handled, Signals, Detected
<1> QED BY <1>1, <1>2, <1>3

\* The dispatcher.
LEMMA DispatchSteps ==
  ASSUME IInv, NEW s \in Detected, Dispatch(s) \/ DispatchFails(s)
  PROVE  IInv'
<1>1. tries' \in [Detected -> Nat] BY DEF IInv, Types, RowT, Dispatch, DispatchFails, Claims
<1>2. QueueT'
  <2>1. CASE Added(s) BY <2>1, AddedIsTyped DEF IInv, Types
  <2>2. CASE UNCHANGED <<queue, attempt>> BY <2>2 DEF IInv, Types, QueueT
  <2> QED BY <2>1, <2>2 DEF Dispatch, DispatchFails
<1>3. UNCHANGED <<source, thread, inbox, people, moves>>
  BY DEF Dispatch, DispatchFails, Claims
<1>4. SourceT' /\ ThreadT' /\ InboxT' /\ PeopleT'
  BY <1>3 DEF IInv, Types, SourceT, ThreadT, InboxT, PeopleT, source, people
<1>5. BoundT'
  BY <1>3, TroubleIsTyped DEF IInv, Types, BoundT, Dispatch, DispatchFails
<1>6. SignalT' /\ row' \in [Detected -> {"none", "open", "done"}] /\ AskedWhileOpen'
  <2>1. CASE MarkFailed(s) BY <1>3, <2>1, MarkFailedKeeps
  <2>2. CASE UNCHANGED <<row, status>>
    BY <1>3, <2>2 DEF IInv, Types, SignalT, Statuses, RowT, AskedWhileOpen
  <2>3. CASE Dispatch(s)
    BY <1>3, <2>3 DEF IInv, Types, SignalT, Statuses, RowT, AskedWhileOpen, Dispatch
  <2> QED BY <2>1, <2>2, <2>3 DEF DispatchFails
<1> QED BY <1>1, <1>2, <1>4, <1>5, <1>6 DEF IInv, Types, RowT

-----------------------------------------------------------------------------
\* The job opens a signal and asks, dismisses it, or leaves what was handled.
LEMMA EffectKeeps ==
  ASSUME AutomationAssumption, IInv, NEW s \in Detected, Effect(s)
  PROVE  SignalT' /\ ThreadT' /\ InboxT' /\ AskedWhileOpen'
<1>1. CASE UNCHANGED <<status, thread, inbox>>
  BY <1>1 DEF IInv, Types, SignalT, Statuses, ThreadT, InboxT, AskedWhileOpen
<1>2. CASE /\ Opens(s) /\ status' = [status EXCEPT ![s] = "dismissed"]
           /\ UNCHANGED <<thread, inbox>>
  BY <1>2 DEF IInv, Types, SignalT, Statuses, ThreadT, InboxT, AskedWhileOpen, Opens, Handled, Signals, Detected
<1>3. CASE /\ Opens(s) /\ status' = [status EXCEPT ![s] = "opened"]
           /\ thread' = [thread EXCEPT ![ThreadOf(s)].status = "open",
                                       ![ThreadOf(s)].signal = s]
           /\ inbox' = inbox \union {ThreadOf(s)}
  <2>1. SignalT' BY <1>3 DEF IInv, Types, SignalT, Statuses, Handled
  <2>0. ThreadOf(s) \in Threads /\ s \in Signals BY ThreadsOfSignals, DetectedAreSignals
  <2>2. InboxT' BY <1>3, <2>0 DEF IInv, Types, InboxT
  <2>3. ThreadT' BY <1>3, <2>0 DEF IInv, Types, ThreadT, Cases
  <2>4. \A k \in Risks : k = ThreadOf(s) <=> k = s
    BY DEF AutomationAssumption, ThreadOf, Signals, Detected
  <2>5. AskedWhileOpen' BY <1>3, <2>4 DEF IInv, Types, SignalT, Statuses, AskedWhileOpen, Signals, Detected
  <2> QED BY <2>1, <2>2, <2>3, <2>5
<1>4. Effect(s) <=>
      \/ ~Opens(s) /\ UNCHANGED <<status, thread, inbox>>
      \/ /\ Opens(s) /\ ~on /\ status' = [status EXCEPT ![s] = "dismissed"]
         /\ UNCHANGED <<thread, inbox>>
      \/ /\ Opens(s) /\ on /\ (s \in Reports => plan = NoPlan)
         /\ status' = [status EXCEPT ![s] = "opened"]
         /\ thread' = [thread EXCEPT ![ThreadOf(s)].status = "open",
                                     ![ThreadOf(s)].signal = s]
         /\ inbox' = inbox \union {ThreadOf(s)}
  BY DEF Effect
<1> QED BY <1>1, <1>2, <1>3, <1>4

\* The runs of the job.
LEMMA OpenSteps ==
  ASSUME AutomationAssumption, IInv, NEW s \in Detected, Open(s) \/ OpenFails(s)
  PROVE  IInv'
<1>1. UNCHANGED <<source, row, tries, people, moves>> BY DEF Open, OpenFails, Runs
<1>2. SourceT' /\ RowT' /\ PeopleT' BY <1>1 DEF IInv, Types, SourceT, RowT, PeopleT, source, people
<1>3. BoundT' BY <1>1, TroubleIsTyped DEF IInv, Types, BoundT, Open, OpenFails, NoTrouble
<1>4. QueueT' BY DEF IInv, Types, QueueT, Open, OpenFails, Runs
<1>5. SignalT' /\ ThreadT' /\ InboxT' /\ AskedWhileOpen'
  <2>1. CASE Effect(s) BY <2>1, EffectKeeps
  <2>2. CASE UNCHANGED <<status, thread, inbox>>
    BY <2>2 DEF IInv, Types, SignalT, Statuses, ThreadT, InboxT, AskedWhileOpen
  <2> QED BY <2>1, <2>2 DEF Open, OpenFails
<1> QED BY <1>2, <1>3, <1>4, <1>5 DEF IInv, Types

-----------------------------------------------------------------------------
\* A signal that is no longer open is no longer in the inbox.
LEMMA ResolvesKeeps ==
  ASSUME IInv, NEW s \in Signals, NEW st \in Handled, st # "opened",
         status' = [status EXCEPT ![s] = st], Resolves(s)
  PROVE  SignalT' /\ InboxT' /\ AskedWhileOpen'
<1>1. SignalT' BY DEF IInv, Types, SignalT, Statuses
<1>2. InboxT' BY DEF IInv, Types, InboxT, Resolves
<1>3. AskedWhileOpen' BY DEF IInv, Types, SignalT, Statuses, AskedWhileOpen, Resolves, Signals, Detected
<1> QED BY <1>1, <1>2, <1>3

LEMMA RevertStep == ASSUME IInv, NEW s \in Signals, Revert(s) PROVE IInv'
<1>1. SignalT' /\ InboxT' /\ AskedWhileOpen'
  <2>1. "reverted" \in Handled BY DEF Handled
  <2> QED BY <2>1, ResolvesKeeps DEF Revert
<1>2. ThreadT' BY ThreadsOfSignals DEF IInv, Types, ThreadT, Cases, Revert
<1>3. SourceT' /\ RowT' /\ QueueT' /\ PeopleT' /\ BoundT'
  BY DEF IInv, Types, SourceT, RowT, QueueT, PeopleT, BoundT, Revert, source, job, people
<1> QED BY <1>1, <1>2, <1>3 DEF IInv, Types

LEMMA ConfirmedStep == ASSUME IInv, NEW s \in Signals, MarkConfirmed(s) PROVE IInv'
<1>1. SignalT' /\ InboxT' /\ AskedWhileOpen'
  <2>1. CASE UNCHANGED <<status, inbox>>
    BY <2>1 DEF IInv, Types, SignalT, Statuses, InboxT, AskedWhileOpen
  <2>2. CASE status' = [status EXCEPT ![s] = "confirmed"] /\ Resolves(s)
    <3>1. "confirmed" \in Handled BY DEF Handled
    <3> QED BY <2>2, <3>1, ResolvesKeeps
  <2> QED BY <2>1, <2>2 DEF MarkConfirmed
<1>2. PeopleT' BY DEF IInv, Types, PeopleT, MarkConfirmed
<1>3. SourceT' /\ RowT' /\ QueueT' /\ ThreadT' /\ BoundT'
  BY DEF IInv, Types, SourceT, RowT, QueueT, ThreadT, BoundT, MarkConfirmed, source, job
<1> QED BY <1>1, <1>2, <1>3 DEF IInv, Types

-----------------------------------------------------------------------------
\* A mutation of the pilot store changes nothing but its copy.
LEMMA ReadKeeps ==
  ASSUME IInv, NEW copy \in [Threads -> Cases], NEW signals \in [Conflicts -> Statuses],
         NEW published \in [Reports -> States], NEW r \in Threads \union {NoThread},
         Read(copy, signals, published, r), moves' \in Nat
  PROVE  IInv'
<1>1. PeopleT'
  <2>1. plan' \in Plans BY DEF Read, Plans
  <2> QED BY <2>1 DEF IInv, Types, PeopleT, Read
<1>2. UNCHANGED <<source, status, job, thread, inbox, troubles>> BY DEF Read
<1>3. SourceT' /\ SignalT' /\ RowT' /\ QueueT'
  BY <1>2 DEF IInv, Types, SourceT, SignalT, RowT, QueueT, source, job
<1>4. ThreadT' /\ InboxT' /\ BoundT' /\ AskedWhileOpen'
  BY <1>2 DEF IInv, Types, ThreadT, InboxT, BoundT, AskedWhileOpen
<1> QED BY <1>1, <1>3, <1>4 DEF IInv, Types

LEMMA StandingIsTyped ==
  ASSUME SignalT, NEW c, NEW st \in Statuses
  PROVE  Standing \in [Conflicts -> Statuses] /\ [Standing EXCEPT ![c] = st] \in [Conflicts -> Statuses]
<1>1. Standing \in [Conflicts -> Statuses] BY DEF SignalT, Standing, Signals
<1> QED BY <1>1

LEMMA ReadsKeeps ==
  ASSUME IInv, NEW copy \in [Threads -> Cases], NEW published \in [Reports -> States],
         NEW r \in Threads \union {NoThread}, Reads(copy, published, r), moves' \in Nat
  PROVE  IInv'
<1>1. Standing \in [Conflicts -> Statuses]
  BY DEF IInv, Types, SignalT, Standing, Signals
<1> QED BY <1>1, ReadKeeps DEF Reads

LEMMA CopyIsTyped ==
  ASSUME ThreadT, NEW t \in Threads, NEW st \in {"none", "open", "needs_confirmation", "resolved"}
  PROVE  /\ [thread EXCEPT ![t].status = st] \in [Threads -> Cases]
         /\ [thread EXCEPT ![t].status = st, ![t].concluded = TRUE] \in [Threads -> Cases]
  BY DEF ThreadT, Cases

LEMMA MutationSteps ==
  ASSUME IInv, NEW t \in Threads, Propose(t) \/ Mutate \/ Confirm(t)
  PROVE  IInv'
<1>1. thread \in [Threads -> Cases] /\ report \in [Reports -> States] /\ moves \in Nat
  BY DEF IInv, Types, ThreadT, SourceT, BoundT
<1>2. CASE Propose(t) BY <1>1, <1>2, CopyIsTyped, MoveIsTyped, ReadsKeeps DEF Propose, IInv, Types
<1>3. CASE Mutate BY <1>1, <1>3, MoveIsTyped, ReadsKeeps DEF Mutate, IInv, Types
<1>4. CASE Confirm(t) BY <1>1, <1>4, CopyIsTyped, ReadsKeeps DEF Confirm, IInv, Types
<1> QED BY <1>2, <1>3, <1>4

\* What becomes of the claims that conflict.
LEMMA ConflictSteps ==
  ASSUME IInv, NEW c \in Conflicts, OpenConflict(c) \/ TurnConflict(c) \/ ClearConflict(c)
  PROVE  IInv'
<1>1. /\ thread \in [Threads -> Cases] /\ report \in [Reports -> States] /\ moves' \in Nat
      /\ c \in Threads /\ c \in Signals
  BY DEF IInv, Types, ThreadT, SourceT, BoundT, Threads, Signals, OpenConflict, TurnConflict,
         ClearConflict, Unresolved
<1>2. /\ [Standing EXCEPT ![c] = "opened"] \in [Conflicts -> Statuses]
      /\ [Standing EXCEPT ![c] = "dismissed"] \in [Conflicts -> Statuses]
  BY StandingIsTyped DEF IInv, Types, Statuses, Handled
<1>3. CASE OpenConflict(c)
  <2>1. [status |-> "open", signal |-> c, concluded |-> FALSE] \in Cases BY <1>1 DEF Cases
  <2>2. [thread EXCEPT ![c] = [status |-> "open", signal |-> c, concluded |-> FALSE]]
          \in [Threads -> Cases]
    BY <1>1, <2>1
  <2> QED BY <1>1, <1>2, <1>3, <2>2, ReadKeeps DEF OpenConflict
<1>4. CASE TurnConflict(c)
  <2>1. [thread EXCEPT ![c].status = "open", ![c].concluded = FALSE] \in [Threads -> Cases]
    BY <1>1 DEF Cases
  <2> QED BY <1>1, <1>4, <2>1, ReadsKeeps DEF TurnConflict
<1>5. CASE ClearConflict(c)
  <2>1. [thread EXCEPT ![c].status = "resolved", ![c].concluded = FALSE] \in [Threads -> Cases]
    BY <1>1 DEF Cases
  <2> QED BY <1>1, <1>2, <1>5, <2>1, ReadKeeps DEF ClearConflict
<1> QED BY <1>3, <1>4, <1>5

LEMMA PublishStep == ASSUME IInv, NEW r \in Reports, Publish(r) PROVE IInv'
<1>1. thread \in [Threads -> Cases] /\ moves' \in Nat /\ ThreadT
  BY DEF IInv, Types, ThreadT, BoundT, Publish
<1>2. [report EXCEPT ![r] = "published"] \in [Reports -> States]
  BY DEF IInv, Types, SourceT, States
<1>3. CaseThread \in Threads BY DEF Threads
<1>4. [thread EXCEPT ![CaseThread].status = IF @ = "none" THEN "open" ELSE @]
        \in [Threads -> Cases]
  <2>1. (IF thread[CaseThread].status = "none" THEN "open" ELSE thread[CaseThread].status)
          \in {"none", "open", "needs_confirmation", "resolved"}
    BY <1>1, <1>3 DEF Cases
  <2> QED BY <1>1, <1>3, <2>1, CopyIsTyped
<1> QED BY <1>1, <1>2, <1>4, ReadsKeeps DEF Publish

\* Writing back leaves every detected signal as it is.
LEMMA PersistKeeps ==
  ASSUME AutomationAssumption, SignalT, Persist, NEW s \in Detected
  PROVE  status'[s] = status[s]
<1>1. s \in Signals /\ s \notin Conflicts
  BY DetectedAreSignals DEF AutomationAssumption, Detected
<1> QED BY <1>1 DEF Persist

LEMMA PersistStep == ASSUME AutomationAssumption, IInv, Persist PROVE IInv'
<1>1. plan \in Plans BY DEF IInv, Types, PeopleT, Persist
<1>2. /\ plan.thread \in [Threads -> Cases] /\ plan.report \in [Reports -> States]
      /\ plan.signal \in [Conflicts -> Statuses]
      /\ plan.route \in Threads \union {NoThread}
  BY <1>1 DEF Plans
<1>3. ThreadT' BY <1>2 DEF IInv, Types, ThreadT, Persist
<1>4. SourceT' BY <1>2 DEF IInv, Types, SourceT, Persist
<1>5. PeopleT' BY <1>2 DEF IInv, Types, PeopleT, Persist
<1>6. RowT' /\ QueueT' /\ InboxT' /\ BoundT'
  BY DEF IInv, Types, RowT, QueueT, InboxT, BoundT, Persist, job
<1>7. SignalT' BY <1>2 DEF IInv, Types, SignalT, Persist
<1>8. \A k \in Risks : status'[k] = status[k] /\ (k \in inbox' <=> k \in inbox)
  BY PersistKeeps DEF IInv, Types, Detected, Persist
<1>9. AskedWhileOpen' BY <1>8 DEF IInv, AskedWhileOpen
<1> QED BY <1>3, <1>4, <1>5, <1>6, <1>7, <1>9 DEF IInv, Types

LEMMA RefuseStep == ASSUME IInv, NEW r \in Reports, Refuse(r) PROVE IInv'
<1>1. SourceT' BY DEF IInv, Types, SourceT, States, Refuse
<1>2. SignalT' /\ RowT' /\ QueueT' /\ ThreadT' /\ InboxT' /\ PeopleT' /\ BoundT' /\ AskedWhileOpen'
  BY DEF IInv, Types, SignalT, Statuses, RowT, QueueT, ThreadT, InboxT, PeopleT, BoundT, AskedWhileOpen,
         Refuse, job, people
<1> QED BY <1>1, <1>2 DEF IInv, Types

\* The confirm route, when nothing is written.
LEMMA RouteSteps ==
  ASSUME IInv, (\E t \in Threads : ConfirmAgain(t)) \/ EndConfirm
  PROVE  IInv'
<1>1. PeopleT' BY DEF IInv, Types, PeopleT, ConfirmAgain, EndConfirm
<1>2. BoundT' BY MoveIsTyped DEF IInv, Types, BoundT, ConfirmAgain, EndConfirm
<1>3. UNCHANGED <<source, status, job, thread, inbox>> BY DEF ConfirmAgain, EndConfirm
<1>4. SourceT' /\ SignalT' /\ RowT' /\ QueueT' /\ ThreadT' /\ InboxT' /\ AskedWhileOpen'
  BY <1>3 DEF IInv, Types, SourceT, SignalT, RowT, QueueT, ThreadT, InboxT, AskedWhileOpen,
              source, job
<1> QED BY <1>1, <1>2, <1>4 DEF IInv, Types

-----------------------------------------------------------------------------
LEMMA StutterStep == ASSUME IInv, UNCHANGED vars PROVE IInv'
  BY DEF IInv, Types, SourceT, SignalT, RowT, QueueT, ThreadT, InboxT, PeopleT, BoundT,
         AskedWhileOpen, vars, source, job, people

LEMMA StepInvariant == ASSUME AutomationAssumption, IInv, [Next]_vars PROVE IInv'
<1>1. CASE ChangePolicy \/ (\E k \in Risks : RiskChanges(k)) \/ (\E r \in Reports : Submit(r))
  BY <1>1, SourceSteps
<1>2. CASE Detect BY <1>2, DetectStep
<1>3. CASE \E s \in Detected : Dispatch(s) \/ DispatchFails(s) BY <1>3, DispatchSteps
<1>4. CASE \E s \in Detected : Open(s) \/ OpenFails(s) BY <1>4, OpenSteps
<1>5. CASE \E s \in Signals : Revert(s) BY <1>5, RevertStep
<1>6. CASE \E s \in Signals : MarkConfirmed(s) BY <1>6, ConfirmedStep
<1>7. CASE \E t \in Threads : Propose(t) \/ Confirm(t) BY <1>7, MutationSteps
<1>8. CASE Mutate
  <2>1. CaseThread \in Threads BY DEF Threads
  <2> QED BY <1>8, <2>1, MutationSteps
<1>9. CASE \E r \in Reports : Publish(r) BY <1>9, PublishStep
<1>10. CASE \E r \in Reports : Refuse(r) BY <1>10, RefuseStep
<1>11. CASE Persist BY <1>11, PersistStep
<1>12. CASE (\E t \in Threads : ConfirmAgain(t)) \/ EndConfirm BY <1>12, RouteSteps
<1>13. CASE UNCHANGED vars BY <1>13, StutterStep
<1>14. CASE \E c \in Conflicts : OpenConflict(c) \/ TurnConflict(c) \/ ClearConflict(c)
  BY <1>14, ConflictSteps
<1> QED
  BY <1>1, <1>2, <1>3, <1>4, <1>5, <1>6, <1>7, <1>8, <1>9, <1>10, <1>11, <1>12, <1>13, <1>14
  DEF Next

-----------------------------------------------------------------------------
LEMMA Invariance == ASSUME AutomationAssumption PROVE Spec => []IInv
<1>1. Init => IInv BY InitInvariant
<1>2. IInv /\ [Next]_vars => IInv' BY StepInvariant
<1> QED BY <1>1, <1>2, PTL DEF Spec

\* Every variable keeps its type, whatever order dispatcher, job, routes and pilot
\* store take.
THEOREM TypeCorrect == ASSUME AutomationAssumption PROVE Spec => []AutomationTypeOK
<1>1. IInv => AutomationTypeOK BY TypesAreTheTypes DEF IInv
<1> QED BY <1>1, Invariance, PTL

\* A person is asked about a risk exactly while its signal is open: openCoordination
\* asks with the same commit, revert and markConfirmed resolve the inbox item with theirs.
THEOREM RisksAreAsked == ASSUME AutomationAssumption PROVE Spec => []AskedWhileOpen
<1>1. IInv => AskedWhileOpen BY DEF IInv
<1> QED BY <1>1, Invariance, PTL

-----------------------------------------------------------------------------
\* The steps that change the status of one signal, and how.
LEMMA OneSettled ==
  ASSUME SignalT, NEW x \in Signals, NEW s \in Signals,
         \/ MarkFailed(x) \/ Effect(x) \/ Revert(x) \/ MarkConfirmed(x)
  PROVE  Settled(s)
<1>1. CASE MarkFailed(x) BY <1>1 DEF SignalT, Statuses, MarkFailed, Handled, Settled
<1>2. CASE Effect(x) BY <1>2 DEF SignalT, Statuses, Effect, Opens, Handled, Settled
<1>3. CASE Revert(x) BY <1>3 DEF SignalT, Statuses, Revert, Settled
<1>4. CASE MarkConfirmed(x) BY <1>4 DEF SignalT, Statuses, MarkConfirmed, Settled
<1> QED BY <1>1, <1>2, <1>3, <1>4

\* Everything else leaves the signals alone.
LEMMA OtherSteps ==
  ASSUME \/ ChangePolicy \/ Mutate \/ EndConfirm \/ UNCHANGED vars
         \/ \E k \in Risks : RiskChanges(k)
         \/ \E r \in Reports : Submit(r) \/ Publish(r) \/ Refuse(r)
         \/ \E c \in Conflicts : OpenConflict(c) \/ TurnConflict(c) \/ ClearConflict(c)
         \/ \E t \in Threads : Propose(t) \/ Confirm(t) \/ ConfirmAgain(t)
  PROVE  UNCHANGED status
<1>1. CASE \E t \in Threads : Propose(t) \/ Confirm(t) \/ ConfirmAgain(t)
  BY <1>1 DEF Propose, Confirm, ConfirmAgain, Reads, Read
<1>2. CASE \E c \in Conflicts : OpenConflict(c) \/ TurnConflict(c) \/ ClearConflict(c)
  BY <1>2 DEF OpenConflict, TurnConflict, ClearConflict, Reads, Read
<1>3. CASE \E r \in Reports : Submit(r) \/ Publish(r) \/ Refuse(r)
  BY <1>3 DEF Submit, Publish, Refuse, Reads, Read
<1>4. CASE ChangePolicy \/ Mutate \/ EndConfirm \/ UNCHANGED vars \/ \E k \in Risks : RiskChanges(k)
  BY <1>4 DEF ChangePolicy, Mutate, EndConfirm, RiskChanges, Reads, Read, vars
<1> QED BY <1>1, <1>2, <1>3, <1>4

LEMMA StepSettles ==
  ASSUME AutomationAssumption, IInv, [Next]_vars, NEW s \in Signals
  PROVE  WrittenBack(s) \/ Settled(s)
<1>1. SignalT BY DEF IInv, Types
<1>2. CASE UNCHANGED status BY <1>2 DEF Settled
<1>3. CASE Detect BY <1>1, <1>3 DEF SignalT, Statuses, Detect, Found, Settled
<1>4. CASE \E x \in Detected : Dispatch(x) \/ DispatchFails(x)
  BY <1>1, <1>2, <1>4, OneSettled, DetectedAreSignals DEF Dispatch, DispatchFails
<1>5. CASE \E x \in Detected : Open(x) \/ OpenFails(x)
  BY <1>1, <1>2, <1>5, OneSettled, DetectedAreSignals DEF Open, OpenFails
<1>6. CASE \E x \in Signals : Revert(x) \/ MarkConfirmed(x) BY <1>1, <1>6, OneSettled
<1>7. CASE Persist
  <2>1. CASE s \in Conflicts BY <1>7, <2>1 DEF Persist, WrittenBack
  <2>2. CASE s \in Detected
    <3>1. status'[s] = status[s] BY <1>1, <1>7, <2>2, PersistKeeps
    <3> QED BY <3>1 DEF Settled
  <2> QED BY <2>1, <2>2 DEF Signals
<1>8. CASE \/ ChangePolicy \/ Mutate \/ EndConfirm \/ UNCHANGED vars
           \/ \E k \in Risks : RiskChanges(k)
           \/ \E r \in Reports : Submit(r) \/ Publish(r) \/ Refuse(r)
           \/ \E c \in Conflicts : OpenConflict(c) \/ TurnConflict(c) \/ ClearConflict(c)
           \/ \E t \in Threads : Propose(t) \/ Confirm(t) \/ ConfirmAgain(t)
  BY <1>2, <1>8, OtherSteps
<1> QED BY <1>3, <1>4, <1>5, <1>6, <1>7, <1>8 DEF Next

\* What people or the policy settled about a detected signal stays settled: no retry of
\* the job, no dead letter of the dispatcher (markOutboxFailed) and no write-back of
\* the pilot store (persistSnapshot) changes it; a signal of a conflict is changed
\* without a look at its status by that write-back only.
THEOREM SettledIsSettled == ASSUME AutomationAssumption PROVE Spec => SettledStays
<1>1. IInv /\ [Next]_vars => [\A s \in Signals : WrittenBack(s) \/ Settled(s)]_vars BY StepSettles
<1> QED BY <1>1, Invariance, PTL DEF SettledStays, Spec
=============================================================================
