# Intero: TLA+ models, checks and proofs

Intero is a workplace for people and coding agents: Threads with live messages,
Stand-ins that answer questions for a person from a Project's recorded work, and
coding agents that report checkpoints of their work. This directory holds TLA+
modules for the parts of the program in which state survives a call and several
actors touch it, the TLC configurations that check them, and proofs that TLAPS
checks. Paths below are relative to the repository.

`PROJECT.json` lists the components, the runs, the mutants (one plausible bug per
property, which the run must find), the source lines each definition stands
for, the findings, the hazards and the theorems.

## 1. Inventory

| Process | What it is | Keeps |
|---|---|---|
| API server (`apps/server-api`) | Fastify routes over stores | nothing that must survive; PostgreSQL does |
| Worker (`apps/server-worker`) | Graphile Worker tasks and the outbox loops; several may run, and do when they are rolled (`docs/OPERATIONS.md:95-98`) | claims and positions of handlers in memory |
| PostgreSQL | domain tables, `outbox`, `outbox_publications`, job tables, Graphile's queue | everything durable |
| Centrifugo | the realtime transport | a short history per channel |
| Web and desktop client (`apps/web`, `apps/desktop`) | React, React Query, one realtime coordinator | a cache that hints keep up to date |
| MCP server and CLI (`apps/mcp-stdio`) | a coding agent's side | one encrypted outbox file |

The parts, their state, operations, neighbours and what is hard about them:

| Part | State | Operations | Interacts with | Hard | Right when |
|---|---|---|---|---|---|
| Outbox tables | row per operation, row per realtime channel of a conversation change; `available_at`, `completed_at` | insert with the domain transaction | every dispatcher | leases end while work goes on | a committed row is served, then completed, never the reverse |
| Realtime dispatcher (`outbox.ts`) | its batch, the operations it has notified, the loop's attempts | claim, publish, web-push callback, complete in two statements, back off | tables, Centrifugo, Graphile | overlapping dispatchers, READ COMMITTED, failures between any two steps | at least once; completion implies delivery and a push job |
| Job dispatchers (`pilot-jobs.ts`, `intero-jobs.ts`, `automation-jobs.ts`, `unfurl-jobs.ts`, `stand-in-questions.ts`) | rows claimed, attempts | claim, `addJob`, complete, back off, dead-letter | tables, Graphile, the realtime dispatcher's query | two dispatchers on one row, terminal failures that reopen rows | no completed row without a job or a dead letter |
| Stand-in questions (`stand-in-questions.ts`) | job row, answer message and its stream state, recorded exchange | claim, stream, model, record, publish, complete, repair, fail | Graphile, model, conversation and pilot stores | eight attempts that stop anywhere | one final answer, equal to the recorded one; nobody waits for ever |
| Stand-in jobs and reconciler (`pilot-jobs.ts`, `pilot-service.ts`) | a job row per checkpoint with its worker, the Work State that shows the newest, the pulse entry, claims | submit, reconcile, dispatch, claim, read, model, claim a boundary, complete, fail, withdraw | outbox, Graphile, model, pilot store | two workers on one job after a lock lapses, checkpoints that end out of order, a reconciler beside a dispatcher | only the last claim publishes; what is final stays; a job is settled in the end |
| Intero requests (`intero-request-service.ts`, `coordination-kernel.ts`) | request status, scope revision and resolution; the Room's entry; cases with their discussions and links | ask for the scope, take, answer, open, discuss, show, link, close, correct, withdraw | pilot and conversation store, outbox, Graphile | people correct the scope while a job of the former one runs; five calls that may each fail | no case of a former scope; an answered request shows its answer, for good |
| Web push jobs (`web-push-jobs.ts`) | queued events, the subscriptions still to send to | enqueue, look up the head, send, expire, retry | realtime dispatcher, push services | the head has moved on; one browser of several fails | every complete message reaches every browser that is there |
| Shared boundaries and coordination (`pilot-store.ts`, `coordination-kernel.ts`, `pilot-routes.ts`) | claims of each Work State, coordination threads with their status and conclusion, decisions | claim, retry, scan, open across Projects, withdraw, age, propose, confirm, decide, record | Stand-in jobs, conversation store | evidence changes under an open case; three calls make one confirmation | an open case is about claims that conflict; only people or the evidence close it |
| Project work (`project-work-store.ts`) | versions of a Spec, confirmations, review requests, policy; Features, Work Items, histories, attention | create, request a review, confirm, revoke, change the policy; create, change, revert, revoke, close a Sprint | inbox | reads that take no lock before writes that do; histories that bring back what was revoked | approved by enough people that may; what is undecided has been asked |
| Automation (`automation-store.ts`, `automation-jobs.ts`) | policy, signals with their status, the threads they opened, inbox items | detect, dispatch, open, revert, confirm, change the policy | Stand-in jobs and coordination threads of the pilot store, outbox, Graphile | retries and dead letters of work that went through; reverts beside mutations that write every thread back | nothing is asked twice or in vain; what people settled stays settled; what is detected is raised in the end |
| Conversation store (`postgres-store.ts`) | Threads, messages, sequences, members, reads | append, edit, delete, stream, react | outbox | sequences and revisions against concurrent writers | sequences dense, hints committed with their change |
| Conversation sync (`realtime/sync.ts`, `realtime/context.tsx`) | React Query cache of the Thread list, repairs in flight | hint, message request, catch-up by sequence, refetch, poll | coordinator, API | every answer may be late or out of order | no committed message stays unrendered |
| Realtime coordinator (`realtime/coordinator.ts`, the hooks that use it) | client, timers, table of subscriptions with consumers, status | start, stop, network change, subscribe, release | Centrifuge SDK, session API, sync | awaits and timers between reads and writes | live means connected and subscribed; stop means silent |
| Agent outbox (`cloud-client.ts`) | the file | enqueue, peek, shift, flush, report, project request | MCP API | awaits between peek and shift, two processes, kills while writing | a queued checkpoint arrives or is counted as a gap |
| Link previews (`unfurl-jobs.ts`, `postgres-store.ts`) | the links of a message, whether they are hidden, the cache of previews | complete, edit, delete, hide; dispatch, read, look up, fetch, attach | conversation store, outbox, Graphile, the Web | the message changes while pages are fetched; hosts that do not answer; a message completed twice | links stay those of the published text, what the sender took back stays so, every link is tried |
| Presence, attachments, public Stand-in runtime | see `PROJECT.json` | | | | |
| Routes, authorization, model gateway, calls, views, contracts, installer, git awareness | I/O, data, or state that belongs to another service | | | | |

The path of a message ties these together: the conversation store appends it and
its outbox row in one transaction; the realtime dispatcher publishes a hint to
each channel and enqueues the web-push job; the coordinator hands the hint to the
sync, which fetches what changed. The path of a question is the same up to the
outbox row, whose dispatcher adds a Graphile job; the handler's stream updates are
message revisions, and so hints again. The path of a checkpoint begins in the agent
outbox, becomes a Stand-in job, and ends as a pulse entry, as claims of shared
boundaries and as the coordination cases that conflicting claims open; one that reports a blocker
becomes a signal of automation too. The path of
a mention of Intero ends in the same cases. A Spec's confirmed version is the source
of the work that people and Agents derive from it.

## 2. Modules

```
AtLeastOnce                  abstract: what an outbox promises
OutboxTables                 the two tables, insertion, time
  RealtimeOutbox             the realtime dispatcher        (EXTENDS OutboxTables)
    MCRealtimeOutbox         instances
  JobOutbox                  the job dispatchers            (EXTENDS OutboxTables)
  OutboxPipeline             both on one table              (EXTENDS both)
    MCOutboxPipeline         instances
    OutboxProofs             theorems of both; refinement of AtLeastOnce
ConversationSync             one Thread's cache against the server's log
RealtimeCoordinator          transport, subscriptions and two views
PreviewPromise               abstract: what link previews promise a sender
LinkPreviews                 the previews of a message; implements PreviewPromise
AgentOutbox                  the file and the calls that use it
  MCAgentOutbox              instances
  MCClients                  the four of them in one run
    ClientsProofs            theorems of the four; steps of PreviewPromise
StandInQuestions             one question over its attempts
StandInJobs                  the publication of a Workstream's checkpoints
  StandInJobsProofs          theorems
InteroRequests               one mention of Intero
  InteroRequestsProofs       theorems
WebPush                      the notifications of a Thread
AutomationSignals            what automation detects, opens and asks
  AutomationSignalsProofs    theorems
  MCWorkerJobs               the five of them in one run
    WorkerJobsProofs         theorems of questions and web push, and of the five
SharedBoundaries             claims, cases, conclusions
  SharedBoundariesProofs     theorems
SpecReview                   the review of a Spec, as concurrent transactions
DerivedWork                  a Feature and a Work Item derived from it
  MCProjectWork              StandInJobs and the three of them in one run
    ProjectWorkProofs        theorems of reviews and derived work, and of the four
```

`MCClients`, `MCWorkerJobs` and `MCProjectWork` put modules that share no state
into one run. A behaviour chooses at its start which of them moves (`part`), and
the others rest as they started: the state space is the sum of theirs, not the
product, and says of each what a run of its own would say. A property of an
instance keeps its name (`CasesAreCurrent == Request!CasesAreCurrent`); where a
property would be false of a module at rest it is stated for the part that moves
(`EventuallyLiveAgain`, `QuestionEventuallyAnswered`, `RequestEventuallyClosed`,
`SignalEventuallyRaised`); one conjunction states the types of all (`ClientsTypeOK`, `WorkerTypeOK`, `ProjectTypeOK`).

Definitions whose comment says *fault variant* are not part of a specification:
each is a mutated form of the definition next to it, and the property it is
paired with in `PROJECT.json` has to notice it.

### OutboxTables, RealtimeOutbox, JobOutbox, OutboxPipeline

`committed`, `rowDone` and `pubDone` are the rows and their `completed_at`.
`available_at` is abstracted to "reached" (`ready`) or not; `BecomesAvailable`
may happen at any moment after a claim or a back-off, which includes a lease of
30 seconds that ends under a dispatcher still at work. An item is a pair of an
operation and a channel, or `NoChannel` for a row without publications.

| Code (`apps/server-worker/src`) | Action |
|---|---|
| `outbox.ts` `claim()`: two queries with `FOR UPDATE SKIP LOCKED`, one limit | `Claim` |
| `dispatch()`: publish; failure before or after Centrifugo accepted | `PublishOk`, `PublishFails` |
| `onConversationChanged` for an operation not yet notified | `PushOk`, `PushFails` |
| `markCompleted`: one statement for a row, two and a commit for a publication | `MarkRowItem`; `MarkPublication`, `MarkRow`, `Commit`; `MarkFails` |
| `markFailed` | `Fail`, `FailThrows` |
| `index.ts` the loop's job: rejected after a batch with an error, re-added otherwise; start-up | `EndItem`, `strikes`, `Restart` |
| the dispatchers' `claim`, `addJob`, `markCompleted`, `markFailed` | `JobClaim`, `EnqueueOk`/`EnqueueFails`, `JobMark`/`JobMarkFails`, `JobFail`, `JobAbandon` |

The second statement of `markCompleted` reads under READ COMMITTED: its snapshot
holds the transaction's own update and what is committed, not the open
transactions of other dispatchers. Hence `MarkRow` decides (`clear`) and `Commit`
writes. A row lock of an open transaction keeps others from the same publication
(`Locked`). `shared` is a history variable: the operations of which two dispatchers
held items at one moment, after a lease that ended early or by a channel each. The job dispatchers are one module with their differences as
parameters: which operations they serve, and whether the topic has a terminal
failure (`DeadLetters`).

### StandInQuestions

One question that the API has stored with its placeholder answer, job row and
outbox row. `pc` is Graphile's view (`queued`, `done`, `dead`) and the handler's
position; every transaction commits, fails, or commits and loses its answer. A
text is the number of the attempt that produced it, which is all that the
properties tell apart. `fresh` says that a claim is younger than 30 seconds;
Graphile's back-off of exp(n) seconds is shorter than that for the first four
attempts only, which `EarlyAttempts` states. `RecordExchange` says that the
question belongs to a Project, so that the exchange is recorded. The older path
that appends an answer to a question without a placeholder is left out.

### ConversationSync

The server is a log (`rev`: sequence to revision) with deletions; a request is
sent, read by the server, and answered, in steps of their own. `HandleHint` starts
`repairConversationChange`; `PointerServed`/`PointerLands` is the request for the
message the hint names, `PointerFails`/`PointerGone` lead into `SequenceRepair` and
its pages, `ListServed`/`ListLands` is a refetch of the whole list, which replaces
the cache. `Poll` is the two-second refetch while the status is not live, `Touch` a
view that invalidates the list, `Drop`, `Recover`, `RecoverWithGap` the connection.
`skipped` is a history variable of the two ways in which the code loses a message: an
answer of the list which the server read before the message, landing when no repair
is left to bring it, and a repair that failed on a page. An answer of the list that has
the message takes it back.

### RealtimeCoordinator

The fields of the coordinator are variables of the same meaning; `state` is what
the Centrifuge SDK does with each client. A view is an effect that subscribes a
Thread (`Watch`), gets its token (`Answer`) and cleans up (`Unwatch`). The chat view
follows the status and releases when it is not live; the typing view does not.
The SDK and React are external, modelled from how the code uses them: the header
of the module says what is assumed. A view watches again only when its former
request has been answered. `missed` is a history variable: the views that found the
Thread subscribed by another's request when theirs was answered, or that joined the
subscription which a view that does not follow the status kept of a former client.

### AgentOutbox

`file` is the decrypted file: the queue and the events its gap markers count. A
save is two steps (`Cut`, `Write`), because `writeFileSync` truncates first. Within
one process file operations are synchronous (`Runs`) and calls overlap at their
awaits; between processes file operations interleave too. Events have one size, so the
byte limit is the event limit. Two history variables record what the code does not
prevent: `stolen`, the checkpoints that a `shift()` took off although another had
been sent, and `raced`, that a process loaded the file while another was saving it.

### StandInJobs

`submitted` is the newest checkpoint of one Workstream; each has a job row
(`status`, `holder` for `worker_id`), an outbox row and at most one Graphile job.
A worker is a process: `at[w]` is its handler's position in
`PilotService.processStandInJob`, which claims the row, reads posture and
participation, calls the model, claims the boundary in a transaction of its own and
completes the job or marks its failure. `Lapse` hands a job whose lock is four
hours old to another worker while the first may still come back; `Reconcile`
reopens the row of a job that is not final and was not updated for a minute;
`unsafe_dedupe` is the condition in `Add`. The pulse entry is reduced to the
output it shows (`of`, `by`, and whether it is the model's words), which is what
tells a stale publication from a current one.

### InteroRequests

A call of the service is a step: it works, fails, or works and reports an error
(`Call`). `rev` is `scopeRevision`, which `updateInteroRequestIfCurrent` compares;
`evidence` is a number, 0 when nothing conflicts, that changes when a claim does.
`cases`, `discussions` and `links` are the kernel's three calls. `foreign` is the
evidence for which another mention, or a checkpoint, opened the case: its discussion
and entry are that one's (`pilot-store.ts:3117-3153`). `DiscussElsewhere` is the
kernel's return when it does not discuss the case here, be it a case of another's or
one for whose first claim no owner is in the Room (`coordination-kernel.ts:190`, `:253`);
the request is closed as answered all the same, and `elsewhere` records it. Each revision has an
outbox row and a Graphile job of its own, and an organization's jobs run one at a
time, so there is one handler.

### WebPush

An event is its head sequence; a message is `pending` or complete. The job looks
up what stands at that sequence when it runs, sends to the subscriptions it found
and starts over when one send fails.

### LinkPreviews, PreviewPromise

| Code (`postgres-store.ts`, then `unfurl-jobs.ts`) | Action |
|---|---|
| `appendMessage`, `updateMessageStream` with `withExtractedPreviewUrls` and `enqueueUnfurl` | `Append`, `Stream` |
| `editThreadMessage`, `deleteThreadMessage`, `hideMessagePreviews` | `Edit`, `Delete`, `Hide` |
| `dispatch` with `addJob`; its failure before or after the job was added | `Dispatch`, `DispatchFails` |
| `handle`: the message, the cache, page after page with its row, the links written back | `Read`, `Look`, `Fetch`, `Attach` |

A text is the set of its links; a page that was answered, refused or blocked leaves a
row of the cache alike, and only a host that does not answer (`unreachable`) throws.
`found` is a history variable. `PreviewPromise` maps the message to its links, whether
it is complete, and what its sender took back; everything else of the job stutters.
Graphile's lock is taken to hold: one handler at a time.

### AutomationSignals

| Code (`apps/server-api/src/automation-store.ts` where nothing else is said) | Action |
|---|---|
| `updatePolicy`; a relation, review or carried item that appears or goes | `ChangePolicy`, `RiskChanges` |
| `ingestCheckpoint` of a blocker; `detectMeaningfulSignals` with the unique fingerprint of `insertSignal` | `Submit`; `Detect` |
| `claimOutbox`, `addJob`, `markOutboxCompleted`, `markOutboxFailed` | `Dispatch`, `DispatchFails` |
| `openCoordination` in Graphile's job | `Open`, `OpenFails` |
| `revert`; the confirm route's `findSignalByCoordinationThread` and `markConfirmed` | `Revert`; `MarkConfirmed`, `EndConfirm` |
| `completeStandInJob`, `failStandInJob`, `proposeCoordinationConclusion`, `confirmCoordination` (`pilot-store.ts`) and any other mutation | `Publish`, `Refuse`, `Propose`, `Confirm`, `ConfirmAgain`, `Mutate` |
| `reconcileSharedBoundaries`, `reconcileAffectedBoundaryThreads`: claims conflict, conflict in another way, conflict no more | `OpenConflict`, `TurnConflict`, `ClearConflict` |
| the end of a mutation: every thread and every signal of a conflict that was read is written (`normalized-postgres-pilot-store.ts:1087-1290`) | `Persist` |

`plan` is the copy of a mutation under way, threads and conflict signals; it is read
in one step, under the lock. Each conflict has one thread and one signal. The advisory lock that serializes
mutations is `plan = NoPlan`, which the opening of a report's coordination takes too
and `revert` and `markConfirmed` do not. All reports are of one Work State and share its thread
(`CaseThread`), a risk has one of its own; their inbox items have keys of two kinds
(`Resolves`). Kinds of signals, participants and texts are data. The portfolio
summaries are left out, and so is `reconcilePending`: it looks for signals without
an outbox row, which nothing deletes. Overlapping dispatchers are the subject of
`JobOutbox`.

### SharedBoundaries

`claims` keeps each Work State's newest claim: its revision, one of three things it
can say of the boundary (`breaks`, `keeps`, `assumes`; the matcher reads these from
the Kind, direction and subject of a claim), and whether it is withdrawn or older
than 24 hours. A case has the claims it is about (`key`), those it was
opened for (`born`, which the unique index sees), its scope, status and
conclusion. `Claim` is `reconcileSharedBoundaries` with everything it reviews and
opens; `Scan` and `OpenScoped` are the kernel's pass over the Team's other Projects,
which reads first and opens after awaits. `Confirm`, `Decide` and `Record` are the
three calls of one route.

### SpecReview, DerivedWork

A method of `project-work-store.ts` is one transaction at READ COMMITTED. One that
locks its row first is one step; `createSpecVersion`, `requestSpecReview` and
`confirmSpec` read before they lock, and are split there (`tx`). In `confirmSpec`,
`Count` is the statement that counts the confirmations committed so far and `Confirm`
the rest up to the commit.

In `DerivedWork` a save of a Feature is two steps and one of a Work Item three: the row
is locked and the Feature it is linked to is read (`assertWorkLinks`), then the
versions of the Spec (`assertConfirmedSpecSource`, or the one for reverts), then it is
written with its history and its question in the inbox, and committed (`SaveFeature`,
`SaveItem`). The reads take no lock, so confirmations, revocations and the Feature's
own transactions commit in between; `overtaken` records that the source was revoked
then. `CloseSprint` stands for `closeSprint` and for `closeProgramIncrement`, whose
statement on the items is the same. The Spec's versions are confirmed and revoked in any
order that `SpecReview` allows: the confirmed one changes back and forth, and a revoked
one may be confirmed by a call in flight. `Patches` change one field at a time.

## 3. Runs

### What holds

| Run | Question | Bounds, and why they are enough |
|---|---|---|
| `realtime_outbox` | Do two overlapping dispatchers complete only what was delivered? Is a message announced and its row completed, unless both had it at hand at once? Do they implement `AtLeastOnce`? | A message with two channels and a row without any, two dispatchers (symmetric), two faults, two attempts of the loop: two channels are needed for a row that waits for another channel, two dispatchers for every race on a lease, two faults to hand an operation from one to the other after its callback failed. 1.0 million states. |
| `outbox_pipeline` | One realtime dispatcher and two job dispatchers on one table: is an outbox row, a job or a dead letter ever missing, and is everything served in the end? | Two channels, one job reference with two attempts, two faults anywhere. What two realtime dispatchers do to each other is the run above. |
| `clients` | Can the status lie or the coordinator wait for nothing; are consumers counted; is a live Thread subscribed? Can the cache show something the server never had; is any message missing but in the two known ways? Does a checkpoint that was answered "queued" vanish but by a stolen shift, and are they delivered in order? | Coordinator: a chat view and a typing view, two times offline, two failures, one subscription error, four clients (each failure makes one). Sync: from the first load on, two messages, and one each of deletions, failing requests, lost connections with or without a gap, and refetches by a view. Edits are left to `clients_live`. Agent: three reports, one of them in a second process, and a project request, a queue of two (so that it overflows), two refused checkpoints, one failure besides, one kill. 3.4 million states. |
| `clients_live` | Does the status return to live? Do hints whose repairs overlap, fail and are reordered lose a message, and is each rendered for good? Is every checkpoint sent, counted or stolen in the end? Do link previews implement `PreviewPromise`? | Coordinator: one view, one time offline, two failures, one subscription error, five clients. Sync: three messages, pages of one (so that a catch-up has several pages), two failing requests; the list is loaded and nothing else refetches it: with a refetch, section 5. Agent: two reports of one process, one of them refused, three failures, one kill. Previews: two links (the code's own limit), any of them dead or cached, two attempts and one trouble. |
| `worker_jobs` | Is the answer people read the recorded one and final, and is a question answered? Is every checkpoint's job settled? Does an Intero request keep to its scope, show what it answered and come to an end? Is every message notified? Does what people settled about a signal stay, and is every signal raised? | Questions: the real eight attempts and four early ones; a model failure, two faults, a kill, a second dispatch, the asker leaving, the question deleted. Jobs: two checkpoints, two workers, two attempts and one trouble (fewer than attempts, as the property says). Requests: three attempts, two scopes, two versions of the evidence, each of which another mention may open first, a source that may vanish, two troubles. Push: two messages, two browsers, two attempts, one failure. Automation: a report, a risk and a conflict, two attempts of the dispatcher and three of the job, two troubles (so that a row is dead-lettered after its job ran), one move by people. |
| `project_work` | Is what a Project shows published by the job's last claim, and current? Are open cases about conflicts that there are, and closed only by people or evidence? Is a Spec approved by enough people that may? Are people asked for what is undecided, and is work derived from versions that were confirmed? | Publication: two checkpoints that both claim a boundary, two workers, one change of posture, one trouble. Boundaries: two Work States in one Project and one in another, three claims, one more event (a conclusion, a retry, an age). Review: two people and an Agent, two policies, two transactions, two versions. Derived work: three calls by people and Agents on two versions, with the Spec moving between any two of their steps. 1.5 million states. |

`project_work` uses the symmetry of workers and of transactions, and
`realtime_outbox` that of dispatchers; neither run has a liveness property.

Every bound only limits what the environment does (faults, kills, edits, times
offline); the code's own limits (`Limit`, `LoopAttempts`, `MaxAttempts`, `MaxEvents`,
`PageLimit`) are small where their size does not matter and real for Stand-in
questions, where `EventuallyAnswered` is about them. Deadlock is not
checked: in each model everything may be done, with nothing left to happen.

Where the code breaks a property in a known way, the module has a history variable
that records exactly that way (`shared`, `missed`, `skipped`, `stolen`, `raced`,
`elsewhere`, `overtaken`; `Misjudged` is a state), and the property says that there is no
other. The bounds do not keep the known way out: the runs go through it, and
section 5 says what it is.

### What does not hold

Each of these runs checks a property that the repository states, and shows how
the code breaks it; `PROJECT.json` has the quotation.

| Run | What happens |
|---|---|
| `job_stolen` | The realtime dispatcher's query excludes three job topics; rows of the others are published and completed by it, and their job is never enqueued. |
| `sync_gap` | A refetch that read the server before a message lands after the message's hint has been merged, and drops it while the status is live. |
| `agent_outbox_concurrent` | Two tool calls of one process flush the same file; one call's `shift()` removes a checkpoint the other has not sent. |
| `stand_in_access` | The asker leaves the Project; every attempt fails before the stream is started, and the answer stays pending for ever. |
| `boundary_cases` | Two consumers of one producer have a case each; one withdraws, and its case turns to the conflict that the other is already about. |
| `blocker_refused` | A Work State's coordination was confirmed or reverted; the next blocker is published with a second thread, which the unique index refuses with the whole publication, at every attempt. |

## 4. Fairness

- `outbox_pipeline`: weak fairness of each dispatcher's successful step and of time
  for each item. The loop's job adds itself again every second
  (`index.ts:471-483`), and a lease or back-off ends. Faults are bounded below
  the loop's attempts; a loop that fails all its attempts waits for a restart, which
  fairness does not promise.
- `clients_live`: hints arrive while connected, requests are answered (or fail, as
  often as the bound allows), the poll timer fires, the transport reconnects; session
  requests end, timers fire, a client that can connect does, an effect whose status
  changed is cleaned up; an agent's calls go on, it keeps calling, and a refused
  event reaches the age limit; the dispatch loop of link previews and its handler go
  on (`index.ts:283-298`). Nothing else has to expire, so the property is not
  met by expiry.
- `worker_jobs`: weak fairness of the handlers' regular steps, of the dispatch loops
  and of the reconciler. Graphile runs a job that is due; a call of a running
  handler returns. The jobs of an organization take turns at one handler, so that
  the start of a request's job is enabled again and again rather than all the time:
  `Start` is strongly fair there (Graphile takes the oldest job that is due). The
  detection and dispatch tasks of automation add themselves again every 15 seconds
  and every second (`index.ts:345-373`), and a mutation of the pilot store ends.

Faults, kills, edits and times offline are never fair.

## 5. Limits of what holds

The passing runs say under which conditions a property holds. Outside them it does
not, and these instances show it; each is small, and found by giving the property
to TLC under `Spec` with the constants named (those not named are 0, `FALSE`, or as
in the passing run).

| Property | Instance | What happens |
|---|---|---|
| `AllServedMeansRowDone` without `shared` | RealtimeOutbox, `Ops = {msg}`, two dispatchers, `Limit = 1` | Both complete the last two channels in overlapping transactions; each sees the other's as open (`outbox.ts:126`), and the row stays open for ever. |
| `DoneMeansPushEnqueued` without `shared` | RealtimeOutbox, `Ops = {msg}`, two dispatchers, `MaxFaults = 2` | Each dispatcher's callback fails on one channel (`outbox.ts:298`) and is not repeated on the other. |
| `NoMessageLost` | ConversationSync, `StartLoaded = FALSE`, one message | The first list request is overtaken by the message and its hint (`sync.ts:52`). |
| `NoMessageLost` | ConversationSync, loaded, one message, `MaxFaults = 2`, `MaxDrops = 1` | The page of a repair fails, and the connection is lost and recovered before the two-second poll has asked for the list (`context.tsx`): nothing asks for the message again. |
| `NoMessageLost` | ConversationSync, loaded, `MaxMessages = 2`, `MaxDeletes = 1` | A message is deleted before its pointer request, the page that is read instead is empty, and the list is fetched again (`sync.ts:119`); that request overtakes the next message's repair. |
| `NoStaleRevision` | ConversationSync, `MaxRevision = 3`, one message | Two message requests answer in the wrong order (`sync.ts:172`). |
| `NoDeletedShown` | ConversationSync, `MaxRevision = 2`, `MaxDeletes = 1` | The message API answers 404 for a deleted message (`postgres-store.ts:2239`), and its sequence needs no catch-up. |
| `StopEndsTransport` | RealtimeCoordinator, `MaxFlaps = 1`, one view | Offline and online while the first session is pending makes two clients (`coordinator.ts:129`); `stop()` ends one. |
| `LiveThreadIsSubscribed` without `missed` | RealtimeCoordinator, views chat and typing | Both wait for a token; the second answer finds the channel subscribed and is not counted (`coordinator.ts:172`); the first release ends it. |
| `HeldIsOfTheClient` | RealtimeCoordinator, views chat and typing, `MaxFailures = 1` | A view that does not follow the status keeps the former client's entry (`coordinator.ts:226`). |
| `EventuallyLive` without `Misjudged` (under `FairSpec`) | RealtimeCoordinator, `MaxErrors = 1` | An error of one subscription degrades the status, and only a new connection restores it (`coordinator.ts:188`). |
| `ReportsAreTrue` without `raced` | AgentOutbox, calls in two processes, `MaxFailures = 2` | A later save overwrites what another process queued (`cloud-client.ts:590`). |
| `RefusedIsDiscarded` | AgentOutbox, `Rejected = {a}`, `MaxFailures = 1` | A refusal is treated as a failed request (`cloud-client.ts:451`). |
| `TerminalIsKept` | AgentOutbox, `Terminal = {a}`, `MaxFailures = 5` | The oldest event goes, whatever it is (`cloud-client.ts:524`). |
| `DeadIsVisible` | StandInQuestions, `MaxAttempts = 3`, `MayDelete`; or `MaxModelFailures = 2`, `MaxKills = 1` | The claim of a deleted question throws (`stand-in-questions.ts:193`); a worker dies in the last attempt (`:530`). |
| `FailedHasNoAnswer` | StandInQuestions, `MaxAttempts = 3`, `MaxModelFailures = 3`, `MaxFaults = 1` | The last attempt publishes and cannot complete its row (`:541`). |

The properties named here are defined in the modules. "Without `shared`" means the
property with that exception taken out; the properties `NoOtherMessageLost`,
`AnsweredIsShown`, `SettledStays` and `SourceIsConfirmed`, which the runs check, are what is
left of `NoMessageLost`, `NoSilentAnswer`, `ConflictStaysSettled` and `SourceIsActive`.
Next, of the newer modules, with `Spec` of the module itself:

| Property | Instance | What happens |
|---|---|---|
| `PulseNeverGoesBack` | StandInJobs, two workers, `Checkpoints = {1, 2}`, `MaxAttempts = 2`, `MaxTurns = 1`, `MaxTroubles = 1` | The job of the older checkpoint ends last and publishes over the newer (`pilot-store.ts:2496`). |
| `ClaimIsOfTheNewest` | the same | The same for the shared boundary claim. |
| `DeadIsSettled` | the same | The last attempt throws before its status is written (`pilot-service.ts:231`); Graphile keeps the dead job, and `unsafe_dedupe` drops every later addition. |
| `PulseIsSafe` | the same | The posture turns between the handler's read and the completion (`pilot-service.ts:155`): the Team reads the model's words, or the other way about. |
| `QuestionIsAsked` | InteroRequests, `MaxAttempts = 3`, `MaxRevision = 2`, `MaxEvidence = 2`, `MayWithdraw`, `MaxTroubles = 2` | The status says `needs_scope`, the entry's write failed, and the retry finds a status it does not handle. `docs/GOLDEN_CASE.md:242` says that the scope is asked for. |
| `NeverAbandoned` | the same | A worker dies, or the catch fails, after the request became `coordinating` (`intero-request-service.ts:285`). |
| `NoSilentAnswer` | the same with `MaxTroubles = 0` | Another mention opened the case first, or no owner of the first claim is in the Room: the kernel returns without discussing the case here (`coordination-kernel.ts:190`), and the request is answered (`intero-request-service.ts:348`) with nothing to show in its Room. |
| `OneCase` | the same | The evidence changes between two attempts, and the retry opens a case of its own. |
| `AnswerIsPushed` | WebPush, as in `worker_jobs` | When the job of the answer's completion runs, the head is another message (`web-push-jobs.ts:100`). |
| `LinksAreOfTheText` | LinkPreviews, as in `clients_live` | An edit changes the text and neither its links nor the queue (`postgres-store.ts:1763`): the previews are those of the old text. |
| `EventuallyFound` (under `FairSpec`) | the same | A lookup or request that fails is neither of the two errors that are caught (`unfurl-jobs.ts:264`): the job dies at the first dead host, and later links are not tried. |
| `NothingRefused` | SharedBoundaries, as in `project_work` (depth 5) | After a withdrawal the next claim has revision 1 again, which the unique index refuses (`pilot-store.ts:2655`); so does a retry after people settled the conflict. |
| `ScopedIsSupported` | the same (depth 6) | The kernel read claims that are superseded or withdrawn when it opens the case (`coordination-kernel.ts:49`). |
| `DecisionIsTheConclusion` | the same with `MaxEvents = 2` (depth 10) | A conversation has one decision record, whatever is concluded later (`postgres-store.ts:2837`). |
| `NobodyIsAskedInVain` | AutomationSignals, as in `blocker_refused` (depth 6) | The inbox item of a report has the Work State's key (`automation-store.ts:1004`), and revert and confirmation resolve the signal's. |
| `RevertedIsClosed` | the same with `Risks = {k1}` (depth 7) | A mutation that read before the revert writes the thread back open (`automation-store.ts:1069` takes no lock). |
| `OpenedHasOpenThread` | the same (depth 9) | The server stops between the confirmation and the signal's (`pilot-routes.ts:1668`). |
| `ConflictStaysSettled` | the same with `Conflicts = {k2}` | A person reverts or confirms the signal of a conflict after a mutation has read it; the mutation writes it back open (`normalized-postgres-pilot-store.ts:1247`). And one that finds the conflict gone dismisses a signal that people had settled (`pilot-store.ts:4014`). |
| `EventuallyRaised` (under `FairSpec`) | the same, `MaxTroubles = 2` | All of Graphile's attempts fail: the signal stays pending, because its outbox row is there. |
| `ConfirmedIsNotRevoked` | SpecReview, `MaxRevisions = 2`, `MaxChanges = 1`, one confirmation is enough and may be the author's | A version is revoked between the reads of its confirmation and the insert (`project-work-store.ts:2010`), and the Spec is approved with it, although `:1785` says that a confirmed version cannot be revoked. |
| `ApprovedIsCurrent` | SpecReview, `MaxRevisions = 2`, `MaxChanges = 1`, three people (depth 6) | A confirmation of the older version arrives after the newer was made current (`project-work-store.ts:2010`). |
| `EnoughIsApproved` | the same (depth 7) | Two confirmations in flight each count without the other's. |
| `ReviewIsOfTheCurrent` | the same (depth 6) | `requestSpecReview` read the current version before it was replaced or revoked (`:1852`). |
| `ConfirmedNeverGoesBack` | the same (depth 9) | The older version is confirmed after the newer. |
| `OneVersionPerKey` | SpecReview, `MaxRevisions = 3` (depth 5) | Two calls look up one key before either is committed (`:1647`). |
| `SourceIsActive` | DerivedWork, `MaxRevisions = 2`, four calls (depth 6) | The version is revoked after the save has checked it (`project-work-store.ts:2580` takes no lock): the work is derived from a revoked version. |
| `LinkIsActive` | the same (depth 6) | The Feature is revoked after the save of an item has checked it (`:2552`). |
| `DoneWasTested`, `DoneIsSigned` | the same (depth 3) | People create work that is done, and nobody is recorded for it. |
| `DoneStaysSigned` | the same (depth 5) | Whoever saves done work next has completed it. |
| `TestedMayBeDone` | the same (depth 8) | The source was superseded, and no save with it is accepted any more (`project-work-store.ts:2580`). ADR 0007:142 says that any participant or Agent may move it to done. |
| `ClosedIsFinished` | the same (depth 6) | Work is added to a closed Sprint. |
| `AttentionIsDue` | the same (depth 8) | A change of revoked work asks again. |

ADR 0007:142-144 speaks of moving tested work to done, with actor and time "always
recorded"; that `DoneWasTested`, `DoneStaysSigned` and `ClosedIsFinished` should hold of
every way to change work is what a reader may expect and no document promises.

`ReportsAreTrue` and `EventuallyAccounted` except a torn file: a process killed
between `Cut` and `Write` (`cloud-client.ts:758`) leaves one that no later call can
read. `EventuallySettled` is stated for fewer troubles than attempts, and up to a
claim that the index refuses; `RequestEventuallyClosed` up to a request that was
abandoned.

## 6. Proofs

TLAPS checks these for every value of the constants that meets the named
assumptions of the modules (`OutboxAssumption`, `DispatcherAssumption`,
`JobAssumption`, `PipelineAssumption`, `CoordinatorAssumption`, `SyncAssumption`,
`PreviewAssumption`, `AgentOutboxAssumption`, `StandInAssumption`, `JobsAssumption`,
`RequestAssumption`, `PushAssumption`, `AutomationAssumption`, `BoundaryAssumption`,
`ReviewAssumption`, `WorkAssumption`: limits and bounds are natural numbers, a null
value is none of the real ones, channels belong to conversations). TLC evaluates each
of them in a run.

Every invariant and every action property of the passing runs is stated by a theorem.
None has a hypothesis besides. Where the code breaks a property in a known way,
the property itself excepts what a history variable records (section 3), and the theorem
says that there is no other way.

Each module proves its theorems along the same lines: the invariant holds initially
(`...Init`), each kind of step preserves it (`...Next`), and it implies the property.
The following says what the invariants say and why the properties need them.

### Server: the outbox

**OutboxProofs**, of the dispatchers: `TypeCorrect`; `RowCompletionIsSafe`
(`RowDoneMeansAllServed`); `Implementation` (every behaviour of the dispatchers is
one of `AtLeastOnce`). Row completion is not inductive: a commit writes what
`MarkRow` decided steps before. The invariant `IInv` carries that through:
`WorkOK` (what a dispatcher holds was committed, and the item at hand is of its
batch), `CurPublished` (past the publish, the item at hand was accepted),
`ClearIsTrue` (a transaction that decided to complete the row sees all other
publications completed, and completion is never undone) and `DoneWasPublished`
(what is completed was published). The refinement then follows step by step:
`Record` is `Send`, a publish is `Deliver`, a commit or a row's completion is
`Ack`, everything else stutters.

Of the composition: `PipelineTypeCorrect` (`PipelineTypeOK`),
`ReservedJobsAreKept` (`ReservedRowDoneMeansEnqueued`), `RowCompletionIsSafeInPipeline`
(`RowDoneMeansAllServed` of the composition). `PipelineInv` joins the dispatcher's
`IInv`, which its own lemma preserves, to `AtHand` (a job dispatcher past `addJob`
holds a row of a job topic, on the queue if it is about to complete it) and
`LeavesReserved` (the realtime dispatcher holds no row of a reserved topic, hence
completes none). That the job dispatchers leave `IInv` alone is `RealtimeRests`: of
the rows they complete or open again, none is a conversation's. A late failure opens
a row that another dispatcher completed and takes its dead letter back in the same
statement, which is why no invariant about single claims is needed.

`MessagesAreAnnounced` (`DoneMeansPushEnqueued`) and `ServedRowsAreCompleted`
(`AllServedMeansRowDone`) are for any number of dispatchers, of the operations that are
not `shared`. `ApartInv` says why: two that hold items of one operation have shared it,
so that of any other a single dispatcher holds items (`OneHolder`). What it holds is not
completed yet, but for an item whose commit answered with an error (`FreshAt`); an
operation whose callback failed keeps a channel open that this batch is not going to
complete (`KeptOpenAt`), although the operation counts as notified for the others
(`ToldAt`); the second statement of the last channel sees that it is the last
(`LastIsSeenAt`); and what is served altogether is announced and completed (`Served`),
whoever served each channel.

### Server: the workers

**WorkerJobsProofs**, of a question: `TypeCorrect`, `AnswerIsRecorded`
(`AnswerIsTheExchange`), `CompletedIsAnswered` (`CompletedHasAnswer`),
`CompleteStays` (`CompleteIsFinal`). `IInv` adds `HandlerOK`: a handler that is
about to write the answer found it incomplete; one that finishes or completes its
row has a complete answer; one that publishes holds the recorded exchange. The
Boolean variables (`Flags`) are proved by themselves.

The others of that module are of `worker_jobs` itself: `CasesOfTheScope`
(`CasesAreCurrent`), `AnswerShows` (`AnsweredIsShown`), `SignalsStaySettled`
(`SettledStays`) and `WorkerIsTyped` (`WorkerTypeOK`). They cite the theorems of the two
modules below by instance, and add what those do not say: the part that rests keeps its
initial state, and `PushInv`, the types of `WebPush`, of which only `Gapless` is not
plain: the sequences of a Thread have no gap, so that the head is one of them and a
job's head a message there is.

**InteroRequestsProofs**: `TypeCorrect`, `CasesAreOfTheScope` (`CasesAreCurrent`),
`AnsweredShows` (`AnsweredIsShown`), `AnsweredStays` (`AnsweredIsFinal`). No
conjunct is inductive alone. `OwnedOK` says that a handler which took the request
still holds it while its revision is current, because corrections are refused
meanwhile; `QueueOK` that a handler's revision is never ahead of the request's, so
that a correction leaves it behind for good; `CasesOK` that a request with a case has
a settled scope, hence never again waits for one; `QuestionOK` and `ShownOK` that
nothing can write the entry once the request is answered, and that a handler which is
about to close it has shown its case, unless the kernel discussed it `elsewhere`.

**AutomationSignalsProofs**: `TypeCorrect`, `RisksAreAsked` (`AskedWhileOpen`),
`SettledIsSettled` (`SettledStays`). `AskedWhileOpen` is inductive with the types: a
step that opens a signal asks in the same commit, one that settles it resolves in the
same commit, and the threads of reports are none of a risk's. `Settled` says what one
step may do to one signal; `OneSettled` splits it by the four kinds of steps that
change a status; the write-back of a mutation is the one step that looks at none, and it
touches the signals of conflicts only.

### Server: what checkpoints and Specs lead to

**StandInJobsProofs**: `FinalStays` (`FinalIsFinal`), `ShownIsTheNewest`
(`ShownIsCurrent`), `PulseIsClaimed` (`PulseIsOfTheLastClaim`) are properties of
`project_work`; `TypeCorrect`, `ClaimIsOne` (`OneClaim`), `ClaimStaysOver`
(`ClaimNeverReturns`) and `WithdrawnIsFinal` (`WithdrawnStays`) are not in a run,
because the proofs say more. The invariant ties the handlers to the rows:
`Handlers` says that a busy worker holds an output of its own, for a checkpoint there
is, and `Holders` that a job somebody claimed has a holder, and that one which failed
for good is held by no handler still under way, so that none of them can publish it.

**SharedBoundariesProofs**: `TypeCorrect`, `OpenCasesStand` (`OpenIsSupported`),
`ConflictsAreCases` (`ConflictHasCase`), `CasesAreSettled`
(`ResolvedByPeopleOrEvidence`), for any number of Work States, claims and cases. That
an open case is about a conflict which stands, and that each conflict has a case, are
two halves of one argument. A new claim turns the unresolved cases that name its
Work State to a conflict there is, or clears them (`Reviewed`), and opens a case for each
conflict that none is about (`Missing`); so what is open afterwards stands by the new
claims (`Supported`), and what conflicts afterwards involves the new claim, or did so
before and keeps its case (`Covered`). `Kept` says what makes this possible: a case names
only claims that were made, so that a claim of the next revision is named by none, and
`OneKey` is the unique index, which decides what an insertion meets. Cases of both
Projects are opened from claims that were read before: nothing says that they are
supported, and section 5 has the instance.

**ProjectWorkProofs**: of reviews `SpecShowsNewest` (`CurrentIsNewest`) and
`EnoughApproved` (`ApprovedByEnough`), for any number of concurrent transactions.
`InFlight` carries a decision from the statement that took it to the commit that
writes it: a transaction works with a version that exists, for its author only if a
policy lets authors confirm, and one that counted enough people is still right when it
commits, whatever others confirmed in between, because confirmations are only ever
added. `Newest` is inductive because `CreateVersion` and `RevokeVersion` set `current`
in the transaction that locks the Spec's row and changes its versions.

Of derived work `WorkIsAsked` (`DecisionIsAsked`), `AgentsLeaveDecisions`
(`AgentsDecideNothing`), `SourcesWereConfirmed` (`SourceIsConfirmed`), `RevokedStays`
(`RevokedForGood`). `DerivedInv` is the types, `DecisionIsAsked` itself, `WorkRows` and
what a transaction carries from its checks to its commit. `WorkRows`: a
row that is not there is the null value, and histories hold only rows that exist, so
that a revert brings back a row and not nothing. `FeatureTxT` and `ItemTxT`: what is about
to be written is a row that exists, an Agent's leaves the decisions of the row as it is
committed now, since the row is locked; and its source, once checked, was confirmed
some time and is revoked only if that came after the check (`Sourced`).

Of `project_work` itself: `OpenStand`, `ConflictsHaveCases`, `CasesSettled` (by instance of
`SharedBoundariesProofs`) and `ProjectIsTyped` (`ProjectTypeOK`).

### Clients

**ClientsProofs**, of the coordinator: `TypeCorrect`, `StatusTells` (`StatusIsTrue`),
`ConsumersAreCounted` (`ConsumersCounted`). `TransportInv` is about clients, timers and
status alone. `TableInv` adds the table to it: until `stop()`, what any view holds is
the entry of the table, and its `consumers` are as many as the views that hold it; a
view that holds nothing counts nowhere. Counting is inductive only with this, since a
release changes the entry it holds and not the one it finds. `LiveThreadSubscribed`
(`LiveThreadIsSubscribed`) is for any views, failures, clients and network changes, of
the views that are not `missed`: `LiveView` says that while the status is
live what such a view waits for or holds is of the connected client, whatever the other
views do, and then the table says that the client has the subscription.

Of link previews: `PreviewsAreTyped` and `PreviewsKeepThePromise`, the safety half of
`ImplementsPromise`: the initial states are those of `PreviewPromise`, and every step is
one of its steps or stutters. `JobIs` is what the mapping needs: a row or job exists only
for a complete message with links, and what a job read long ago is still what the
message has, so that `attachMessagePreviewUrls` adds to the links and never brings old
ones back. The liveness half (`Found` in the end) stays with TLC.

Of the sync: `SyncIsTyped` and `CachesArePast` (`CacheIsPast`). `Pasts` says of
everything the client holds or is being sent (cache, list, hints, each repair's
items) that it is a past of the server's log: each message in it existed at that
revision, and nothing is newer than the log. That is inductive as it stands since the
log only grows, and a merge of two pasts is a past, in whatever order they land.
`NothingElseIsLost` (`NoOtherMessageLost`) is for any start, gaps, deletions and refetches:
however many repairs overlap, and whatever fails, each message that stands is in the cache,
is `skipped`, or is coming. `AllBrought` says how (`Coming`): by the list that is being
fetched, by its hint, or by a repair which is going to bring it (`Brings`), because its page
starts right before the message, or reads on until it. A repair that had read the message
in the cache may end without it, so it is none on the way: that is what `UnderRepair`
looks at when an answer of the list takes the message out of the cache again.

Of the agent's file: `AgentIsTyped` (`AgentTypeOK`), `ReportsAreKept` (`ReportsAreTrue`) and
`FlushesInOrder` (`FlushIsFIFO`), for any interleaving of the calls of any processes, the last
two until processes race (`raced`). `Ledger` says that at most one call is inside a save
(`LoadsAlone`: a call that loads the file finds none, by `Runs` in its own process and by
`~raced` in others); that the file, if it can be read, accounts for every report (`Stored`:
queued, accepted, stolen or counted as a gap, the queue in the order of the calls and
nothing that is past behind it); that what a call is about to save does so as well
(`Saves`); and that everything queued before what a call is sending is past for good, in
the file and in whatever is saved next (`Sends`, `Settled`), although other calls have
shifted and queued while it awaited the answer.

`ClientsAreTyped` (`ClientsTypeOK`) joins the four.

### In no run, and only model-checked

`AgentsDecideNothing`, `RevokedForGood`, `AnsweredIsFinal`, `CompletedHasAnswer`,
`AskedWhileOpen` and `CurrentIsNewest` are in no run, because the proof says more.

Only model-checked: the liveness properties, with the liveness half of
`ImplementsPromise` (fairness and `ENABLED` are beyond the prover); and what the
violation runs show, which is that a property fails. `AnswerIsPushed`, `ReviewIsOfTheCurrent` and
the other properties of section 5 are false in general and are stated by no theorem.
No module uses a `RECURSIVE` operator. Nothing here needs induction over data.

## 7. Not modelled

Wording, layout, validation and authorization decisions are left out everywhere.
Of the modelled parts: other event types of the sync and loss of access to a
Thread; the coordinator's memory of 512 handled events; the agent client's
connection and key storage; the read-only calls; the appended answer of old
questions; the worker's heartbeat, metrics and cron; the choice of an Intero
request's scope and all prose; push preferences and mentions; coordination cases that
have no boundary, relevance and briefs; comments, nominations, relations, code
references, epics and the plans of increments of Project work (closing one carries work over as
closing its Sprints does, and is modelled so). The components with status
`not_modelled` in `PROJECT.json` carry their reason: most are I/O, views, contracts
or state that belongs to another service.

A part of a Project's life that no module has: organizations, teams, invitations and
bindings of the pilot store, Thread membership and read markers, presence, the
portfolio summaries of automation, the runs and leases of the public Stand-in runtime.

## 8. Plan

Done: the outbox and its dispatchers first, since every asynchronous effect of the
server runs through them; then the two ends that render and ask (sync and
coordinator, Stand-in questions), then the agent's file; then what the outbox feeds
(Stand-in jobs, Intero requests, web push, link previews) and what checkpoints and Specs lead to
(boundaries, reviews, derived work); automation; proofs of every invariant and action
property that a passing run checks.

Next, in this order:

1. Thread membership and read markers of the conversation store beside appends and
   the hints that follow; loss of access in `ConversationSync`.
2. The portfolio summaries of automation (`automation-store.ts`); the leases of the public
   Stand-in runtime (`runtime.ts`); invitations and bindings of the pilot store.
3. `WebPush` composed with `RealtimeOutbox`, whose `pushJobs` start it; the claims of
   `StandInJobs` composed with `SharedBoundaries`.
4. Proofs: `AtLeastOnce` as the abstract specification of the agent's outbox up to
   `stolen` and `raced`, of which `ReportsAreKept` and `FlushesInOrder` are the two halves;
   the other conditions of section 5 under which the properties named there hold.
