-------------------------- MODULE RealtimeOutbox --------------------------
(***************************************************************************)
(* The realtime dispatcher of the worker (apps/server-worker/src/          *)
(* outbox.ts): it claims items for 30 seconds, publishes each to           *)
(* Centrifugo, enqueues one web-push job per message operation, and        *)
(* completes the item in a read-committed transaction of two statements.   *)
(* A dispatcher is one chain of dispatch_outbox jobs; two of them overlap  *)
(* when workers are rolled.                                                *)
(***************************************************************************)
EXTENDS OutboxTables

CONSTANTS
  Dispatchers,
  None,
  Limit,          \* the claim limit
  LoopAttempts,   \* maxAttempts of the dispatch_outbox job
  MaxFaults       \* bound: errors and crashes the environment injects

ASSUME DispatcherAssumption ==
  /\ None \notin Items
  /\ Limit \in Nat \ {0}
  /\ LoopAttempts \in Nat \ {0}
  /\ MaxFaults \in Nat

VARIABLES
  published,  \* items Centrifugo has accepted
  pushJobs,   \* operations with a web-push job enqueued
  pc,         \* where each dispatcher is in dispatch()
  batch,      \* items of its claim not yet finished
  cur,        \* the item at hand
  notified,   \* enqueuedConversationEvents of this dispatch()
  clear,      \* its transaction saw no other incomplete publication
  failed,     \* firstError is set
  strikes,    \* consecutive failures of the dispatch job
  faults,
  shared      \* history: operations two dispatchers held items of at once

dispatcherVars == <<pc, batch, cur, notified, clear, failed, strikes>>
realtimeVars == <<published, pushJobs, dispatcherVars, faults, shared>>
vars == <<tableVars, realtimeVars>>

RealtimeInit ==
  /\ published = {} /\ pushJobs = {} /\ faults = 0 /\ shared = {}
  /\ pc = [d \in Dispatchers |-> "idle"]
  /\ batch = [d \in Dispatchers |-> {}]
  /\ cur = [d \in Dispatchers |-> None]
  /\ notified = [d \in Dispatchers |-> {}]
  /\ clear = [d \in Dispatchers |-> FALSE]
  /\ failed = [d \in Dispatchers |-> FALSE]
  /\ strikes = [d \in Dispatchers |-> 0]

Init == TablesInit /\ RealtimeInit

Fault == faults < MaxFaults /\ faults' = faults + 1

\* Publication rows another dispatcher's open transaction holds.
Locked(d) == {cur[e] : e \in {x \in Dispatchers \ {d} : pc[x] \in {"row", "commit"}}}

-----------------------------------------------------------------------------
\* The legacy query of claim() excludes the topics of four other
\* dispatchers only.
ExcludedFromLegacy(op) == KindOf[op] \in {"message", "metadata", "reservedJob"}

\* Up to n members of S, all of them when there are no more.
TakeUpTo(n, S) ==
  {T \in SUBSET S : Cardinality(T) = IF Cardinality(S) < n THEN Cardinality(S) ELSE n}

Claim(d) ==
  LET publications == {i \in Claimable \ Locked(d) : i[2] # NoChannel}
      rows == {i \in Claimable : i[2] = NoChannel /\ ~ExcludedFromLegacy(i[1])}
  IN  /\ pc[d] = "idle" /\ strikes[d] < LoopAttempts
      /\ \E P \in TakeUpTo(Limit, publications) :
         \E R \in TakeUpTo(Limit - Cardinality(P), rows) :
           /\ P \union R # {}
           /\ batch' = [batch EXCEPT ![d] = P \union R]
           /\ ready' = ready \ (P \union R)
      /\ pc' = [pc EXCEPT ![d] = "publish"]
      /\ UNCHANGED <<committed, pubDone, rowDone, published, pushJobs,
                     cur, notified, clear, failed, strikes, faults>>

PublishOk(d) ==
  /\ pc[d] = "publish"
  /\ \E i \in batch[d] :
       /\ cur' = [cur EXCEPT ![d] = i]
       /\ published' = published \union {i}
       /\ pc' = [pc EXCEPT ![d] =
                   IF IsConversation(i[1]) /\ i[1] \notin notified[d]
                   THEN "push" ELSE "mark"]
  /\ UNCHANGED <<tableVars, pushJobs, batch, notified, clear, failed,
                 strikes, faults>>

\* Fault variant: a publish that fails is taken for one that succeeds.
PublishFailsUnnoticed(d) ==
  /\ pc[d] = "publish" /\ Fault
  /\ \E i \in batch[d] : cur' = [cur EXCEPT ![d] = i]
  /\ pc' = [pc EXCEPT ![d] = "mark"]
  /\ UNCHANGED <<tableVars, published, pushJobs, batch, notified, clear,
                 failed, strikes>>

\* An error response, or a timeout after Centrifugo accepted the event.
PublishFails(d) ==
  /\ pc[d] = "publish" /\ Fault
  /\ \E i \in batch[d] :
       /\ cur' = [cur EXCEPT ![d] = i]
       /\ published' \in {published, published \union {i}}
  /\ pc' = [pc EXCEPT ![d] = "fail"]
  /\ UNCHANGED <<tableVars, pushJobs, batch, notified, clear, failed, strikes>>

\* onConversationChanged: the operation joins notified before the await, and
\* only message operations yield a job.
PushOk(d) ==
  /\ pc[d] = "push"
  /\ notified' = [notified EXCEPT ![d] = @ \union {cur[d][1]}]
  /\ pushJobs' = IF KindOf[cur[d][1]] = "message"
                 THEN pushJobs \union {cur[d][1]} ELSE pushJobs
  /\ pc' = [pc EXCEPT ![d] = "mark"]
  /\ UNCHANGED <<tableVars, published, batch, cur, clear, failed, strikes, faults>>

\* Fault variant: the error of the callback is caught and logged.
PushFailsUnnoticed(d) ==
  /\ pc[d] = "push" /\ KindOf[cur[d][1]] = "message" /\ Fault
  /\ notified' = [notified EXCEPT ![d] = @ \union {cur[d][1]}]
  /\ pc' = [pc EXCEPT ![d] = "mark"]
  /\ UNCHANGED <<tableVars, published, pushJobs, batch, cur, clear, failed,
                 strikes>>

PushFails(d) ==
  /\ pc[d] = "push" /\ KindOf[cur[d][1]] = "message" /\ Fault
  /\ notified' = [notified EXCEPT ![d] = @ \union {cur[d][1]}]
  /\ pushJobs' \in {pushJobs, pushJobs \union {cur[d][1]}}
  /\ pc' = [pc EXCEPT ![d] = "fail"]
  /\ UNCHANGED <<tableVars, published, batch, cur, clear, failed, strikes>>

-----------------------------------------------------------------------------
\* The item at hand is finished, with or without an error; after the last one
\* the dispatch job fails if firstError is set and otherwise schedules the
\* next run with a fresh attempt count.
EndItem(d, error) ==
  LET rest == batch[d] \ {cur[d]}
      anyError == failed[d] \/ error
  IN  /\ batch' = [batch EXCEPT ![d] = rest]
      /\ cur' = [cur EXCEPT ![d] = None]
      /\ clear' = [clear EXCEPT ![d] = FALSE]
      /\ IF rest = {}
         THEN /\ pc' = [pc EXCEPT ![d] = "idle"]
              /\ notified' = [notified EXCEPT ![d] = {}]
              /\ failed' = [failed EXCEPT ![d] = FALSE]
              /\ strikes' = [strikes EXCEPT ![d] = IF anyError THEN @ + 1 ELSE 0]
         ELSE /\ pc' = [pc EXCEPT ![d] = "publish"]
              /\ failed' = [failed EXCEPT ![d] = anyError]
              /\ UNCHANGED <<notified, strikes>>

\* dispatch() rejects in the middle of its batch, or the process is gone: the
\* rest of the batch stays leased and an open transaction rolls back.
Abandon(d, n) ==
  /\ pc' = [pc EXCEPT ![d] = "idle"]
  /\ batch' = [batch EXCEPT ![d] = {}]
  /\ cur' = [cur EXCEPT ![d] = None]
  /\ notified' = [notified EXCEPT ![d] = {}]
  /\ clear' = [clear EXCEPT ![d] = FALSE]
  /\ failed' = [failed EXCEPT ![d] = FALSE]
  /\ strikes' = [strikes EXCEPT ![d] = n]

\* markCompleted of a row without publications is one statement.
MarkRowItem(d) ==
  /\ pc[d] = "mark" /\ cur[d][2] = NoChannel
  /\ rowDone' = rowDone \union {cur[d][1]}
  /\ EndItem(d, FALSE)
  /\ UNCHANGED <<committed, pubDone, ready, published, pushJobs, faults>>

\* First statement for a publication: it locks the row until the commit.
MarkPublication(d) ==
  /\ pc[d] = "mark" /\ cur[d][2] # NoChannel /\ cur[d] \notin Locked(d)
  /\ pc' = [pc EXCEPT ![d] = "row"]
  /\ UNCHANGED <<tableVars, published, pushJobs, batch, cur, notified, clear,
                 failed, strikes, faults>>

\* Fault variants: the row is completed without NOT EXISTS, or with a check
\* made before the first statement.
MarkRowUnchecked(d) ==
  /\ pc[d] = "row"
  /\ clear' = [clear EXCEPT ![d] = TRUE]
  /\ pc' = [pc EXCEPT ![d] = "commit"]
  /\ UNCHANGED <<tableVars, published, pushJobs, batch, cur, notified, failed,
                 strikes, faults>>

MarkRowCheckedEarly(d) ==
  /\ pc[d] = "row"
  /\ clear' = [clear EXCEPT ![d] = PublicationsOf(cur[d][1]) \subseteq pubDone]
  /\ pc' = [pc EXCEPT ![d] = "commit"]
  /\ UNCHANGED <<tableVars, published, pushJobs, batch, cur, notified, failed,
                 strikes, faults>>

\* Second statement: its snapshot holds what is committed by now, and the
\* transaction's own update, but no other open transaction's.
MarkRow(d) ==
  /\ pc[d] = "row"
  /\ clear' = [clear EXCEPT ![d] =
                 PublicationsOf(cur[d][1]) \subseteq pubDone \union {cur[d]}]
  /\ pc' = [pc EXCEPT ![d] = "commit"]
  /\ UNCHANGED <<tableVars, published, pushJobs, batch, cur, notified, failed,
                 strikes, faults>>

CommitWrites(d) ==
  /\ pubDone' = pubDone \union {cur[d]}
  /\ rowDone' = IF clear[d] THEN rowDone \union {cur[d][1]} ELSE rowDone

Commit(d) ==
  /\ pc[d] = "commit"
  /\ CommitWrites(d)
  /\ EndItem(d, FALSE)
  /\ UNCHANGED <<committed, ready, published, pushJobs, faults>>

\* markCompleted throws: before anything is written, or after the commit when
\* its answer is lost.
MarkFails(d) ==
  /\ pc[d] \in {"mark", "row", "commit"} /\ Fault
  /\ \/ UNCHANGED <<pubDone, rowDone>>
     \/ pc[d] = "commit" /\ CommitWrites(d)
  /\ pc' = [pc EXCEPT ![d] = "fail"]
  /\ clear' = [clear EXCEPT ![d] = FALSE]
  /\ UNCHANGED <<committed, ready, published, pushJobs, batch, cur, notified,
                 failed, strikes>>

\* markFailed moves available_at into the future.
Fail(d) ==
  /\ pc[d] = "fail"
  /\ ready' = ready \ {cur[d]}
  /\ EndItem(d, TRUE)
  /\ UNCHANGED <<committed, pubDone, rowDone, published, pushJobs, faults>>

\* markFailed throws as well.
FailThrows(d) ==
  /\ pc[d] = "fail" /\ Fault
  /\ Abandon(d, strikes[d] + 1)
  /\ UNCHANGED <<tableVars, published, pushJobs>>

\* The worker dies, or is rolled, and starts again: start-up puts a fresh
\* dispatch_outbox job in the place of the old one.
Restart(d) ==
  /\ Fault
  /\ Abandon(d, 0)
  /\ UNCHANGED <<tableVars, published, pushJobs>>

-----------------------------------------------------------------------------
\* Operations two dispatchers hold items of at this moment: a lease ended while
\* its dispatcher was still at work, or they claimed a channel each.
Overlapping ==
  {op \in Ops : \E d, e \in Dispatchers :
     d # e /\ \E i \in batch[d], j \in batch[e] : i[1] = op /\ j[1] = op}

\* What a step adds to the history; no guard reads it.
Recorded == shared' = shared \union Overlapping'

Advance(d) ==
  /\ \/ Claim(d) \/ PublishOk(d) \/ PushOk(d) \/ MarkRowItem(d)
     \/ MarkPublication(d) \/ MarkRow(d) \/ Commit(d) \/ Fail(d)
  /\ Recorded

Misfortune(d) ==
  /\ PublishFails(d) \/ PushFails(d) \/ MarkFails(d) \/ FailThrows(d) \/ Restart(d)
  /\ Recorded

TablesStep ==
  /\ (\E op \in Ops : Record(op)) \/ (\E i \in Items : BecomesAvailable(i))
  /\ UNCHANGED realtimeVars

Next == TablesStep \/ \E d \in Dispatchers : Advance(d) \/ Misfortune(d)

Spec == Init /\ [][Next]_vars

\* The dispatch loop runs again every second, and a lease or back-off ends.
Fairness ==
  /\ \A d \in Dispatchers : WF_vars(Advance(d))
  /\ \A i \in Items : WF_vars(BecomesAvailable(i) /\ UNCHANGED realtimeVars)

FairSpec == Spec /\ Fairness

-----------------------------------------------------------------------------
PCs == {"idle", "publish", "push", "mark", "row", "commit", "fail"}

\* Every variable ranges over what the tables and the dispatchers can hold.
TypeOK ==
  /\ TablesTypeOK
  /\ published \subseteq Items
  /\ pushJobs \subseteq Ops
  /\ pc \in [Dispatchers -> PCs]
  /\ batch \in [Dispatchers -> SUBSET Items]
  /\ cur \in [Dispatchers -> Items \union {None}]
  /\ notified \in [Dispatchers -> SUBSET Ops]
  /\ clear \in [Dispatchers -> BOOLEAN]
  /\ failed \in [Dispatchers -> BOOLEAN]
  /\ strikes \in [Dispatchers -> 0 .. LoopAttempts]
  /\ faults \in 0 .. MaxFaults

\* An outbox row of a conversation is completed only when every one of its
\* publications is, and so only when every channel has had the event: no two
\* dispatchers, leases that end early, errors or lost answers make
\* markCompleted count a channel that nobody served.
RowDoneMeansAllServed ==
  \A op \in rowDone : IsConversation(op) =>
     /\ PublicationsOf(op) \subseteq pubDone
     /\ PublicationsOf(op) \subseteq published

\* Once every channel of a new message is completed, its web-push job has been
\* enqueued: the first channel of a dispatch carries the callback for the
\* others, and if it fails that channel itself stays open, for this dispatcher's
\* retry or for another dispatcher that takes it over.  An operation two
\* dispatchers worked on at the same moment is excepted: each may take it for
\* notified after a failure of its own, and complete the channel of the other.
DoneMeansPushEnqueued ==
  \A op \in committed \ shared :
     KindOf[op] = "message" /\ PublicationsOf(op) \subseteq pubDone
        => op \in pushJobs

\* "Successful delivery records completion": a conversation whose channels are all
\* completed has a completed outbox row, also when a restart or an error hands its
\* channels from one dispatcher to another.  An operation two dispatchers worked on
\* at the same moment is excepted: neither transaction sees the other's channel.
AllServedMeansRowDone ==
  \A op \in committed \ shared :
     IsConversation(op) /\ PublicationsOf(op) \subseteq pubDone => op \in rowDone

\* The abstract outbox: an item is acknowledged only after a delivery.
Delivery == INSTANCE AtLeastOnce WITH
  Item <- Items,
  sent <- UNION {ItemsOf(op) : op \in committed},
  delivered <- published,
  acked <- {i \in Items : ItemDone(i)}

\* The dispatcher implements the at-least-once outbox.
ImplementsDelivery == Delivery!Spec
===========================================================================
