---------------------------- MODULE OutboxProofs ----------------------------
(***************************************************************************)
(* Proofs about the outbox, for any operations, channels, dispatchers,     *)
(* limits and topics served.                                               *)
(*                                                                         *)
(* First the realtime dispatcher by itself: its types, the safety of row   *)
(* completion, and the implementation of the at-least-once outbox.  Then   *)
(* the worker's dispatchers on one table: the types, that a reserved job   *)
(* row is never completed without its job, and that the job dispatchers do *)
(* not disturb the completion of conversations.  At the end, what holds of *)
(* an operation that no two dispatchers held at the same moment: completed *)
(* channels of a message mean a push job and a completed row.              *)
(***************************************************************************)
EXTENDS OutboxPipeline, TLAPS

-----------------------------------------------------------------------------
\* A dispatcher that is at work still has an attempt left, and the item at
\* hand is one of its batch; a batch holds items of committed operations.
WorkOK ==
  \A d \in Dispatchers :
    /\ pc[d] # "idle" => strikes[d] < LoopAttempts
    /\ \A i \in batch[d] : i[1] \in committed
    /\ pc[d] \in {"push", "mark", "row", "commit", "fail"} => cur[d] \in batch[d]

\* From the publish to the commit, Centrifugo has accepted the item at hand.
CurPublished ==
  \A d \in Dispatchers :
    pc[d] \in {"push", "mark", "row", "commit"} => cur[d] \in published

\* Only publications are completed in two statements, and what the second
\* statement saw is still true when the transaction commits.
ClearIsTrue ==
  \A d \in Dispatchers :
    /\ pc[d] \in {"row", "commit"} => cur[d][2] # NoChannel
    /\ pc[d] = "commit" /\ clear[d] =>
         PublicationsOf(cur[d][1]) \subseteq pubDone \union {cur[d]}

DoneWasPublished ==
  /\ pubDone \subseteq published
  /\ \A op \in rowDone : IsConversation(op) => PublicationsOf(op) \subseteq pubDone

\* The inductive invariant.
IInv == TypeOK /\ WorkOK /\ CurPublished /\ ClearIsTrue /\ DoneWasPublished

-----------------------------------------------------------------------------
\* What an item looks like: its operation, and NoChannel exactly for rows
\* that have no publications.
LEMMA ItemShape ==
  ASSUME NEW i \in Items
  PROVE  /\ i[1] \in Ops
         /\ i = <<i[1], i[2]>>
         /\ i \in ItemsOf(i[1])
         /\ IsConversation(i[1]) => i \in PublicationsOf(i[1])
         /\ i[2] = NoChannel <=> ~IsConversation(i[1])
<1>1. PICK op \in Ops : i \in ItemsOf(op)
  BY DEF Items
<1>2. CASE IsConversation(op)
  <2>1. i \in {op} \X ChannelsOf[op] /\ ChannelsOf[op] \subseteq Channels
    BY <1>1, <1>2, OutboxAssumption DEF ItemsOf, PublicationsOf
  <2>2. i[1] = op /\ i[2] \in Channels /\ i = <<i[1], i[2]>>
    BY <2>1
  <2> QED
    BY <2>2, <1>1, <1>2, OutboxAssumption DEF ItemsOf
<1>3. CASE ~IsConversation(op)
  <2>1. i = <<op, NoChannel>>
    BY <1>1, <1>3 DEF ItemsOf
  <2> QED
    BY <2>1, <1>1, <1>3
<1> QED
  BY <1>2, <1>3

LEMMA ItemsOfAreItems ==
  ASSUME NEW op \in Ops
  PROVE  ItemsOf(op) \subseteq Items
BY DEF Items

LEMMA TakeIsSubset ==
  ASSUME NEW n, NEW S, NEW T \in TakeUpTo(n, S)
  PROVE  T \subseteq S
BY DEF TakeUpTo

-----------------------------------------------------------------------------
\* The variables that EndItem and Abandon assign keep their types, and the
\* facts about a dispatcher at work hold for its next item.
EndedOK(d) ==
  /\ pc' \in [Dispatchers -> PCs]
  /\ batch' \in [Dispatchers -> SUBSET Items]
  /\ cur' \in [Dispatchers -> Items \union {None}]
  /\ notified' \in [Dispatchers -> SUBSET Ops]
  /\ clear' \in [Dispatchers -> BOOLEAN]
  /\ failed' \in [Dispatchers -> BOOLEAN]
  /\ strikes' \in [Dispatchers -> 0 .. LoopAttempts]
  /\ pc'[d] \in {"idle", "publish"}
  /\ pc'[d] # "idle" => strikes'[d] < LoopAttempts
  /\ batch'[d] \subseteq batch[d]
  /\ \A e \in Dispatchers \ {d} :
       /\ pc'[e] = pc[e] /\ batch'[e] = batch[e] /\ cur'[e] = cur[e]
       /\ clear'[e] = clear[e] /\ strikes'[e] = strikes[e]

LEMMA EndItemOK ==
  ASSUME TypeOK, NEW d \in Dispatchers, NEW error \in BOOLEAN,
         strikes[d] < LoopAttempts, EndItem(d, error)
  PROVE  EndedOK(d)
<1>1. /\ batch' = [batch EXCEPT ![d] = batch[d] \ {cur[d]}]
      /\ cur' = [cur EXCEPT ![d] = None]
      /\ clear' = [clear EXCEPT ![d] = FALSE]
  BY DEF EndItem
<1>2. strikes[d] + 1 \in 0 .. LoopAttempts /\ 0 \in 0 .. LoopAttempts
  BY DispatcherAssumption DEF TypeOK
<1>3. CASE batch[d] \ {cur[d]} = {}
  <2>1. /\ pc' = [pc EXCEPT ![d] = "idle"]
        /\ notified' = [notified EXCEPT ![d] = {}]
        /\ failed' = [failed EXCEPT ![d] = FALSE]
        /\ strikes' = [strikes EXCEPT ![d] =
                         IF failed[d] \/ error THEN strikes[d] + 1 ELSE 0]
    BY <1>3 DEF EndItem
  <2> QED
    BY <1>1, <1>2, <2>1 DEF EndedOK, TypeOK, PCs
<1>4. CASE batch[d] \ {cur[d]} # {}
  <2>1. /\ pc' = [pc EXCEPT ![d] = "publish"]
        /\ failed' = [failed EXCEPT ![d] = failed[d] \/ error]
        /\ notified' = notified /\ strikes' = strikes
    BY <1>4 DEF EndItem
  <2> QED
    BY <1>1, <2>1 DEF EndedOK, TypeOK, PCs
<1> QED
  BY <1>3, <1>4

LEMMA AbandonOK ==
  ASSUME TypeOK, NEW d \in Dispatchers, NEW n \in 0 .. LoopAttempts,
         Abandon(d, n)
  PROVE  EndedOK(d)
BY DEF Abandon, EndedOK, TypeOK, PCs

-----------------------------------------------------------------------------
THEOREM InitIInv == Init => IInv
BY OutboxAssumption, DispatcherAssumption
   DEF Init, TablesInit, RealtimeInit, IInv, TypeOK, TablesTypeOK, WorkOK,
       CurPublished, ClearIsTrue, DoneWasPublished, PCs

\* Steps of the tables: a row is inserted, time passes.
LEMMA TablesStepIInv == IInv /\ TablesStep => IInv'
<1> SUFFICES ASSUME IInv, TablesStep PROVE IInv'
  OBVIOUS
<1> USE DEF IInv, TypeOK, TablesTypeOK, WorkOK, CurPublished, ClearIsTrue,
            DoneWasPublished, realtimeVars, dispatcherVars, PublicationsOf
<1>1. CASE \E op \in Ops : Record(op)
  BY <1>1, ItemsOfAreItems DEF TablesStep, Record
<1>2. CASE \E i \in Items : BecomesAvailable(i)
  BY <1>2 DEF TablesStep, BecomesAvailable
<1> QED
  BY <1>1, <1>2 DEF TablesStep

LEMMA ClaimIInv ==
  ASSUME IInv, NEW d \in Dispatchers, Claim(d)
  PROVE  IInv'
<1> USE DEF IInv
<1>1. /\ pc[d] = "idle" /\ strikes[d] < LoopAttempts
      /\ pc' = [pc EXCEPT ![d] = "publish"]
      /\ UNCHANGED <<committed, pubDone, rowDone, published, pushJobs,
                     cur, notified, clear, failed, strikes, faults>>
  BY DEF Claim
<1>2. PICK P \in SUBSET Claimable, R \in SUBSET Claimable :
        /\ batch' = [batch EXCEPT ![d] = P \union R]
        /\ ready' = ready \ (P \union R)
  BY TakeIsSubset DEF Claim
<1>3. P \union R \subseteq Items /\ \A i \in P \union R : i[1] \in committed
  BY <1>2 DEF Claimable, TypeOK, TablesTypeOK
<1>4. TypeOK'
  BY <1>1, <1>2, <1>3 DEF TypeOK, TablesTypeOK, PCs
<1>5. WorkOK'
  BY <1>1, <1>2, <1>3 DEF WorkOK, TypeOK, TablesTypeOK
<1>6. CurPublished' /\ ClearIsTrue' /\ DoneWasPublished'
  BY <1>1 DEF CurPublished, ClearIsTrue, DoneWasPublished, PublicationsOf,
              TypeOK
<1> QED
  BY <1>4, <1>5, <1>6

LEMMA PublishIInv ==
  ASSUME IInv, NEW d \in Dispatchers, PublishOk(d) \/ PublishFails(d)
  PROVE  IInv'
<1> USE DEF IInv
<1>1. PICK i \in batch[d] :
        /\ pc[d] = "publish"
        /\ cur' = [cur EXCEPT ![d] = i]
        /\ published' \in {published, published \union {i}}
        /\ \E p \in {"push", "mark", "fail"} :
             /\ pc' = [pc EXCEPT ![d] = p]
             /\ p # "fail" => published' = published \union {i}
        /\ UNCHANGED <<tableVars, pushJobs, batch, notified, clear, failed,
                       strikes>>
        /\ faults' = faults \/ (faults < MaxFaults /\ faults' = faults + 1)
  BY DEF PublishOk, PublishFails, Fault
<1>2. i \in Items /\ batch[d] \subseteq Items
  BY <1>1 DEF TypeOK
<1>3. TypeOK'
  <2>1. faults' \in 0 .. MaxFaults
    BY <1>1, DispatcherAssumption DEF TypeOK
  <2>2. pc' \in [Dispatchers -> PCs] /\ cur' \in [Dispatchers -> Items \union {None}]
    BY <1>1, <1>2 DEF TypeOK, PCs
  <2> QED
    BY <1>1, <1>2, <2>1, <2>2 DEF TypeOK, TablesTypeOK, tableVars
<1>4. WorkOK'
  BY <1>1, <1>2 DEF WorkOK, TypeOK, tableVars
<1>5. CurPublished'
  BY <1>1, <1>2 DEF CurPublished, TypeOK
<1>6. ClearIsTrue' /\ DoneWasPublished'
  BY <1>1 DEF ClearIsTrue, DoneWasPublished, PublicationsOf, TypeOK, tableVars
<1> QED
  BY <1>3, <1>4, <1>5, <1>6

LEMMA PushIInv ==
  ASSUME IInv, NEW d \in Dispatchers, PushOk(d) \/ PushFails(d)
  PROVE  IInv'
<1> USE DEF IInv
<1>1. /\ pc[d] = "push"
      /\ \E p \in {"mark", "fail"} : pc' = [pc EXCEPT ![d] = p]
      /\ notified' = [notified EXCEPT ![d] = notified[d] \union {cur[d][1]}]
      /\ pushJobs' \in {pushJobs, pushJobs \union {cur[d][1]}}
      /\ UNCHANGED <<tableVars, published, batch, cur, clear, failed, strikes>>
      /\ faults' = faults \/ (faults < MaxFaults /\ faults' = faults + 1)
  BY DEF PushOk, PushFails, Fault
<1>2. cur[d] \in batch[d] /\ cur[d] \in Items /\ cur[d][1] \in Ops
  BY <1>1, ItemShape DEF WorkOK, TypeOK
<1>3. TypeOK'
  <2>1. faults' \in 0 .. MaxFaults
    BY <1>1, DispatcherAssumption DEF TypeOK
  <2>2. pc' \in [Dispatchers -> PCs] /\ notified' \in [Dispatchers -> SUBSET Ops]
    BY <1>1, <1>2 DEF TypeOK, PCs
  <2> QED
    BY <1>1, <1>2, <2>1, <2>2 DEF TypeOK, TablesTypeOK, tableVars
<1>4. WorkOK'
  BY <1>1, <1>2 DEF WorkOK, TypeOK, tableVars
<1>5. CurPublished' /\ ClearIsTrue' /\ DoneWasPublished'
  BY <1>1 DEF CurPublished, ClearIsTrue, DoneWasPublished, PublicationsOf,
              TypeOK, tableVars
<1> QED
  BY <1>3, <1>4, <1>5

-----------------------------------------------------------------------------
\* What the ending of an item or of a whole batch leaves to show: the tables
\* stay well typed, committed does not change, and what is done is published.
LEMMA EndedIInv ==
  ASSUME IInv, NEW d \in Dispatchers, EndedOK(d), TablesTypeOK',
         DoneWasPublished', faults' \in 0 .. MaxFaults,
         UNCHANGED <<committed, published, pushJobs>>, pubDone \subseteq pubDone'
  PROVE  IInv'
<1> USE DEF IInv
<1>1. TypeOK'
  BY DEF TypeOK, EndedOK
<1>2. WorkOK'
  <2> SUFFICES ASSUME NEW e \in Dispatchers
               PROVE  /\ pc'[e] # "idle" => strikes'[e] < LoopAttempts
                      /\ \A i \in batch'[e] : i[1] \in committed'
                      /\ pc'[e] \in {"push", "mark", "row", "commit", "fail"}
                           => cur'[e] \in batch'[e]
    BY DEF WorkOK
  <2>1. CASE e = d
    BY <2>1 DEF WorkOK, EndedOK
  <2>2. CASE e # d
    BY <2>2 DEF WorkOK, EndedOK
  <2> QED
    BY <2>1, <2>2
<1>3. CurPublished'
  BY DEF CurPublished, EndedOK
<1>4. ClearIsTrue'
  BY DEF ClearIsTrue, EndedOK, PublicationsOf
<1> QED
  BY <1>1, <1>2, <1>3, <1>4

LEMMA MarkRowItemIInv ==
  ASSUME IInv, NEW d \in Dispatchers, MarkRowItem(d)
  PROVE  IInv'
<1> USE DEF IInv
<1>1. cur[d] \in Items /\ strikes[d] < LoopAttempts
  BY DEF MarkRowItem, WorkOK, TypeOK
<1>2. cur[d][1] \in Ops /\ ~IsConversation(cur[d][1])
  BY <1>1, ItemShape DEF MarkRowItem
<1>3. EndedOK(d)
  BY <1>1, EndItemOK DEF MarkRowItem
<1>4. TablesTypeOK' /\ DoneWasPublished' /\ faults' \in 0 .. MaxFaults
  BY <1>2 DEF MarkRowItem, TypeOK, TablesTypeOK, DoneWasPublished,
              IsConversation, PublicationsOf
<1> QED
  BY <1>3, <1>4, EndedIInv DEF MarkRowItem

LEMMA MarkPublicationIInv ==
  ASSUME IInv, NEW d \in Dispatchers, MarkPublication(d)
  PROVE  IInv'
<1> USE DEF IInv, MarkPublication
<1>1. TypeOK'
  BY DEF TypeOK, TablesTypeOK, PCs, tableVars
<1>2. WorkOK' /\ CurPublished' /\ DoneWasPublished'
  BY DEF WorkOK, CurPublished, DoneWasPublished, TypeOK, tableVars,
         PublicationsOf
<1>3. ClearIsTrue'
  BY DEF ClearIsTrue, TypeOK, tableVars, PublicationsOf
<1> QED
  BY <1>1, <1>2, <1>3

\* The step that makes clear mean something.
LEMMA MarkRowIInv ==
  ASSUME IInv, NEW d \in Dispatchers, MarkRow(d)
  PROVE  IInv'
<1> USE DEF IInv
<1>1. /\ pc[d] = "row"
      /\ clear' = [clear EXCEPT ![d] =
                     PublicationsOf(cur[d][1]) \subseteq pubDone \union {cur[d]}]
      /\ pc' = [pc EXCEPT ![d] = "commit"]
      /\ UNCHANGED <<tableVars, published, pushJobs, batch, cur, notified,
                     failed, strikes, faults>>
  BY DEF MarkRow
<1>2. TypeOK'
  BY <1>1 DEF TypeOK, TablesTypeOK, PCs, tableVars
<1>3. WorkOK' /\ CurPublished' /\ DoneWasPublished'
  BY <1>1 DEF WorkOK, CurPublished, DoneWasPublished, TypeOK, tableVars,
              PublicationsOf
<1>4. ClearIsTrue'
  <2> SUFFICES ASSUME NEW e \in Dispatchers
               PROVE  (/\ pc[e] \in {"row", "commit"} => cur[e][2] # NoChannel
                       /\ pc[e] = "commit" /\ clear[e] =>
                            PublicationsOf(cur[e][1])
                              \subseteq pubDone \union {cur[e]})'
    BY DEF ClearIsTrue
  <2>1. CASE e = d
    <3>1. clear'[d] = (PublicationsOf(cur[d][1]) \subseteq pubDone \union {cur[d]})
      BY <1>1 DEF TypeOK
    <3>2. cur[d][2] # NoChannel /\ cur' = cur /\ pubDone' = pubDone
      BY <1>1 DEF ClearIsTrue, tableVars
    <3> QED
      BY <2>1, <3>1, <3>2 DEF PublicationsOf
  <2>2. CASE e # d
    <3>1. pc'[e] = pc[e] /\ clear'[e] = clear[e] /\ cur' = cur /\ pubDone' = pubDone
      BY <1>1, <2>2 DEF TypeOK, tableVars
    <3> QED
      BY <3>1 DEF ClearIsTrue, PublicationsOf
  <2> QED
    BY <2>1, <2>2
<1> QED
  BY <1>2, <1>3, <1>4

\* The writes of a transaction that commits keep "done" within "published"
\* and complete a row only when all of its publications are.
LEMMA CommitWritesOK ==
  ASSUME IInv, NEW d \in Dispatchers, pc[d] = "commit", CommitWrites(d),
         UNCHANGED <<committed, published, ready>>
  PROVE  TablesTypeOK' /\ DoneWasPublished' /\ pubDone \subseteq pubDone'
<1> USE DEF IInv
<1>1. cur[d] \in Items /\ cur[d] \in published /\ cur[d][1] \in Ops
  BY ItemShape DEF WorkOK, CurPublished, TypeOK
<1>2. TablesTypeOK' /\ pubDone \subseteq pubDone'
  BY <1>1 DEF CommitWrites, TypeOK, TablesTypeOK
<1>3. clear[d] => PublicationsOf(cur[d][1]) \subseteq pubDone'
  BY DEF CommitWrites, ClearIsTrue
<1>4. rowDone' \subseteq IF clear[d] THEN rowDone \union {cur[d][1]} ELSE rowDone
  BY DEF CommitWrites
<1>5. \A op \in rowDone' : IsConversation(op) => PublicationsOf(op) \subseteq pubDone'
  BY <1>2, <1>3, <1>4 DEF DoneWasPublished
<1>6. pubDone' \subseteq published'
  BY <1>1 DEF CommitWrites, DoneWasPublished
<1> QED
  BY <1>2, <1>5, <1>6 DEF DoneWasPublished, PublicationsOf, IsConversation

LEMMA CommitIInv ==
  ASSUME IInv, NEW d \in Dispatchers, Commit(d)
  PROVE  IInv'
<1> USE DEF IInv
<1>1. EndedOK(d)
  BY EndItemOK DEF Commit, WorkOK
<1>2. TablesTypeOK' /\ DoneWasPublished' /\ pubDone \subseteq pubDone'
  BY CommitWritesOK DEF Commit
<1> QED
  BY <1>1, <1>2, EndedIInv DEF Commit, TypeOK

LEMMA MarkFailsIInv ==
  ASSUME IInv, NEW d \in Dispatchers, MarkFails(d)
  PROVE  IInv'
<1> USE DEF IInv
<1>1. /\ pc[d] \in {"mark", "row", "commit"}
      /\ pc' = [pc EXCEPT ![d] = "fail"]
      /\ clear' = [clear EXCEPT ![d] = FALSE]
      /\ UNCHANGED <<committed, ready, published, pushJobs, batch, cur,
                     notified, failed, strikes>>
      /\ faults' \in 0 .. MaxFaults
  BY DispatcherAssumption DEF MarkFails, Fault, TypeOK
<1>2. TablesTypeOK' /\ DoneWasPublished' /\ pubDone \subseteq pubDone'
  <2>1. CASE UNCHANGED <<pubDone, rowDone>>
    BY <1>1, <2>1 DEF TypeOK, TablesTypeOK, DoneWasPublished, PublicationsOf
  <2>2. CASE pc[d] = "commit" /\ CommitWrites(d)
    BY <1>1, <2>2, CommitWritesOK
  <2> QED
    BY <2>1, <2>2 DEF MarkFails
<1>3. TypeOK'
  BY <1>1, <1>2 DEF TypeOK, PCs
<1>4. WorkOK' /\ CurPublished'
  BY <1>1 DEF WorkOK, CurPublished, TypeOK
<1>5. ClearIsTrue'
  BY <1>1, <1>2 DEF ClearIsTrue, TypeOK, PublicationsOf
<1> QED
  BY <1>2, <1>3, <1>4, <1>5

LEMMA FailIInv ==
  ASSUME IInv, NEW d \in Dispatchers, Fail(d)
  PROVE  IInv'
<1> USE DEF IInv
<1>1. EndedOK(d)
  BY EndItemOK DEF Fail, WorkOK
<1>2. TablesTypeOK' /\ DoneWasPublished' /\ faults' \in 0 .. MaxFaults
  BY DEF Fail, TypeOK, TablesTypeOK, DoneWasPublished, PublicationsOf
<1> QED
  BY <1>1, <1>2, EndedIInv DEF Fail

\* A dispatch that rejects, and a worker that starts again.
LEMMA AbandonIInv ==
  ASSUME IInv, NEW d \in Dispatchers, FailThrows(d) \/ Restart(d)
  PROVE  IInv'
<1> USE DEF IInv
<1>1. \E n \in 0 .. LoopAttempts : Abandon(d, n)
  <2>1. CASE FailThrows(d)
    <3>1. strikes[d] \in 0 .. LoopAttempts /\ strikes[d] < LoopAttempts
      BY <2>1 DEF FailThrows, WorkOK, TypeOK
    <3> QED
      BY <2>1, <3>1, DispatcherAssumption DEF FailThrows
  <2>2. CASE Restart(d)
    BY <2>2, DispatcherAssumption DEF Restart
  <2> QED
    BY <2>1, <2>2
<1>2. EndedOK(d)
  BY <1>1, AbandonOK
<1>3. UNCHANGED <<tableVars, published, pushJobs>> /\ faults' \in 0 .. MaxFaults
  BY DispatcherAssumption DEF FailThrows, Restart, Fault, TypeOK
<1>4. TablesTypeOK' /\ DoneWasPublished'
  BY <1>3 DEF TypeOK, TablesTypeOK, DoneWasPublished, PublicationsOf, tableVars
<1> QED
  BY <1>2, <1>3, <1>4, EndedIInv DEF tableVars

-----------------------------------------------------------------------------
THEOREM NextIInv == IInv /\ [Next]_vars => IInv'
<1> SUFFICES ASSUME IInv, [Next]_vars PROVE IInv'
  OBVIOUS
<1>1. CASE TablesStep
  BY <1>1, TablesStepIInv
<1>2. ASSUME NEW d \in Dispatchers, Advance(d) PROVE IInv'
  BY <1>2, ClaimIInv, PublishIInv, PushIInv, MarkRowItemIInv,
     MarkPublicationIInv, MarkRowIInv, CommitIInv, FailIInv DEF Advance
<1>3. ASSUME NEW d \in Dispatchers, Misfortune(d) PROVE IInv'
  BY <1>3, PublishIInv, PushIInv, MarkFailsIInv, AbandonIInv DEF Misfortune
<1>4. CASE UNCHANGED vars
  BY <1>4 DEF vars, realtimeVars, dispatcherVars, tableVars, IInv, TypeOK,
              TablesTypeOK, WorkOK, CurPublished, ClearIsTrue,
              DoneWasPublished, PublicationsOf
<1> QED
  BY <1>1, <1>2, <1>3, <1>4 DEF Next

THEOREM InductiveInvariant == Spec => []IInv
BY InitIInv, NextIInv, PTL DEF Spec

\* Every variable of the dispatcher stays within its type.
THEOREM TypeCorrect == Spec => []TypeOK
<1>1. IInv => TypeOK
  BY DEF IInv
<1> QED
  BY <1>1, InductiveInvariant, PTL

\* A conversation's outbox row is completed only when every channel has had
\* the event, whatever the dispatchers' transactions interleave with and
\* however often leases end early, errors occur or workers restart.
THEOREM RowCompletionIsSafe == Spec => []RowDoneMeansAllServed
<1>1. IInv => RowDoneMeansAllServed
  BY DEF IInv, DoneWasPublished, RowDoneMeansAllServed
<1> QED
  BY <1>1, InductiveInvariant, PTL

-----------------------------------------------------------------------------
\* The refinement mapping of Delivery, named: what has been sent and what has
\* been acknowledged.
Sent == UNION {ItemsOf(op) : op \in committed}
Acked == {i \in Items : ItemDone(i)}

LEMMA SentItems ==
  ASSUME TypeOK, NEW i \in Items
  PROVE  i \in Sent <=> i[1] \in committed
<1>1. i[1] \in Ops /\ i \in ItemsOf(i[1])
  BY ItemShape
<1>2. ASSUME NEW op \in committed, i \in ItemsOf(op) PROVE op = i[1]
  BY <1>2 DEF ItemsOf, PublicationsOf
<1> QED
  BY <1>1, <1>2 DEF Sent

LEMMA InitDelivery == Init => Delivery!Init
<1> SUFFICES ASSUME Init PROVE Delivery!Init
  OBVIOUS
<1>1. Sent = {} /\ published = {}
  BY DEF Init, TablesInit, RealtimeInit, Sent
<1>2. Acked = {}
  BY DEF Init, TablesInit, Acked, ItemDone
<1> QED
  BY <1>1, <1>2 DEF Delivery!Init, Sent, Acked

\* A step that completes nothing but the item at hand, which Centrifugo has
\* accepted, acknowledges that item.
LEMMA MarkDelivery ==
  ASSUME IInv, NEW d \in Dispatchers, cur[d] \in batch[d], cur[d] \in published,
         UNCHANGED <<committed, published>>,
         \/ UNCHANGED <<pubDone, rowDone>>
         \/ cur[d][2] = NoChannel /\ pubDone' = pubDone
              /\ rowDone' = rowDone \union {cur[d][1]}
         \/ cur[d][2] # NoChannel /\ CommitWrites(d)
  PROVE  Delivery!Next \/ UNCHANGED Delivery!vars
<1>1. cur[d] \in Items /\ Sent' = Sent
  BY DEF IInv, TypeOK, Sent, ItemsOf, PublicationsOf, IsConversation
<1>2. CASE UNCHANGED <<pubDone, rowDone>>
  <2>1. Acked' = Acked
    BY <1>2 DEF Acked, ItemDone
  <2> QED
    BY <1>1, <2>1 DEF Delivery!vars, Sent, Acked
<1>3. ASSUME \A i \in Items : ItemDone(i)' <=> ItemDone(i) \/ i = cur[d]
      PROVE  Delivery!Next
  <2>1. Acked' = Acked \union {cur[d]}
    BY <1>1, <1>3 DEF Acked
  <2>2. Delivery!Ack(cur[d])
    BY <1>1, <2>1 DEF Delivery!Ack, Sent, Acked
  <2> QED
    BY <1>1, <2>2 DEF Delivery!Next
<1>4. CASE cur[d][2] = NoChannel /\ pubDone' = pubDone
             /\ rowDone' = rowDone \union {cur[d][1]}
  <2>1. ASSUME NEW i \in Items PROVE ItemDone(i)' <=> ItemDone(i) \/ i = cur[d]
    <3>1. i = <<i[1], i[2]>> /\ cur[d] = <<cur[d][1], cur[d][2]>>
      BY <1>1, ItemShape
    <3>2. i[2] = NoChannel => (i = cur[d] <=> i[1] = cur[d][1])
      BY <1>4, <3>1
    <3> QED
      BY <1>4, <3>2 DEF ItemDone
  <2> QED
    BY <1>3, <2>1
<1>5. CASE cur[d][2] # NoChannel /\ CommitWrites(d)
  <2>1. ASSUME NEW i \in Items PROVE ItemDone(i)' <=> ItemDone(i) \/ i = cur[d]
    <3>1. CASE i[2] = NoChannel
      <4>1. ~IsConversation(i[1]) /\ IsConversation(cur[d][1])
        BY <1>1, <1>5, <3>1, ItemShape
      <4>2. i[1] # cur[d][1] /\ i # cur[d]
        BY <4>1
      <4> QED
        BY <1>5, <3>1, <4>2 DEF ItemDone, CommitWrites
    <3>2. CASE i[2] # NoChannel
      BY <1>5, <3>2 DEF ItemDone, CommitWrites
    <3> QED
      BY <3>1, <3>2
  <2> QED
    BY <1>3, <2>1
<1> QED
  BY <1>2, <1>4, <1>5

\* Steps that leave the mapping alone.
LEMMA SilentDelivery ==
  UNCHANGED <<committed, published, pubDone, rowDone>> => UNCHANGED Delivery!vars
BY DEF Delivery!vars, ItemDone, ItemsOf, PublicationsOf, IsConversation

LEMMA NextDelivery ==
  IInv /\ [Next]_vars => Delivery!Next \/ UNCHANGED Delivery!vars
<1> SUFFICES ASSUME IInv, [Next]_vars
             PROVE  Delivery!Next \/ UNCHANGED Delivery!vars
  OBVIOUS
<1>1. CASE TablesStep
  <2>1. CASE \E op \in Ops : Record(op)
    <3>1. PICK op \in Ops : Record(op)
      BY <2>1
    <3>2. Sent \subseteq Sent' /\ Sent' \in SUBSET Items
      BY <3>1, ItemsOfAreItems DEF Sent, Record, IInv, TypeOK, TablesTypeOK,
                                   ItemsOf, PublicationsOf, IsConversation
    <3>3. Acked' = Acked /\ published' = published
      BY <1>1, <3>1 DEF Acked, ItemDone, Record, TablesStep, realtimeVars
    <3>4. Delivery!Send
      BY <3>2, <3>3 DEF Delivery!Send, Sent, Acked
    <3> QED
      BY <3>4 DEF Delivery!Next
  <2>2. CASE \E i \in Items : BecomesAvailable(i)
    BY <1>1, <2>2, SilentDelivery DEF TablesStep, BecomesAvailable, realtimeVars
  <2> QED
    BY <1>1, <2>1, <2>2 DEF TablesStep
<1>2. ASSUME NEW d \in Dispatchers, PublishOk(d) \/ PublishFails(d)
      PROVE  Delivery!Next \/ UNCHANGED Delivery!vars
  <2>1. PICK i \in batch[d] : published' \in {published, published \union {i}}
    BY <1>2 DEF PublishOk, PublishFails
  <2>2. UNCHANGED <<committed, pubDone, rowDone>>
    BY <1>2 DEF PublishOk, PublishFails, tableVars
  <2>3. i \in Items /\ i \in Sent
    BY SentItems DEF IInv, TypeOK, WorkOK
  <2>4. Sent' = Sent /\ Acked' = Acked
    BY <2>2 DEF Sent, Acked, ItemDone, ItemsOf, PublicationsOf, IsConversation
  <2>5. CASE published' = published \union {i}
    <3>1. Delivery!Deliver(i)
      BY <2>3, <2>4, <2>5 DEF Delivery!Deliver, Sent, Acked
    <3> QED
      BY <2>3, <3>1 DEF Delivery!Next
  <2> QED
    BY <2>1, <2>2, <2>5, SilentDelivery
<1>3. ASSUME NEW d \in Dispatchers,
             Claim(d) \/ PushOk(d) \/ PushFails(d) \/ MarkPublication(d)
               \/ MarkRow(d) \/ Fail(d) \/ FailThrows(d) \/ Restart(d)
      PROVE  UNCHANGED Delivery!vars
  BY <1>3, SilentDelivery DEF Claim, PushOk, PushFails, MarkPublication,
     MarkRow, Fail, FailThrows, Restart, tableVars
<1>4. ASSUME NEW d \in Dispatchers, MarkRowItem(d) \/ Commit(d) \/ MarkFails(d)
      PROVE  Delivery!Next \/ UNCHANGED Delivery!vars
  <2>1. pc[d] \in {"mark", "row", "commit"} /\ UNCHANGED <<committed, published>>
    BY <1>4 DEF MarkRowItem, Commit, MarkFails
  <2>2. cur[d] \in batch[d] /\ cur[d] \in published
    BY <2>1 DEF IInv, WorkOK, CurPublished
  <2>3. \/ UNCHANGED <<pubDone, rowDone>>
        \/ cur[d][2] = NoChannel /\ pubDone' = pubDone
             /\ rowDone' = rowDone \union {cur[d][1]}
        \/ cur[d][2] # NoChannel /\ CommitWrites(d)
    BY <1>4 DEF MarkRowItem, Commit, MarkFails, IInv, ClearIsTrue
  <2> QED
    BY <2>1, <2>2, <2>3, MarkDelivery
<1>5. CASE UNCHANGED vars
  BY <1>5, SilentDelivery DEF vars, tableVars, realtimeVars
<1> QED
  BY <1>1, <1>2, <1>3, <1>4, <1>5 DEF Next, Advance, Misfortune

\* The dispatcher implements the at-least-once outbox: nothing is completed
\* that the receiver has not accepted.
THEOREM Implementation == Spec => ImplementsDelivery
<1>1. Init => Delivery!Init
  BY InitDelivery
<1>2. IInv /\ [Next]_vars => [Delivery!Next]_(Delivery!vars)
  BY NextDelivery
<1> QED
  BY <1>1, <1>2, InductiveInvariant, PTL DEF Spec, ImplementsDelivery, Delivery!Spec

-----------------------------------------------------------------------------
(* The pipeline.                                                           *)

\* The types of the job dispatchers in parts.  JobTypeOK says nothing of claims
\* beyond its values.
AttemptsT == attempts \in [Ops -> 0 .. MaxAttempts]
QueueT == enqueued \subseteq Ops /\ buried \subseteq Ops
PlacesT ==
  /\ jpc \in [JobDispatchers -> {"idle", "enqueue", "mark", "fail"}]
  /\ job \in [JobDispatchers -> Ops \union {NoJob}]
ClaimsT ==
  /\ claims = [d \in JobDispatchers |-> claims[d]]
  /\ \A d \in JobDispatchers : \A op \in DOMAIN claims[d] :
       op \in Ops /\ IsJob(op) /\ claims[d][op] \in 1 .. MaxAttempts

\* A job dispatcher past addJob has a job row at hand, on the queue if it is about
\* to complete it.
AtHand ==
  \A d \in JobDispatchers :
    /\ jpc[d] \in {"mark", "fail"} => job[d] \in DOMAIN claims[d]
    /\ jpc[d] = "mark" => job[d] \in enqueued

\* The realtime dispatcher holds no row of a reserved topic.
LeavesReserved ==
  \A d \in Dispatchers : \A i \in batch[d] : KindOf[i[1]] # "reservedJob"

JobInv == AttemptsT /\ QueueT /\ PlacesT /\ ClaimsT /\ AtHand

\* The inductive invariant.
PipelineInv == IInv /\ JobInv /\ LeavesReserved /\ ReservedRowDoneMeansEnqueued

LEMMA InitPipeline == PipelineInit => PipelineInv
<1> SUFFICES ASSUME PipelineInit PROVE PipelineInv
  OBVIOUS
<1>1. IInv BY InitIInv DEF PipelineInit
<1>2. AttemptsT /\ QueueT /\ PlacesT
  BY JobAssumption DEF PipelineInit, JobInit, AttemptsT, QueueT, PlacesT
<1>3. DOMAIN <<>> = {} OBVIOUS
<1>4. ClaimsT BY <1>3 DEF PipelineInit, JobInit, ClaimsT
<1>5. AtHand BY DEF PipelineInit, JobInit, AtHand
<1>6. LeavesReserved /\ ReservedRowDoneMeansEnqueued
  BY DEF PipelineInit, Init, RealtimeInit, TablesInit, LeavesReserved,
         ReservedRowDoneMeansEnqueued
<1> QED BY <1>1, <1>2, <1>4, <1>5, <1>6 DEF PipelineInv, JobInv

-----------------------------------------------------------------------------
\* Counting attempts keeps them within their bound.
LEMMA AttemptedIsTyped == ASSUME AttemptsT, NEW S, Attempted(S) PROVE AttemptsT'
  BY JobAssumption DEF AttemptsT, Attempted

\* Steps that leave the job dispatchers alone.
LEMMA JobsRest ==
  ASSUME JobInv, UNCHANGED <<enqueued, buried, jpc, claims, job>>, AttemptsT'
  PROVE  JobInv'
  BY DEF JobInv, QueueT, PlacesT, ClaimsT, AtHand

\* The realtime dispatcher claims and completes no row of a reserved topic.
LEMMA RealtimeLeaves ==
  ASSUME IInv, LeavesReserved, NEW d \in Dispatchers, Advance(d) \/ Misfortune(d)
  PROVE  /\ LeavesReserved'
         /\ \A op \in rowDone' : KindOf[op] = "reservedJob" => op \in rowDone
<1>1. batch \in [Dispatchers -> SUBSET Items] BY DEF IInv, TypeOK
<1>2. ASSUME batch' = batch \/ \E S \in SUBSET batch[d] : batch' = [batch EXCEPT ![d] = S]
      PROVE  LeavesReserved'
  BY <1>1, <1>2 DEF LeavesReserved
<1>3. pc[d] \in {"mark", "row", "commit"} => KindOf[cur[d][1]] # "reservedJob"
  BY DEF IInv, WorkOK, LeavesReserved
<1>4. CASE Claim(d)
  <2>1. rowDone' = rowDone BY <1>4 DEF Claim
  <2>2. PICK P \in SUBSET {i \in Claimable \ Locked(d) : i[2] # NoChannel},
             R \in SUBSET {i \in Claimable : i[2] = NoChannel /\ ~ExcludedFromLegacy(i[1])} :
          batch' = [batch EXCEPT ![d] = P \union R]
    BY <1>4, TakeIsSubset DEF Claim
  <2>3. \A i \in P : KindOf[i[1]] # "reservedJob"
    BY <2>2, ItemShape DEF IInv, TypeOK, TablesTypeOK, Claimable, IsConversation
  <2>4. \A i \in R : KindOf[i[1]] # "reservedJob"
    BY <2>2 DEF ExcludedFromLegacy
  <2> QED BY <1>1, <2>1, <2>2, <2>3, <2>4 DEF LeavesReserved
<1>5. CASE PublishOk(d) \/ PushOk(d) \/ MarkPublication(d) \/ MarkRow(d)
           \/ PublishFails(d) \/ PushFails(d)
  <2>1. batch' = batch /\ rowDone' = rowDone
    BY <1>5
    DEF PublishOk, PushOk, MarkPublication, MarkRow, PublishFails, PushFails, tableVars
  <2> QED BY <1>2, <2>1
<1>6. CASE MarkRowItem(d) \/ Commit(d) \/ MarkFails(d)
  <2>1. batch' = batch \/ batch' = [batch EXCEPT ![d] = batch[d] \ {cur[d]}]
    BY <1>6 DEF MarkRowItem, Commit, MarkFails, EndItem
  <2>2. rowDone' \subseteq rowDone \union {cur[d][1]}
    BY <1>6 DEF MarkRowItem, Commit, MarkFails, CommitWrites
  <2>3. pc[d] \in {"mark", "row", "commit"} BY <1>6 DEF MarkRowItem, Commit, MarkFails
  <2> QED BY <1>2, <1>3, <2>1, <2>2, <2>3
<1>7. CASE Fail(d) \/ FailThrows(d) \/ Restart(d)
  <2>1. \/ batch' = [batch EXCEPT ![d] = batch[d] \ {cur[d]}]
        \/ batch' = [batch EXCEPT ![d] = {}]
    BY <1>7 DEF Fail, FailThrows, Restart, EndItem, Abandon
  <2>2. rowDone' = rowDone BY <1>7 DEF Fail, FailThrows, Restart, tableVars
  <2> QED BY <1>2, <2>1, <2>2
<1> QED BY <1>4, <1>5, <1>6, <1>7 DEF Advance, Misfortune

\* The steps of the realtime dispatcher, which may count attempts of a job row.
LEMMA RealtimeSteps ==
  ASSUME PipelineInv, NEW d \in Dispatchers, RealtimeAdvance(d) \/ RealtimeMisfortune(d)
  PROVE  PipelineInv'
<1>1. Advance(d) \/ Misfortune(d) BY DEF RealtimeAdvance, RealtimeMisfortune
<1>2. IInv' BY <1>1, NextIInv DEF PipelineInv, Next
<1>3. LeavesReserved' /\ \A op \in rowDone' : KindOf[op] = "reservedJob" => op \in rowDone
  BY <1>1, RealtimeLeaves DEF PipelineInv
<1>4. UNCHANGED <<enqueued, buried, jpc, claims, job>>
  BY DEF RealtimeAdvance, RealtimeMisfortune, jobVars
<1>5. AttemptsT'
  <2>1. CASE UNCHANGED attempts BY <2>1 DEF PipelineInv, JobInv, AttemptsT
  <2>2. ASSUME NEW S, Attempted(S) PROVE AttemptsT'
    BY <2>2, AttemptedIsTyped DEF PipelineInv, JobInv
  <2> QED BY <2>1, <2>2 DEF RealtimeAdvance, RealtimeMisfortune, jobVars
<1>6. JobInv' BY <1>4, <1>5, JobsRest DEF PipelineInv
<1>7. ReservedRowDoneMeansEnqueued'
  BY <1>3, <1>4 DEF PipelineInv, ReservedRowDoneMeansEnqueued
<1> QED BY <1>2, <1>3, <1>6, <1>7 DEF PipelineInv

\* The tables.
LEMMA TablesSteps == ASSUME PipelineInv, PipelineTables PROVE PipelineInv'
<1>1. IInv' BY TablesStepIInv DEF PipelineInv, PipelineTables
<1>2. UNCHANGED <<jobVars, batch, rowDone>>
  BY DEF PipelineTables, TablesStep, Record, BecomesAvailable, realtimeVars, dispatcherVars
<1>3. JobInv' BY <1>2, JobsRest DEF PipelineInv, JobInv, AttemptsT, jobVars
<1>4. LeavesReserved' /\ ReservedRowDoneMeansEnqueued'
  BY <1>2 DEF PipelineInv, LeavesReserved, ReservedRowDoneMeansEnqueued, jobVars
<1> QED BY <1>1, <1>3, <1>4 DEF PipelineInv

-----------------------------------------------------------------------------
\* A job dispatcher writes nothing the realtime dispatcher relies on: of the rows it
\* completes or opens again, none is a conversation's.
LEMMA RealtimeRests ==
  ASSUME IInv, LeavesReserved, ready' \subseteq ready, rowDone' \subseteq Ops,
         \A op \in rowDone' : op \in rowDone \/ IsJob(op),
         UNCHANGED <<committed, pubDone, published, pushJobs, dispatcherVars>>,
         faults' \in 0 .. MaxFaults
  PROVE  IInv' /\ LeavesReserved'
<1>1. TypeOK' BY DEF IInv, TypeOK, TablesTypeOK, dispatcherVars
<1>2. WorkOK' /\ CurPublished' /\ ClearIsTrue'
  BY DEF IInv, WorkOK, CurPublished, ClearIsTrue, PublicationsOf, dispatcherVars
<1>3. \A op : IsJob(op) => ~IsConversation(op) BY DEF IsJob, IsConversation
<1>4. DoneWasPublished' BY <1>3 DEF IInv, DoneWasPublished, PublicationsOf
<1>5. LeavesReserved' BY DEF LeavesReserved, dispatcherVars
<1> QED BY <1>1, <1>2, <1>4, <1>5 DEF IInv

\* The claims of one dispatcher are replaced.
LEMMA ClaimsReplaced ==
  ASSUME ClaimsT, NEW d \in JobDispatchers, NEW c, claims' = [claims EXCEPT ![d] = c],
         \A op \in DOMAIN c : op \in Ops /\ IsJob(op) /\ c[op] \in 1 .. MaxAttempts
  PROVE  ClaimsT' /\ claims'[d] = c /\ \A e \in JobDispatchers \ {d} : claims'[e] = claims[e]
  BY DEF ClaimsT

\* The end of a job row: what is left of the claim goes on.
LEMMA EndJobKeeps ==
  ASSUME PlacesT, ClaimsT, AtHand, NEW d \in JobDispatchers, EndJob(d),
         enqueued \subseteq enqueued'
  PROVE  PlacesT' /\ ClaimsT' /\ AtHand'
<1> DEFINE rest == DOMAIN claims[d] \ {job[d]}
           left == [op \in rest |-> claims[d][op]]
<1>1. claims' = [claims EXCEPT ![d] = left] /\ job' = [job EXCEPT ![d] = NoJob]
  BY DEF EndJob
<1>2. PICK p \in {"idle", "enqueue"} : jpc' = [jpc EXCEPT ![d] = p]
  BY DEF EndJob
<1>3. PlacesT' BY <1>1, <1>2 DEF PlacesT
<1>4. \A op \in DOMAIN left : op \in Ops /\ IsJob(op) /\ left[op] \in 1 .. MaxAttempts
  BY DEF ClaimsT
<1>5. ClaimsT' /\ \A e \in JobDispatchers \ {d} : claims'[e] = claims[e]
  <2> HIDE DEF left
  <2> QED BY <1>1, <1>4, ClaimsReplaced
<1>6. \A e \in JobDispatchers \ {d} : jpc'[e] = jpc[e] /\ job'[e] = job[e]
  BY <1>1, <1>2 DEF PlacesT
<1>7. jpc'[d] \in {"idle", "enqueue"} BY <1>2 DEF PlacesT
<1>8. AtHand' BY <1>5, <1>6, <1>7 DEF AtHand
<1> QED BY <1>3, <1>5, <1>8

\* The claim of a job dispatcher.
LEMMA JobClaimKeeps ==
  ASSUME JobInv, NEW d \in JobDispatchers, NEW Serves \in SUBSET Ops, JobClaim(d, Serves)
  PROVE  JobInv' /\ ready' \subseteq ready
<1>1. /\ jpc[d] = "idle" /\ jpc' = [jpc EXCEPT ![d] = "enqueue"]
      /\ UNCHANGED <<enqueued, buried, job>>
  BY DEF JobClaim
<1>2. PICK S \in SUBSET {op \in Serves : IsJob(op)} :
        /\ Attempted(S) /\ ready' \subseteq ready
        /\ claims' = [claims EXCEPT ![d] = [op \in S |-> attempts'[op]]]
  BY DEF JobClaim
<1>3. AttemptsT' BY <1>2, AttemptedIsTyped DEF JobInv
<1>4. \A op \in S : attempts'[op] \in 1 .. MaxAttempts
  BY <1>2, JobAssumption DEF JobInv, AttemptsT, Attempted
<1>5. ClaimsT' /\ \A e \in JobDispatchers \ {d} : claims'[e] = claims[e]
  <2> DEFINE c == [op \in S |-> attempts'[op]]
  <2>1. \A op \in DOMAIN c : op \in Ops /\ IsJob(op) /\ c[op] \in 1 .. MaxAttempts
    BY <1>2, <1>4
  <2>2. claims' = [claims EXCEPT ![d] = c] BY <1>2
  <2> HIDE DEF c
  <2> QED BY <2>1, <2>2, ClaimsReplaced DEF JobInv
<1>6. PlacesT' /\ QueueT' BY <1>1 DEF JobInv, PlacesT, QueueT
<1>7. AtHand'
  <2>1. \A e \in JobDispatchers \ {d} : jpc'[e] = jpc[e] BY <1>1 DEF JobInv, PlacesT
  <2>2. jpc'[d] = "enqueue" BY <1>1 DEF JobInv, PlacesT
  <2> QED BY <1>1, <1>5, <2>1, <2>2 DEF JobInv, AtHand
<1> QED BY <1>2, <1>3, <1>5, <1>6, <1>7 DEF JobInv

\* addJob, with or without an error.
LEMMA EnqueueKeeps ==
  ASSUME JobInv, NEW d \in JobDispatchers, EnqueueOk(d) \/ EnqueueFails(d)
  PROVE  JobInv' /\ enqueued \subseteq enqueued'
<1>1. PICK op \in DOMAIN claims[d], p \in {"mark", "fail"} :
        /\ job' = [job EXCEPT ![d] = op] /\ jpc' = [jpc EXCEPT ![d] = p]
        /\ enqueued' \in {enqueued, enqueued \union {op}}
        /\ p = "mark" => op \in enqueued'
        /\ UNCHANGED <<attempts, buried, claims>>
  BY DEF EnqueueOk, EnqueueFails
<1>2. op \in Ops BY <1>1 DEF JobInv, ClaimsT
<1>3. AttemptsT' /\ ClaimsT' BY <1>1 DEF JobInv, AttemptsT, ClaimsT
<1>4. QueueT' /\ PlacesT' BY <1>1, <1>2 DEF JobInv, QueueT, PlacesT
<1>5. AtHand' BY <1>1 DEF JobInv, AtHand, PlacesT
<1> QED BY <1>1, <1>3, <1>4, <1>5 DEF JobInv

\* The completion of a job row, its failure and its dead letter.
LEMMA SettleKeeps ==
  ASSUME PipelineInv, NEW d \in JobDispatchers, JobMark(d) \/ JobFail(d)
  PROVE  /\ JobInv' /\ ReservedRowDoneMeansEnqueued'
         /\ rowDone' \subseteq Ops /\ \A op \in rowDone' : op \in rowDone \/ IsJob(op)
<1>1. /\ jpc[d] \in {"mark", "fail"} /\ EndJob(d) /\ UNCHANGED <<attempts, enqueued>>
  BY DEF JobMark, JobFail
<1>2. job[d] \in Ops /\ IsJob(job[d]) BY <1>1 DEF PipelineInv, JobInv, AtHand, ClaimsT
<1>3. \/ /\ rowDone' = rowDone \union {job[d]} /\ buried' = buried \ {job[d]}
         /\ job[d] \in enqueued
      \/ UNCHANGED <<rowDone, buried>>
      \/ rowDone' = rowDone \union {job[d]} /\ buried' = buried \union {job[d]}
      \/ rowDone' = rowDone \ {job[d]} /\ buried' = buried \ {job[d]}
  BY DEF JobMark, JobFail, PipelineInv, JobInv, AtHand
<1>4. AttemptsT' BY <1>1 DEF PipelineInv, JobInv, AttemptsT
<1>5. QueueT' BY <1>1, <1>2, <1>3 DEF PipelineInv, JobInv, QueueT
<1>6. PlacesT' /\ ClaimsT' /\ AtHand' BY <1>1, EndJobKeeps DEF PipelineInv, JobInv
<1>7. ReservedRowDoneMeansEnqueued'
  BY <1>1, <1>3 DEF PipelineInv, ReservedRowDoneMeansEnqueued
<1>8. rowDone \subseteq Ops BY DEF PipelineInv, IInv, TypeOK, TablesTypeOK
<1> QED BY <1>2, <1>3, <1>4, <1>5, <1>6, <1>7, <1>8 DEF JobInv

\* A mark that fails, a worker that dies.
LEMMA DropKeeps ==
  ASSUME JobInv, NEW d \in JobDispatchers, JobMarkFails(d) \/ JobAbandon(d)
  PROVE  JobInv'
<1>1. CASE JobMarkFails(d)
  <2>1. AttemptsT' /\ QueueT' /\ ClaimsT'
    BY <1>1 DEF JobMarkFails, JobInv, AttemptsT, QueueT, ClaimsT
  <2>2. PlacesT' BY <1>1 DEF JobMarkFails, JobInv, PlacesT
  <2>3. AtHand' BY <1>1 DEF JobMarkFails, JobInv, PlacesT, AtHand
  <2> QED BY <2>1, <2>2, <2>3 DEF JobInv
<1>2. CASE JobAbandon(d)
  <2>1. AttemptsT' /\ QueueT' BY <1>2 DEF JobAbandon, JobInv, AttemptsT, QueueT
  <2>2. PlacesT' BY <1>2 DEF JobAbandon, JobInv, PlacesT
  <2>3. \A op \in DOMAIN <<>> : FALSE OBVIOUS
  <2>4. ClaimsT' /\ \A e \in JobDispatchers \ {d} : claims'[e] = claims[e]
    BY <1>2, <2>3, ClaimsReplaced DEF JobAbandon, JobInv
  <2>5. /\ jpc'[d] = "idle"
        /\ \A e \in JobDispatchers \ {d} : jpc'[e] = jpc[e] /\ job'[e] = job[e]
    BY <1>2 DEF JobAbandon, JobInv, PlacesT
  <2>6. enqueued' = enqueued BY <1>2 DEF JobAbandon
  <2>7. AtHand' BY <2>4, <2>5, <2>6 DEF JobInv, AtHand
  <2> QED BY <2>1, <2>2, <2>4, <2>7 DEF JobInv
<1> QED BY <1>1, <1>2

\* The steps of a job dispatcher on the whole keep the invariant.
LEMMA JobSteps ==
  ASSUME PipelineInv, NEW d \in JobDispatchers, JobStep(d) \/ JobFault(d)
  PROVE  PipelineInv'
<1>1. /\ UNCHANGED <<published, pushJobs, dispatcherVars>> /\ faults' \in 0 .. MaxFaults
  <2>1. CASE JobStep(d) BY <2>1 DEF JobStep, realtimeVars, PipelineInv, IInv, TypeOK
  <2>2. CASE JobFault(d)
    BY <2>2, DispatcherAssumption DEF JobFault, Fault, PipelineInv, IInv, TypeOK
  <2> QED BY <2>1, <2>2
<1>2. ServedBy[d] \in SUBSET Ops BY PipelineAssumption
<1>3. /\ UNCHANGED <<committed, pubDone>> /\ ready' \subseteq ready
  BY <1>2, JobClaimKeeps
  DEF JobStep, JobFault, JobAdvance, JobMisfortune, JobClaim, EnqueueOk, JobMark, JobFail,
      EnqueueFails, JobMarkFails, JobAbandon, tableVars, PipelineInv
<1>4. /\ JobInv' /\ ReservedRowDoneMeansEnqueued'
      /\ rowDone' \subseteq Ops /\ \A op \in rowDone' : op \in rowDone \/ IsJob(op)
  <2>1. rowDone \subseteq Ops BY DEF PipelineInv, IInv, TypeOK, TablesTypeOK
  <2>2. CASE JobMark(d) \/ JobFail(d) BY <2>2, SettleKeeps
  <2>3. CASE JobClaim(d, ServedBy[d])
    <3>1. JobInv' BY <1>2, <2>3, JobClaimKeeps DEF PipelineInv
    <3>2. UNCHANGED <<rowDone, enqueued, buried>> BY <2>3 DEF JobClaim
    <3> QED BY <2>1, <3>1, <3>2 DEF PipelineInv, ReservedRowDoneMeansEnqueued
  <2>4. CASE EnqueueOk(d) \/ EnqueueFails(d)
    <3>1. JobInv' /\ enqueued \subseteq enqueued' BY <2>4, EnqueueKeeps DEF PipelineInv
    <3>2. UNCHANGED <<rowDone, buried>> BY <2>4 DEF EnqueueOk, EnqueueFails, tableVars
    <3> QED BY <2>1, <3>1, <3>2 DEF PipelineInv, ReservedRowDoneMeansEnqueued
  <2>5. CASE JobMarkFails(d) \/ JobAbandon(d)
    <3>1. JobInv' BY <2>5, DropKeeps DEF PipelineInv
    <3>2. UNCHANGED <<rowDone, enqueued, buried>>
      BY <2>5 DEF JobMarkFails, JobAbandon, tableVars
    <3> QED BY <2>1, <3>1, <3>2 DEF PipelineInv, ReservedRowDoneMeansEnqueued
  <2> QED
    BY <2>2, <2>3, <2>4, <2>5 DEF JobStep, JobFault, JobAdvance, JobMisfortune
<1>5. IInv' /\ LeavesReserved' BY <1>1, <1>3, <1>4, RealtimeRests DEF PipelineInv
<1> QED BY <1>4, <1>5 DEF PipelineInv

-----------------------------------------------------------------------------
\* Every step keeps the invariant, so it always holds.
LEMMA NextPipeline == PipelineInv /\ [PipelineNext]_allVars => PipelineInv'
<1> SUFFICES ASSUME PipelineInv, [PipelineNext]_allVars PROVE PipelineInv'
  OBVIOUS
<1>1. CASE PipelineTables BY <1>1, TablesSteps
<1>2. CASE \E d \in Dispatchers : RealtimeAdvance(d) \/ RealtimeMisfortune(d)
  BY <1>2, RealtimeSteps
<1>3. CASE \E d \in JobDispatchers : JobStep(d) \/ JobFault(d) BY <1>3, JobSteps
<1>4. CASE UNCHANGED allVars
  <2>1. UNCHANGED vars /\ UNCHANGED jobVars BY <1>4 DEF allVars, vars
  <2>2. IInv' BY <2>1, NextIInv DEF PipelineInv
  <2>3. JobInv' BY <2>1, JobsRest DEF PipelineInv, JobInv, AttemptsT, jobVars
  <2>4. LeavesReserved' /\ ReservedRowDoneMeansEnqueued'
    BY <2>1 DEF PipelineInv, LeavesReserved, ReservedRowDoneMeansEnqueued, jobVars, vars,
                realtimeVars, dispatcherVars, tableVars
  <2> QED BY <2>2, <2>3, <2>4 DEF PipelineInv
<1> QED BY <1>1, <1>2, <1>3, <1>4 DEF PipelineNext

LEMMA PipelineInvariant == PipelineSpec => []PipelineInv
  BY InitPipeline, NextPipeline, PTL DEF PipelineSpec

\* A row of a reserved topic that is completed has its job on the queue or is a dead
\* letter: no overlap of job dispatchers on it, no late failure that opens it again and
\* nothing the realtime dispatcher does loses the job.
THEOREM ReservedJobsAreKept == PipelineSpec => []ReservedRowDoneMeansEnqueued
<1>1. PipelineInv => ReservedRowDoneMeansEnqueued BY DEF PipelineInv
<1> QED BY <1>1, PipelineInvariant, PTL

\* A conversation's row is completed only when every channel is served, with the job
\* dispatchers writing to the same table.
THEOREM RowCompletionIsSafeInPipeline == PipelineSpec => []RowDoneMeansAllServed
<1>1. PipelineInv => RowDoneMeansAllServed
  BY DEF PipelineInv, IInv, DoneWasPublished, RowDoneMeansAllServed
<1> QED BY <1>1, PipelineInvariant, PTL

-----------------------------------------------------------------------------
(* What the two statements of markCompleted and the callback of the first  *)
(* channel promise of an operation that no two dispatchers hold items of   *)
(* at the same moment; of the others it is false.                          *)

\* What a dispatcher holds is not completed yet, but for an item whose commit
\* answered with an error.
FreshAt(d) ==
  \A i \in batch[d] :
    i[2] # NoChannel /\ i[1] \notin shared /\ i \in pubDone => pc[d] = "fail" /\ i = cur[d]

\* Past the callback, the operation at hand is among those notified.
ToldAt(d) ==
  /\ pc[d] = "idle" => notified[d] = {}
  /\ pc[d] \in {"mark", "row", "commit"} /\ KindOf[cur[d][1]] = "message" =>
       cur[d][1] \in notified[d]

\* An operation whose callback failed keeps a channel open that this batch is not
\* going to complete.
KeptOpenAt(d) ==
  \A op \in notified[d] \ shared :
    KindOf[op] = "message" /\ op \notin pushJobs =>
      \E i \in PublicationsOf(op) :
        i \notin pubDone /\ (i \notin batch[d] \/ (pc[d] = "fail" /\ i = cur[d]))

\* The second statement notices that its channel is the last.
LastIsSeenAt(d) ==
  /\ pc[d] = "commit" /\ cur[d][1] \notin shared
  /\ PublicationsOf(cur[d][1]) \subseteq pubDone \union {cur[d]}
  => clear[d]

HoldsAt(d) == FreshAt(d) /\ ToldAt(d) /\ KeptOpenAt(d) /\ LastIsSeenAt(d)

Served ==
  \A op \in Ops \ shared : IsConversation(op) /\ PublicationsOf(op) \subseteq pubDone =>
    /\ op \in rowDone
    /\ KindOf[op] = "message" => op \in pushJobs

ApartInv ==
  /\ shared \subseteq Ops /\ Overlapping \subseteq shared
  /\ \A d \in Dispatchers : HoldsAt(d)
  /\ Served

LEMMA InitApart == PipelineInit => ApartInv
<1> SUFFICES ASSUME PipelineInit PROVE ApartInv
  OBVIOUS
<1>1. /\ pubDone = {} /\ shared = {}
      /\ \A d \in Dispatchers : pc[d] = "idle" /\ batch[d] = {} /\ notified[d] = {}
  BY DEF PipelineInit, Init, TablesInit, RealtimeInit
<1>2. \A d \in Dispatchers : HoldsAt(d)
  BY <1>1 DEF HoldsAt, FreshAt, ToldAt, KeptOpenAt, LastIsSeenAt
<1>3. ASSUME NEW op \in Ops, IsConversation(op) PROVE PublicationsOf(op) # {}
  <2>1. PICK c : c \in ChannelsOf[op] BY <1>3, OutboxAssumption
  <2>2. <<op, c>> \in PublicationsOf(op) BY <2>1 DEF PublicationsOf
  <2> QED BY <2>2
<1>4. Served BY <1>1, <1>3 DEF Served
<1>5. Overlapping \subseteq shared BY <1>1 DEF Overlapping
<1> QED BY <1>1, <1>2, <1>4, <1>5 DEF ApartInv

\* A publication at hand is one of its operation's, and nobody else's.
LEMMA AtHandIsOwn ==
  ASSUME IInv, NEW d \in Dispatchers, pc[d] \in {"push", "mark", "row", "commit", "fail"}
  PROVE  /\ cur[d] \in Items /\ cur[d] \in batch[d] /\ cur[d][1] \in Ops
         /\ \A op : cur[d] \in PublicationsOf(op) => op = cur[d][1]
<1>1. cur[d] \in batch[d] /\ batch[d] \subseteq Items BY DEF IInv, WorkOK, TypeOK
<1>2. \A op : cur[d] \in PublicationsOf(op) => op = cur[d][1] BY DEF PublicationsOf
<1> QED BY <1>1, <1>2, ItemShape

\* Of an operation that is not shared, one dispatcher holds items.
LEMMA OneHolder ==
  ASSUME ApartInv, NEW d \in Dispatchers, NEW e \in Dispatchers, d # e,
         NEW i \in batch[d], NEW j \in batch[e], i[1] = j[1], i[1] \in Ops
  PROVE  i[1] \in shared
BY DEF ApartInv, Overlapping

\* A step of one dispatcher, which completes the item at hand or nothing: what it
\* leaves true of itself, and of the channels of the operation it completes one of,
\* is enough for the others.
LEMMA StepApart ==
  ASSUME IInv, ApartInv, NEW d \in Dispatchers, Recorded,
         \A e \in Dispatchers \ {d} :
           /\ pc'[e] = pc[e] /\ batch'[e] = batch[e] /\ cur'[e] = cur[e]
           /\ notified'[e] = notified[e] /\ clear'[e] = clear[e],
         pushJobs \subseteq pushJobs',
         \/ pubDone' = pubDone
         \/ /\ pubDone' = pubDone \union {cur[d]} /\ cur[d] \in batch[d]
            /\ KindOf[cur[d][1]] = "message" /\ cur[d][1] \notin pushJobs /\ cur[d][1] \notin shared =>
                 \E i \in PublicationsOf(cur[d][1]) : i \notin pubDone',
         HoldsAt(d)', Served'
  PROVE  ApartInv'
<1>1. shared \subseteq shared' /\ Overlapping' \subseteq shared' BY DEF Recorded
<1>2. shared' \subseteq Ops BY DEF Recorded, Overlapping, ApartInv
<1>3. ASSUME NEW e \in Dispatchers, e # d PROVE HoldsAt(e)'
  <2>1. /\ pc'[e] = pc[e] /\ batch'[e] = batch[e] /\ cur'[e] = cur[e]
        /\ notified'[e] = notified[e] /\ clear'[e] = clear[e]
    BY <1>3
  <2>2. HoldsAt(e) BY DEF ApartInv
  <2>3. batch[e] \subseteq Items /\ batch[d] \subseteq Items BY DEF IInv, TypeOK
  <2>4. ASSUME NEW i \in batch[d], NEW j \in batch[e], i[1] = j[1] PROVE i[1] \in shared
    <3>1. i[1] \in Ops BY <2>3, ItemShape
    <3> QED BY <1>3, <2>4, <3>1, OneHolder
  <2>5. ToldAt(e)' BY <2>1, <2>2 DEF HoldsAt, ToldAt
  <2>6. CASE pubDone' = pubDone
    <3>1. FreshAt(e)' BY <1>1, <2>1, <2>2, <2>6 DEF HoldsAt, FreshAt
    <3>2. KeptOpenAt(e)' BY <1>1, <2>1, <2>2, <2>6 DEF HoldsAt, KeptOpenAt, PublicationsOf
    <3>3. LastIsSeenAt(e)' BY <1>1, <2>1, <2>2, <2>6 DEF HoldsAt, LastIsSeenAt, PublicationsOf
    <3> QED BY <2>5, <3>1, <3>2, <3>3 DEF HoldsAt
  <2>7. CASE /\ pubDone' = pubDone \union {cur[d]} /\ cur[d] \in batch[d]
             /\ KindOf[cur[d][1]] = "message" /\ cur[d][1] \notin pushJobs /\ cur[d][1] \notin shared =>
                  \E i \in PublicationsOf(cur[d][1]) : i \notin pubDone'
    <3>1. FreshAt(e)' BY <1>1, <2>1, <2>2, <2>4, <2>7 DEF HoldsAt, FreshAt
    <3>2. KeptOpenAt(e)'
      <4> SUFFICES ASSUME NEW op \in notified[e] \ shared', KindOf[op] = "message", op \notin pushJobs'
                   PROVE  \E i \in PublicationsOf(op) :
                            i \notin pubDone' /\ (i \notin batch[e] \/ (pc[e] = "fail" /\ i = cur[e]))
        BY <2>1 DEF KeptOpenAt, PublicationsOf
      <4>1. PICK i \in PublicationsOf(op) :
              i \notin pubDone /\ (i \notin batch[e] \/ (pc[e] = "fail" /\ i = cur[e]))
        BY <1>1, <2>2 DEF HoldsAt, KeptOpenAt
      <4>2. i[1] = op BY <4>1 DEF PublicationsOf
      <4>3. CASE i # cur[d] BY <2>7, <4>1, <4>3
      <4>4. CASE i = cur[d]
        <5>1. op \notin shared BY <1>1
        <5>2. PICK j \in PublicationsOf(op) : j \notin pubDone' BY <2>7, <4>2, <4>4, <5>1
        <5>3. j[1] = op BY <5>2 DEF PublicationsOf
        <5>4. j \notin batch[e] BY <2>4, <2>7, <4>2, <4>4, <5>1, <5>3
        <5> QED BY <5>2, <5>4
      <4> QED BY <4>3, <4>4
    <3>3. LastIsSeenAt(e)'
      <4> SUFFICES ASSUME pc[e] = "commit", cur[e][1] \notin shared',
                          PublicationsOf(cur[e][1]) \subseteq pubDone' \union {cur[e]}
                   PROVE  clear[e]
        BY <2>1 DEF LastIsSeenAt, PublicationsOf
      <4>1. cur[e] \in batch[e] BY DEF IInv, WorkOK
      <4>2. cur[d] \notin PublicationsOf(cur[e][1])
        <5> SUFFICES ASSUME cur[d] \in PublicationsOf(cur[e][1]) PROVE FALSE
          OBVIOUS
        <5>1. cur[d][1] = cur[e][1] BY DEF PublicationsOf
        <5> QED BY <1>1, <2>4, <2>7, <4>1, <5>1
      <4>3. PublicationsOf(cur[e][1]) \subseteq pubDone \union {cur[e]} BY <2>7, <4>2
      <4> QED BY <1>1, <2>2, <4>3 DEF HoldsAt, LastIsSeenAt
    <3> QED BY <2>5, <3>1, <3>2, <3>3 DEF HoldsAt
  <2> QED BY <2>6, <2>7
<1> QED BY <1>1, <1>2, <1>3 DEF ApartInv

\* A step that completes nothing keeps the served ones.
LEMMA ServedKept ==
  ASSUME ApartInv, Recorded, pubDone' = pubDone, pushJobs \subseteq pushJobs',
         rowDone \subseteq rowDone'
  PROVE  Served'
<1>1. shared \subseteq shared' BY DEF Recorded
<1> QED BY <1>1 DEF ApartInv, Served, PublicationsOf

\* Steps before and between the completions of a batch.
LEMMA ClaimApart ==
  ASSUME IInv, ApartInv, NEW d \in Dispatchers, Claim(d), Recorded PROVE ApartInv'
<1>1. /\ pc[d] = "idle" /\ pc' = [pc EXCEPT ![d] = "publish"]
      /\ UNCHANGED <<pubDone, rowDone, pushJobs, cur, notified, clear>>
  BY DEF Claim
<1>2. PICK S \in SUBSET Claimable : batch' = [batch EXCEPT ![d] = S]
  BY TakeIsSubset DEF Claim
<1>3. \A i \in S : i[2] # NoChannel => i \notin pubDone BY DEF Claimable, ItemDone
<1>4. pc'[d] = "publish" /\ batch'[d] = S BY <1>1, <1>2 DEF IInv, TypeOK
<1>5. notified[d] = {} BY <1>1 DEF ApartInv, HoldsAt, ToldAt
<1>6. FreshAt(d)' BY <1>1, <1>3, <1>4 DEF FreshAt
<1>7. ToldAt(d)' /\ KeptOpenAt(d)' /\ LastIsSeenAt(d)'
  BY <1>1, <1>4, <1>5 DEF ToldAt, KeptOpenAt, LastIsSeenAt
<1>8. Served' BY <1>1, ServedKept
<1>9. \A e \in Dispatchers \ {d} : pc'[e] = pc[e] /\ batch'[e] = batch[e]
  BY <1>1, <1>2 DEF IInv, TypeOK
<1> QED BY <1>1, <1>6, <1>7, <1>8, <1>9, StepApart DEF HoldsAt

LEMMA PublishApart ==
  ASSUME IInv, ApartInv, NEW d \in Dispatchers, PublishOk(d) \/ PublishFails(d), Recorded
  PROVE  ApartInv'
<1>1. PICK i \in batch[d], p \in {"push", "mark", "fail"} :
        /\ pc[d] = "publish" /\ pc' = [pc EXCEPT ![d] = p] /\ cur' = [cur EXCEPT ![d] = i]
        /\ p = "mark" => ~IsConversation(i[1]) \/ i[1] \in notified[d]
        /\ UNCHANGED <<pubDone, rowDone, pushJobs, batch, notified, clear>>
  BY DEF PublishOk, PublishFails, tableVars
<1>2. pc'[d] = p /\ cur'[d] = i BY <1>1 DEF IInv, TypeOK
<1>3. shared \subseteq shared' BY DEF Recorded
<1>4. HoldsAt(d) BY DEF ApartInv
<1>5. FreshAt(d)' BY <1>1, <1>2, <1>3, <1>4 DEF HoldsAt, FreshAt
<1>6. ToldAt(d)' BY <1>1, <1>2 DEF ToldAt, IsConversation
<1>7. KeptOpenAt(d)' BY <1>1, <1>2, <1>3, <1>4 DEF HoldsAt, KeptOpenAt, PublicationsOf
<1>8. LastIsSeenAt(d)' BY <1>2 DEF LastIsSeenAt
<1>9. Served' BY <1>1, ServedKept
<1>10. \A e \in Dispatchers \ {d} : pc'[e] = pc[e] /\ cur'[e] = cur[e]
  BY <1>1 DEF IInv, TypeOK
<1> QED BY <1>1, <1>5, <1>6, <1>7, <1>8, <1>9, <1>10, StepApart DEF HoldsAt

\* The callback, with or without an error.
LEMMA PushApart ==
  ASSUME IInv, ApartInv, NEW d \in Dispatchers, PushOk(d) \/ PushFails(d), Recorded
  PROVE  ApartInv'
<1> DEFINE op == cur[d][1]
<1>1. PICK p \in {"mark", "fail"} :
        /\ pc[d] = "push" /\ pc' = [pc EXCEPT ![d] = p]
        /\ notified' = [notified EXCEPT ![d] = notified[d] \union {op}]
        /\ pushJobs \subseteq pushJobs'
        /\ p = "mark" /\ KindOf[op] = "message" => op \in pushJobs'
        /\ UNCHANGED <<pubDone, rowDone, batch, cur, clear>>
  BY DEF PushOk, PushFails, tableVars
<1>2. pc'[d] = p /\ notified'[d] = notified[d] \union {op} BY <1>1 DEF IInv, TypeOK
<1>3. shared \subseteq shared' BY DEF Recorded
<1>4. /\ cur[d] \in batch[d] /\ op \in Ops
      /\ IsConversation(op) => cur[d] \in PublicationsOf(op) /\ cur[d][2] # NoChannel
  BY <1>1, AtHandIsOwn, ItemShape
<1>5. HoldsAt(d) BY DEF ApartInv
<1>6. FreshAt(d)' BY <1>1, <1>2, <1>3, <1>5 DEF HoldsAt, FreshAt
<1>7. ToldAt(d)' BY <1>1, <1>2 DEF ToldAt
<1>8. KeptOpenAt(d)'
  <2> SUFFICES ASSUME NEW o \in notified'[d], o \notin shared', KindOf[o] = "message",
                      o \notin pushJobs'
               PROVE  \E i \in PublicationsOf(o) :
                        i \notin pubDone /\ (i \notin batch[d] \/ (p = "fail" /\ i = cur[d]))
    BY <1>1, <1>2 DEF KeptOpenAt, PublicationsOf
  <2>1. CASE o \in notified[d] BY <1>1, <1>3, <1>5, <2>1 DEF HoldsAt, KeptOpenAt
  <2>2. CASE o = op
    <3>1. cur[d] \notin pubDone BY <1>1, <1>3, <1>4, <1>5, <2>2 DEF HoldsAt, FreshAt, IsConversation
    <3> QED BY <1>1, <1>4, <2>2, <3>1 DEF IsConversation
  <2> QED BY <1>2, <2>1, <2>2
<1>9. LastIsSeenAt(d)' BY <1>2 DEF LastIsSeenAt
<1>10. Served' BY <1>1, ServedKept
<1>11. \A e \in Dispatchers \ {d} : pc'[e] = pc[e] /\ notified'[e] = notified[e]
  BY <1>1 DEF IInv, TypeOK
<1> QED BY <1>1, <1>6, <1>7, <1>8, <1>9, <1>10, <1>11, StepApart DEF HoldsAt

\* The two statements of markCompleted.
LEMMA StatementsApart ==
  ASSUME IInv, ApartInv, NEW d \in Dispatchers, MarkPublication(d) \/ MarkRow(d), Recorded
  PROVE  ApartInv'
<1>1. PICK p \in {"row", "commit"} :
        /\ pc[d] \in {"mark", "row"} /\ pc' = [pc EXCEPT ![d] = p]
        /\ p = "commit" =>
             clear' = [clear EXCEPT ![d] =
                         PublicationsOf(cur[d][1]) \subseteq pubDone \union {cur[d]}]
        /\ p = "row" => clear' = clear
        /\ UNCHANGED <<pubDone, rowDone, pushJobs, batch, cur, notified>>
  BY DEF MarkPublication, MarkRow, tableVars
<1>2. pc'[d] = p BY <1>1 DEF IInv, TypeOK
<1>3. shared \subseteq shared' BY DEF Recorded
<1>4. HoldsAt(d) BY DEF ApartInv
<1>5. FreshAt(d)' /\ ToldAt(d)' BY <1>1, <1>2, <1>3, <1>4 DEF HoldsAt, FreshAt, ToldAt
<1>6. KeptOpenAt(d)' BY <1>1, <1>2, <1>3, <1>4 DEF HoldsAt, KeptOpenAt, PublicationsOf
<1>7. LastIsSeenAt(d)' BY <1>1, <1>2 DEF LastIsSeenAt, PublicationsOf, IInv, TypeOK
<1>8. Served' BY <1>1, ServedKept
<1>9. \A e \in Dispatchers \ {d} : pc'[e] = pc[e] /\ clear'[e] = clear[e]
  BY <1>1 DEF IInv, TypeOK
<1> QED BY <1>1, <1>5, <1>6, <1>7, <1>8, <1>9, StepApart DEF HoldsAt

\* What the commit writes.
LEMMA CommitServes ==
  ASSUME IInv, ApartInv, NEW d \in Dispatchers, pc[d] = "commit", CommitWrites(d), Recorded
  PROVE  /\ \A op \in Ops \ shared : IsConversation(op) /\ PublicationsOf(op) \subseteq pubDone' =>
              op \in rowDone' /\ (KindOf[op] = "message" => op \in pushJobs)
         /\ \A op \in notified[d] \ shared : KindOf[op] = "message" /\ op \notin pushJobs =>
              \E i \in PublicationsOf(op) : i \notin pubDone' /\ i \notin batch[d]
         /\ pubDone' = pubDone \union {cur[d]} /\ cur[d] \in batch[d]
         /\ KindOf[cur[d][1]] = "message" => cur[d][1] \in notified[d]
<1>1. /\ pubDone' = pubDone \union {cur[d]}
      /\ rowDone' = IF clear[d] THEN rowDone \union {cur[d][1]} ELSE rowDone
  BY DEF CommitWrites
<1>2. cur[d] \in batch[d] /\ \A op : cur[d] \in PublicationsOf(op) => op = cur[d][1]
  BY AtHandIsOwn
<1>3. HoldsAt(d) BY DEF ApartInv
<1>4. ASSUME NEW op \in notified[d] \ shared, KindOf[op] = "message", op \notin pushJobs
      PROVE  \E i \in PublicationsOf(op) : i \notin pubDone' /\ i \notin batch[d]
  BY <1>1, <1>2, <1>3, <1>4 DEF HoldsAt, KeptOpenAt
<1>5. KindOf[cur[d][1]] = "message" => cur[d][1] \in notified[d] BY <1>3 DEF HoldsAt, ToldAt
<1>6. ASSUME NEW op \in Ops \ shared, IsConversation(op), PublicationsOf(op) \subseteq pubDone'
      PROVE  op \in rowDone' /\ (KindOf[op] = "message" => op \in pushJobs)
  <2>1. CASE cur[d] \in PublicationsOf(op)
    <3>1. op = cur[d][1] BY <1>2, <2>1
    <3>2. clear[d] BY <1>1, <1>3, <1>6, <3>1 DEF HoldsAt, LastIsSeenAt
    <3> QED BY <1>1, <1>4, <1>5, <1>6, <3>1, <3>2
  <2>2. CASE cur[d] \notin PublicationsOf(op)
    BY <1>1, <1>6, <2>2 DEF ApartInv, Served
  <2> QED BY <2>1, <2>2
<1> QED BY <1>1, <1>2, <1>4, <1>5, <1>6

\* The end of an item keeps what the completions need, given what they wrote.
LEMMA EndItemApart ==
  ASSUME IInv, ApartInv, NEW d \in Dispatchers, NEW error, EndItem(d, error), Recorded,
         UNCHANGED pushJobs,
         \/ pubDone' = pubDone
         \/ /\ pubDone' = pubDone \union {cur[d]} /\ cur[d] \in batch[d]
            /\ KindOf[cur[d][1]] = "message" => cur[d][1] \in notified[d],
         \A op \in notified[d] \ shared : KindOf[op] = "message" /\ op \notin pushJobs =>
           \E i \in PublicationsOf(op) :
             i \notin pubDone' /\ (i \notin batch[d] \/ i = cur[d]),
         Served'
  PROVE  ApartInv'
<1>1. /\ batch' = [batch EXCEPT ![d] = batch[d] \ {cur[d]}]
      /\ cur' = [cur EXCEPT ![d] = None] /\ clear' = [clear EXCEPT ![d] = FALSE]
      /\ \/ pc' = [pc EXCEPT ![d] = "idle"] /\ notified' = [notified EXCEPT ![d] = {}]
         \/ pc' = [pc EXCEPT ![d] = "publish"] /\ notified' = notified
  BY DEF EndItem
<1>2. /\ batch'[d] = batch[d] \ {cur[d]}
      /\ \/ pc'[d] = "idle" /\ notified'[d] = {}
         \/ pc'[d] = "publish" /\ notified'[d] = notified[d]
  BY <1>1 DEF IInv, TypeOK
<1>3. shared \subseteq shared' BY DEF Recorded
<1>4. HoldsAt(d) BY DEF ApartInv
<1>5. FreshAt(d)' BY <1>2, <1>3, <1>4 DEF HoldsAt, FreshAt
<1>6. ToldAt(d)' /\ LastIsSeenAt(d)' BY <1>2 DEF ToldAt, LastIsSeenAt
<1>7. KeptOpenAt(d)' BY <1>2, <1>3 DEF KeptOpenAt, PublicationsOf
<1>8. \A e \in Dispatchers \ {d} :
        /\ pc'[e] = pc[e] /\ batch'[e] = batch[e] /\ cur'[e] = cur[e]
        /\ notified'[e] = notified[e] /\ clear'[e] = clear[e]
  BY <1>1 DEF IInv, TypeOK
<1>9. pubDone' = pubDone \/
        (/\ pubDone' = pubDone \union {cur[d]} /\ cur[d] \in batch[d]
         /\ KindOf[cur[d][1]] = "message" /\ cur[d][1] \notin pushJobs /\ cur[d][1] \notin shared =>
              \E i \in PublicationsOf(cur[d][1]) : i \notin pubDone')
  OBVIOUS
<1> QED BY <1>5, <1>6, <1>7, <1>8, <1>9, StepApart DEF HoldsAt

LEMMA MarkRowItemApart ==
  ASSUME IInv, ApartInv, NEW d \in Dispatchers, MarkRowItem(d), Recorded PROVE ApartInv'
<1>1. /\ pc[d] = "mark" /\ EndItem(d, FALSE) /\ UNCHANGED <<pubDone, pushJobs>>
      /\ rowDone \subseteq rowDone'
  BY DEF MarkRowItem
<1>2. Served' BY <1>1, ServedKept
<1>3. \A op \in notified[d] \ shared : KindOf[op] = "message" /\ op \notin pushJobs =>
        \E i \in PublicationsOf(op) : i \notin pubDone' /\ i \notin batch[d]
  BY <1>1 DEF ApartInv, HoldsAt, KeptOpenAt
<1> QED BY <1>1, <1>2, <1>3, EndItemApart

LEMMA CommitApart ==
  ASSUME IInv, ApartInv, NEW d \in Dispatchers, Commit(d), Recorded PROVE ApartInv'
<1>1. pc[d] = "commit" /\ CommitWrites(d) /\ EndItem(d, FALSE) /\ UNCHANGED pushJobs
  BY DEF Commit
<1>2. shared \subseteq shared' BY DEF Recorded
<1>3. Served' BY <1>1, <1>2, CommitServes DEF Served, PublicationsOf
<1> QED BY <1>1, <1>3, CommitServes, EndItemApart

LEMMA MarkFailsApart ==
  ASSUME IInv, ApartInv, NEW d \in Dispatchers, MarkFails(d), Recorded PROVE ApartInv'
<1>1. /\ pc[d] \in {"mark", "row", "commit"} /\ pc' = [pc EXCEPT ![d] = "fail"]
      /\ clear' = [clear EXCEPT ![d] = FALSE]
      /\ \/ UNCHANGED <<pubDone, rowDone>>
         \/ pc[d] = "commit" /\ CommitWrites(d)
      /\ UNCHANGED <<pushJobs, batch, cur, notified>>
  BY DEF MarkFails
<1>2. pc'[d] = "fail" BY <1>1 DEF IInv, TypeOK
<1>3. shared \subseteq shared' BY DEF Recorded
<1>4. HoldsAt(d) BY DEF ApartInv
<1>5. pubDone' \subseteq pubDone \union {cur[d]} BY <1>1 DEF CommitWrites
<1>6. FreshAt(d)' BY <1>1, <1>2, <1>3, <1>4, <1>5 DEF HoldsAt, FreshAt
<1>7. ToldAt(d)' /\ LastIsSeenAt(d)' BY <1>1, <1>2, <1>4 DEF HoldsAt, ToldAt, LastIsSeenAt
<1>8. \A op \in notified[d] \ shared : KindOf[op] = "message" /\ op \notin pushJobs =>
        \E i \in PublicationsOf(op) : i \notin pubDone' /\ i \notin batch[d]
  <2>1. CASE UNCHANGED <<pubDone, rowDone>> BY <1>1, <1>4, <2>1 DEF HoldsAt, KeptOpenAt
  <2>2. CASE pc[d] = "commit" /\ CommitWrites(d) BY <2>2, CommitServes
  <2> QED BY <1>1, <2>1, <2>2
<1>9. KeptOpenAt(d)' BY <1>1, <1>3, <1>8 DEF KeptOpenAt, PublicationsOf
<1>10. Served'
  <2>1. CASE UNCHANGED <<pubDone, rowDone>> BY <1>1, <2>1, ServedKept
  <2>2. CASE pc[d] = "commit" /\ CommitWrites(d)
    BY <1>1, <1>3, <2>2, CommitServes DEF Served, PublicationsOf
  <2> QED BY <1>1, <2>1, <2>2
<1>11. \/ pubDone' = pubDone
       \/ /\ pubDone' = pubDone \union {cur[d]} /\ cur[d] \in batch[d]
          /\ KindOf[cur[d][1]] = "message" /\ cur[d][1] \notin pushJobs /\ cur[d][1] \notin shared =>
               \E i \in PublicationsOf(cur[d][1]) : i \notin pubDone'
  <2>1. CASE UNCHANGED <<pubDone, rowDone>> BY <2>1
  <2>2. CASE pc[d] = "commit" /\ CommitWrites(d) BY <2>2, CommitServes
  <2> QED BY <1>1, <2>1, <2>2
<1>12. \A e \in Dispatchers \ {d} : pc'[e] = pc[e] /\ clear'[e] = clear[e]
  BY <1>1 DEF IInv, TypeOK
<1> QED BY <1>1, <1>6, <1>7, <1>9, <1>10, <1>11, <1>12, StepApart DEF HoldsAt

LEMMA FailApart ==
  ASSUME IInv, ApartInv, NEW d \in Dispatchers, Fail(d), Recorded PROVE ApartInv'
<1>1. EndItem(d, TRUE) /\ UNCHANGED <<pubDone, rowDone, pushJobs>>
  BY DEF Fail
<1>2. Served' BY <1>1, ServedKept
<1>3. \A op \in notified[d] \ shared : KindOf[op] = "message" /\ op \notin pushJobs =>
        \E i \in PublicationsOf(op) : i \notin pubDone' /\ (i \notin batch[d] \/ i = cur[d])
  BY <1>1 DEF ApartInv, HoldsAt, KeptOpenAt
<1> QED BY <1>1, <1>2, <1>3, EndItemApart

\* markFailed throws, or the worker starts again: notified starts again as well.
LEMMA AbandonApart ==
  ASSUME IInv, ApartInv, NEW d \in Dispatchers, FailThrows(d) \/ Restart(d), Recorded
  PROVE  ApartInv'
<1>1. /\ pc' = [pc EXCEPT ![d] = "idle"] /\ batch' = [batch EXCEPT ![d] = {}]
      /\ cur' = [cur EXCEPT ![d] = None] /\ clear' = [clear EXCEPT ![d] = FALSE]
      /\ notified' = [notified EXCEPT ![d] = {}] /\ UNCHANGED <<pubDone, rowDone, pushJobs>>
  BY DEF FailThrows, Restart, Abandon, tableVars
<1>2. pc'[d] = "idle" /\ batch'[d] = {} /\ notified'[d] = {} BY <1>1 DEF IInv, TypeOK
<1>3. HoldsAt(d)' BY <1>2 DEF HoldsAt, FreshAt, ToldAt, KeptOpenAt, LastIsSeenAt
<1>4. Served' BY <1>1, ServedKept
<1>5. \A e \in Dispatchers \ {d} :
        /\ pc'[e] = pc[e] /\ batch'[e] = batch[e] /\ cur'[e] = cur[e]
        /\ notified'[e] = notified[e] /\ clear'[e] = clear[e]
  BY <1>1 DEF IInv, TypeOK
<1> QED BY <1>1, <1>3, <1>4, <1>5, StepApart

\* Whoever leaves the dispatchers alone and completes no conversation's row.
LEMMA OthersApart ==
  ASSUME ApartInv, UNCHANGED <<pubDone, pushJobs, dispatcherVars, shared>>,
         \A op \in rowDone : IsConversation(op) => op \in rowDone'
  PROVE  ApartInv'
<1>1. ASSUME NEW d \in Dispatchers PROVE HoldsAt(d)'
  <2>1. HoldsAt(d) BY DEF ApartInv
  <2>2. FreshAt(d)' /\ ToldAt(d)' /\ LastIsSeenAt(d)'
    BY <2>1 DEF HoldsAt, FreshAt, ToldAt, LastIsSeenAt, dispatcherVars, PublicationsOf
  <2>3. KeptOpenAt(d)' BY <2>1 DEF HoldsAt, KeptOpenAt, dispatcherVars, PublicationsOf
  <2> QED BY <2>2, <2>3 DEF HoldsAt
<1>2. Served' BY DEF ApartInv, Served, PublicationsOf
<1>3. Overlapping' = Overlapping BY DEF Overlapping, dispatcherVars
<1> QED BY <1>1, <1>2, <1>3 DEF ApartInv

LEMMA JobStepsApart ==
  ASSUME PipelineInv, ApartInv, NEW d \in JobDispatchers, JobStep(d) \/ JobFault(d)
  PROVE  ApartInv'
<1>1. UNCHANGED <<pubDone, pushJobs, dispatcherVars, shared>>
  BY DEF JobStep, JobFault, realtimeVars, JobAdvance, JobMisfortune, JobClaim, EnqueueOk,
         JobMark, JobFail, EnqueueFails, JobMarkFails, JobAbandon, tableVars
<1>2. ASSUME NEW op \in rowDone, IsConversation(op) PROVE op \in rowDone'
  <2>1. CASE JobFail(d)
    <3>1. job[d] \in DOMAIN claims[d] BY <2>1 DEF JobFail, PipelineInv, JobInv, AtHand
    <3>2. IsJob(job[d]) BY <3>1 DEF PipelineInv, JobInv, ClaimsT
    <3>3. op # job[d] BY <1>2, <3>2 DEF IsJob, IsConversation
    <3> QED BY <2>1, <3>3 DEF JobFail
  <2>2. CASE ~JobFail(d)
    BY <2>2 DEF JobStep, JobFault, JobAdvance, JobMisfortune, JobClaim, EnqueueOk, JobMark,
                EnqueueFails, JobMarkFails, JobAbandon, tableVars
  <2> QED BY <2>1, <2>2
<1> QED BY <1>1, <1>2, OthersApart

\* Every step keeps it, so it always holds.
LEMMA NextApart == PipelineInv /\ ApartInv /\ [PipelineNext]_allVars => ApartInv'
<1> SUFFICES ASSUME PipelineInv, ApartInv, [PipelineNext]_allVars PROVE ApartInv'
  OBVIOUS
<1>1. CASE PipelineTables \/ UNCHANGED allVars
  <2>1. UNCHANGED <<pubDone, rowDone, pushJobs, dispatcherVars, shared>>
    BY <1>1 DEF PipelineTables, TablesStep, Record, BecomesAvailable, realtimeVars, allVars,
                tableVars
  <2> QED BY <2>1, OthersApart
<1>2. ASSUME NEW d \in Dispatchers, Advance(d) \/ Misfortune(d) PROVE ApartInv'
  BY <1>2, ClaimApart, PublishApart, PushApart, StatementsApart, MarkRowItemApart, CommitApart,
     MarkFailsApart, FailApart, AbandonApart
  DEF Advance, Misfortune, PipelineInv
<1>3. CASE \E d \in JobDispatchers : JobStep(d) \/ JobFault(d) BY <1>3, JobStepsApart
<1> QED BY <1>1, <1>2, <1>3 DEF PipelineNext, RealtimeAdvance, RealtimeMisfortune

LEMMA ApartInvariant == PipelineSpec => []ApartInv
  BY InitApart, NextApart, PipelineInvariant, PTL DEF PipelineSpec

\* The realtime dispatchers, the job dispatchers and their table keep their types, and
\* the history holds operations.
THEOREM PipelineTypeCorrect == PipelineSpec => []PipelineTypeOK
<1>1. PipelineInv /\ ApartInv => PipelineTypeOK
  BY DEF PipelineInv, IInv, TypeOK, JobInv, AttemptsT, QueueT, PlacesT, ClaimsT, ApartInv,
         PipelineTypeOK, JobTypeOK
<1> QED BY <1>1, PipelineInvariant, ApartInvariant, PTL

\* However many dispatchers run, a message all of whose channels are completed has its
\* push job, unless two of them held channels of it at the same moment: a callback that
\* failed leaves a channel open that its batch, though it takes the operation for
\* notified, does not complete.
THEOREM MessagesAreAnnounced == PipelineSpec => []DoneMeansPushEnqueued
<1>1. PipelineInv /\ ApartInv => DoneMeansPushEnqueued
  BY DEF PipelineInv, IInv, TypeOK, TablesTypeOK, ApartInv, Served, DoneMeansPushEnqueued,
         IsConversation
<1> QED BY <1>1, PipelineInvariant, ApartInvariant, PTL

\* However many dispatchers run, a conversation whose channels are all completed has a
\* completed row, unless two of them held channels of it at the same moment.
THEOREM ServedRowsAreCompleted == PipelineSpec => []AllServedMeansRowDone
<1>1. PipelineInv /\ ApartInv => AllServedMeansRowDone
  BY DEF PipelineInv, IInv, TypeOK, TablesTypeOK, ApartInv, Served, AllServedMeansRowDone
<1> QED BY <1>1, PipelineInvariant, ApartInvariant, PTL
=============================================================================
