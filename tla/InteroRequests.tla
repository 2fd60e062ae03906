---------------------------- MODULE InteroRequests ----------------------------
(***************************************************************************)
(* One mention of @Intero in a Room: the request it becomes, the worker's  *)
(* handler (apps/server-api/src/intero-request-service.ts), corrections of *)
(* its scope by people, and what the Room sees: one entry, and a           *)
(* coordination case with a child discussion when the evidence conflicts.  *)
(*                                                                         *)
(* A method of the pilot store is one transaction; so is an upsert of the  *)
(* entry.  Graphile Worker is external: the jobs of an organization run    *)
(* one at a time, one job for each scope revision, at most MaxAttempts     *)
(* times each; a worker may die between any two steps.                     *)
(***************************************************************************)
EXTENDS Naturals, FiniteSets

CONSTANTS
  MaxAttempts,   \* Graphile: executions of one job
  MaxRevision,   \* bound: scope revisions of the request
  MaxEvidence,   \* bound: versions of the evidence, 0 when it does not conflict
  MayWithdraw,   \* the mention may become unreadable
  MaxTroubles    \* bound: failing calls, dead workers, rows enqueued twice

\* What the modules that instantiate this one assume of its constants.
RequestAssumption ==
  /\ MaxAttempts \in Nat \ {0} /\ MaxRevision \in Nat \ {0}
  /\ MaxEvidence \in Nat /\ MaxTroubles \in Nat

Revisions == 1 .. MaxRevision

VARIABLES
  status, rev, scope,   \* the request: status, scopeRevision, scopeResolution
  evidence, readable,   \* the conflicting evidence there is; the source exists
  foreign,              \* evidence for which another mention or checkpoint opened the case
  entry,                \* the Room's entry: what it shows and for which revision
  cases, discussions, links,  \* opened cases; those with a discussion; those linked
  row,                  \* each revision's outbox row
  queue, attempt,       \* each revision's Graphile job
  pc, ref, seen,        \* the handler: step, revision, evidence it read
  troubles,
  lost,                 \* history: it stopped without saying so in the status
  elsewhere             \* history: the conflict was last discussed where its Room does not show it

request == <<status, rev, scope>>
outside == <<evidence, readable, foreign>>
room == <<entry, cases, discussions, links>>
graphile == <<queue, attempt>>
history == <<lost, elsewhere>>
vars == <<request, outside, room, row, graphile, pc, ref, seen, troubles, history>>

NoEntry == [kind |-> "none", rev |-> 0]

\* createInteroRequest, whose transaction inserts the outbox row.
Init ==
  /\ status = "pending" /\ rev = 1 /\ scope = "none"
  /\ evidence \in 0 .. MaxEvidence /\ readable = TRUE /\ foreign = {}
  /\ entry = NoEntry /\ cases = {} /\ discussions = {} /\ links = {}
  /\ row = [r \in Revisions |-> IF r = 1 THEN "open" ELSE "none"]
  /\ queue = [r \in Revisions |-> "none"] /\ attempt = [r \in Revisions |-> 0]
  /\ pc = "idle" /\ ref = 0 /\ seen = 0
  /\ troubles = 0 /\ lost = FALSE /\ elsewhere = FALSE

Trouble == troubles < MaxTroubles /\ troubles' = troubles + 1
NoTrouble == UNCHANGED troubles

-----------------------------------------------------------------------------
(* The store.                                                              *)

\* persistInteroRequests: a pending request reopens the row of its revision, a
\* settled one completes it.
Persisted(s, n) ==
  row' = CASE s = "pending" -> [row EXCEPT ![n] = "open"]
           [] s \in {"answered", "failed"} -> [row EXCEPT ![n] = "done"]
           [] OTHER -> row

\* updateInteroRequestIfCurrent.
UpdateIfCurrent(expected, s, resolved) ==
  /\ rev = ref /\ status \in expected
  /\ status' = s /\ scope' = resolved /\ UNCHANGED rev
  /\ Persisted(s, rev)

Refused(expected) == (rev # ref \/ status \notin expected) /\ UNCHANGED <<request, row>>

\* Any other transaction of the pilot store saves this request too.
Touch ==
  /\ status = "pending" /\ row[rev] = "done"
  /\ Persisted(status, rev)
  /\ UNCHANGED <<request, outside, room, graphile, pc, ref, seen, troubles, history>>

\* Fault variant: the scope may be corrected while the request is handled.
CorrectableLate == status # "answered"

\* reviseInteroRequestScope.
Correctable == status \in {"needs_scope", "pending"}

Correct ==
  /\ Correctable /\ rev < MaxRevision
  /\ rev' = rev + 1 /\ scope' = "set" /\ status' = "pending"
  /\ Persisted("pending", rev + 1)
  /\ UNCHANGED <<outside, room, graphile, pc, ref, seen, troubles, history>>

\* A Work State's claims change.
EvidenceChanges ==
  /\ evidence < MaxEvidence
  /\ evidence' = evidence + 1
  /\ UNCHANGED <<request, readable, foreign, room, row, graphile, pc, ref, seen, troubles, history>>

\* The mention is deleted, or the Room is not readable for Agents any more.
Withdraw ==
  /\ MayWithdraw /\ readable
  /\ readable' = FALSE
  /\ UNCHANGED <<request, evidence, foreign, room, row, graphile, pc, ref, seen, troubles, history>>

\* Another mention, or the publication of a checkpoint, opens the case of this
\* evidence first, with an entry and a Room of its own.
OtherOpens ==
  /\ evidence \notin foreign /\ \A c \in cases : c.ev # evidence
  /\ evidence # 0
  /\ foreign' = foreign \union {evidence}
  /\ UNCHANGED <<request, evidence, readable, room, row, graphile, pc, ref, seen, troubles,
                 history>>

-----------------------------------------------------------------------------
(* The dispatcher and Graphile.                                            *)

\* The job is enqueued and its row completed, or the dispatcher stops between.
Dispatch(r) ==
  /\ row[r] = "open"
  /\ queue' = [queue EXCEPT ![r] = IF @ = "none" THEN "ready" ELSE @]
  /\ attempt' = [attempt EXCEPT ![r] = IF queue[r] = "none" THEN 0 ELSE @]
  /\ \/ row' = [row EXCEPT ![r] = "done"] /\ NoTrouble
     \/ UNCHANGED row /\ Trouble
  /\ UNCHANGED <<request, outside, room, pc, ref, seen, history>>

\* Fault variant: a job that is dead is started again.
StartDead(r) ==
  /\ queue[r] \in {"ready", "dead"} /\ pc = "idle"
  /\ queue' = [queue EXCEPT ![r] = "running"]
  /\ attempt' = [attempt EXCEPT ![r] = @ + 1]
  /\ pc' = "begin" /\ ref' = r /\ seen' = 0
  /\ UNCHANGED <<request, outside, room, row, troubles, history>>

Start(r) ==
  /\ queue[r] = "ready" /\ pc = "idle"
  /\ queue' = [queue EXCEPT ![r] = "running"]
  /\ attempt' = [attempt EXCEPT ![r] = @ + 1]
  /\ pc' = "begin" /\ ref' = r /\ seen' = 0
  /\ UNCHANGED <<request, outside, room, row, troubles, history>>

Goes(step) == pc' = step /\ UNCHANGED <<graphile, ref, seen>>

Ends(state) ==
  /\ queue' = [queue EXCEPT ![ref] = state]
  /\ pc' = "idle" /\ ref' = 0 /\ seen' = 0 /\ UNCHANGED attempt

Returns == Ends("none")
Throws == Ends(IF attempt[ref] < MaxAttempts THEN "ready" ELSE "dead")

\* The request stays taken when its handler is gone.
Lost == lost' = (lost \/ (status = "coordinating" /\ rev = ref)) /\ UNCHANGED elsewhere

Kill ==
  /\ pc # "idle" /\ Trouble
  /\ Throws /\ Lost
  /\ UNCHANGED <<request, outside, room, row>>

-----------------------------------------------------------------------------
(* The handler.  Inside its try a failing call goes to the catch.          *)

Unmoved == UNCHANGED <<request, room, row>>
Caught == Goes("catch") /\ Trouble

\* A step that calls the store: it works, fails, or works and reports an error.
Call(Effect, then) ==
  \/ Effect /\ Goes(then) /\ NoTrouble
  \/ (Effect \/ Unmoved) /\ Caught

\* Only a pending or failed request of this revision is handled.
Begin ==
  /\ pc = "begin"
  /\ \/ rev = ref /\ status \in {"pending", "failed"} /\ Goes("read") /\ NoTrouble
     \/ (rev # ref \/ status \notin {"pending", "failed"}) /\ Returns /\ NoTrouble
     \/ Throws /\ Trouble
  /\ Unmoved /\ UNCHANGED <<outside, history>>

\* Rooms, Projects and claims; the scope the request has, or the one resolved
\* from the message.
Read ==
  /\ pc = "read"
  /\ \/ /\ readable /\ NoTrouble
        /\ seen' = evidence
        /\ pc' \in CASE scope = "none" -> {"ask", "own"}
                     [] scope = "ambiguous" -> {"ask"}
                     [] scope = "set" -> {"own"}
        /\ UNCHANGED <<graphile, ref>>
     \/ ~readable /\ Goes("catch") /\ NoTrouble
     \/ Caught
  /\ Unmoved /\ UNCHANGED <<outside, history>>

\* writeScopeQuestion: the status first, then the entry if nobody has corrected
\* the scope.
Ask ==
  /\ pc = "ask"
  /\ \/ /\ UpdateIfCurrent({"pending", "failed"}, "needs_scope", "ambiguous")
        /\ \/ Goes("question") /\ NoTrouble
           \/ Caught
     \/ Refused({"pending", "failed"}) /\ Returns /\ NoTrouble
     \/ UNCHANGED <<request, row>> /\ Caught
  /\ UNCHANGED <<room, outside, history>>

Question ==
  /\ pc = "question"
  /\ \/ rev = ref /\ Goes("putQuestion") /\ NoTrouble
     \/ rev # ref /\ Returns /\ NoTrouble
     \/ Caught
  /\ Unmoved /\ UNCHANGED <<outside, history>>

Put(kind) ==
  entry' = [kind |-> kind, rev |-> ref] /\ UNCHANGED <<cases, discussions, links>>

PutQuestion ==
  /\ pc = "putQuestion"
  /\ \/ Put("question") /\ Returns /\ NoTrouble
     \/ (Put("question") \/ UNCHANGED room) /\ Caught
  /\ UNCHANGED <<request, row, outside, history>>

\* The request is taken; the prose may come from the model or a template.
Own ==
  /\ pc = "own"
  /\ \/ /\ UpdateIfCurrent({"pending", "failed"}, "coordinating", "set")
        /\ \/ Goes(IF seen = 0 THEN "answer" ELSE "open") /\ NoTrouble
           \/ Caught
     \/ Refused({"pending", "failed"}) /\ Returns /\ NoTrouble
     \/ UNCHANGED <<request, row>> /\ Caught
  /\ UNCHANGED <<room, outside, history>>

\* writeBoundedAnswer.
Answer ==
  /\ pc = "answer"
  /\ \/ rev = ref /\ Call(Put("answer") /\ UNCHANGED <<request, row>>, "close")
     \/ rev # ref /\ Returns /\ Unmoved /\ NoTrouble
  /\ UNCHANGED <<outside, history>>

Case == [rev |-> ref, ev |-> seen]

\* openScopedCoordination: one case for the same scope and claims; one that
\* another opened keeps its source message.
OpenCase ==
  /\ pc = "open"
  /\ \/ rev = ref /\ Call(cases' = (IF seen \in foreign THEN cases ELSE cases \union {Case})
                          /\ UNCHANGED <<entry, discussions, links, request, row>>, "discuss")
     \/ rev # ref /\ Returns /\ Unmoved /\ NoTrouble
  /\ UNCHANGED <<outside, history>>

Discussed(there) == elsewhere' = there /\ UNCHANGED <<outside, lost>>

\* The kernel: the child discussion, the entry, the link between them, each
\* only while the revision is current.  A linked case only updates its entry.
Discuss ==
  /\ pc = "discuss"
  /\ \/ /\ rev = ref /\ Case \in links
        /\ Goes("putCase") /\ Unmoved /\ NoTrouble /\ Discussed(FALSE)
     \/ /\ rev = ref /\ seen \notin foreign /\ Case \notin links
        /\ Call(discussions' = discussions \union {Case}
                /\ UNCHANGED <<entry, cases, links, request, row>>, "putCase")
        /\ Discussed(FALSE)
     \/ /\ rev # ref /\ Goes("close") /\ Unmoved /\ NoTrouble
        /\ UNCHANGED <<outside, history>>

\* A case of another's is discussed and shown where that one was opened; and when
\* the owner of the first claim, who may leave the Room and join it at any moment,
\* is not in it there is nowhere to discuss the case.  Either way the kernel
\* returns without an error, and the request will be closed.
DiscussElsewhere ==
  /\ pc = "discuss" /\ rev = ref
  /\ \/ seen \in foreign /\ Call(Unmoved, "close")
     \/ seen \notin foreign /\ Case \notin links
        /\ Goes("close") /\ Unmoved /\ NoTrouble
  /\ Discussed(TRUE)

\* Fault variant: an entry that could not be written is not missed.
PutCaseSilently ==
  /\ pc = "putCase"
  /\ \/ Put("case") /\ UNCHANGED <<request, row>> /\ Goes("link") /\ NoTrouble
     \/ Unmoved /\ Goes("link") /\ Trouble
  /\ UNCHANGED <<outside, history>>

PutCase ==
  /\ pc = "putCase"
  /\ \/ rev = ref /\ Call(Put("case") /\ UNCHANGED <<request, row>>, "link")
     \/ rev # ref /\ Goes("close") /\ Unmoved /\ NoTrouble
  /\ UNCHANGED <<outside, history>>

Link ==
  /\ pc = "link"
  /\ \/ rev = ref /\ Call(links' = links \union {Case}
                          /\ UNCHANGED <<entry, cases, discussions, request, row>>, "close")
     \/ rev # ref /\ Goes("close") /\ Unmoved /\ NoTrouble
  /\ UNCHANGED <<outside, history>>

Close ==
  /\ pc = "close"
  /\ \/ /\ UpdateIfCurrent({"coordinating"}, "answered", "set")
        /\ \/ Returns /\ NoTrouble
           \/ Caught
     \/ Refused({"coordinating"}) /\ Returns /\ NoTrouble
     \/ UNCHANGED <<request, row>> /\ Caught
  /\ UNCHANGED <<room, outside, history>>

\* Fault variant: a request that was taken is not failed.
FailableFromPending == {"pending"}
Failable == {"pending", "coordinating"}

\* The catch, which rethrows.
Catch ==
  /\ pc = "catch"
  /\ \/ UpdateIfCurrent(Failable, "failed", scope) /\ NoTrouble /\ UNCHANGED history
     \/ Refused(Failable) /\ NoTrouble /\ UNCHANGED history
     \/ UNCHANGED <<request, row>> /\ Trouble /\ Lost
  /\ Throws
  /\ UNCHANGED <<room, outside>>

-----------------------------------------------------------------------------
Handle ==
  \/ Begin \/ Read \/ Ask \/ Question \/ PutQuestion \/ Own \/ Answer
  \/ OpenCase \/ Discuss \/ DiscussElsewhere \/ PutCase \/ Link \/ Close \/ Catch

Next ==
  \/ Handle \/ Kill \/ Touch \/ Correct \/ EvidenceChanges \/ Withdraw \/ OtherOpens
  \/ \E r \in Revisions : Dispatch(r) \/ Start(r)

Spec == Init /\ [][Next]_vars

\* The dispatch loop runs, Graphile starts what is ready, calls return.
Fairness ==
  /\ WF_vars(Handle)
  /\ \A r \in Revisions : WF_vars(Dispatch(r)) /\ SF_vars(Start(r))

FairSpec == Spec /\ Fairness

-----------------------------------------------------------------------------
Statuses == {"pending", "needs_scope", "coordinating", "answered", "failed"}
Cases == [rev : Revisions, ev : 1 .. MaxEvidence]
Steps == {"idle", "begin", "read", "ask", "question", "putQuestion", "own", "answer",
          "open", "discuss", "putCase", "link", "close", "catch"}

\* Every variable ranges over what its column or variable can hold.
RequestTypeOK ==
  /\ status \in Statuses /\ rev \in Revisions /\ scope \in {"none", "ambiguous", "set"}
  /\ evidence \in 0 .. MaxEvidence /\ readable \in BOOLEAN
  /\ foreign \subseteq 1 .. MaxEvidence
  /\ entry \in [kind : {"none", "question", "answer", "case"}, rev : 0 .. MaxRevision]
  /\ cases \subseteq Cases /\ discussions \subseteq cases /\ links \subseteq discussions
  /\ row \in [Revisions -> {"none", "open", "done"}]
  /\ queue \in [Revisions -> {"none", "ready", "running", "dead"}]
  /\ attempt \in [Revisions -> 0 .. MaxAttempts]
  /\ pc \in Steps /\ ref \in 0 .. MaxRevision /\ seen \in 0 .. MaxEvidence
  /\ troubles \in 0 .. MaxTroubles /\ lost \in BOOLEAN /\ elsewhere \in BOOLEAN

\* Every case is one of the scope people settled on: no job of an earlier
\* revision opens one, and no correction leaves one behind.
CasesAreCurrent == \A c \in cases : c.rev = rev

\* An answered request shows its answer, or its linked case, for the revision
\* it has, unless the kernel had just discussed the conflict elsewhere: whatever
\* attempts failed between case, discussion, entry and link, and whoever left the
\* Room or opened the same case between two attempts.
AnsweredIsShown ==
  status = "answered" /\ ~elsewhere =>
    /\ entry.rev = rev /\ entry.kind \in {"answer", "case"}
    /\ entry.kind = "case" => links # {}

\* Once it is answered, late attempts and corrections change neither the
\* request nor what it shows.
AnsweredIsFinal == [][status = "answered" => UNCHANGED <<request, cases, entry>>]_vars

\* With fewer troubles than attempts a request is answered, waits for a person
\* or has failed for good with its source, unless its handler died or its catch
\* failed after it had taken the request.
EventuallyClosed ==
  []<>(lost \/ status \in {"answered", "needs_scope"} \/ (status = "failed" /\ ~readable))

\* A request that waits for its scope has asked for it.  The code does not keep
\* this, nor the next three: the README says when.
QuestionIsAsked ==
  status = "needs_scope" /\ row[rev] = "done" /\ queue[rev] \in {"none", "dead"}
    => entry.kind = "question"

\* A request that was taken is being handled, or will be again.
NeverAbandoned ==
  status = "coordinating" => pc # "idle"

\* Every answered request shows something in its Room.
NoSilentAnswer == status = "answered" => entry.rev = rev /\ entry.kind \in {"answer", "case"}

\* A request opens at most one case.
OneCase == Cardinality(cases) <= 1
=============================================================================
