---------------------------- MODULE AgentOutbox ----------------------------
(***************************************************************************)
(* The coding agent's outbox (apps/mcp-stdio/src/cloud-client.ts): one     *)
(* encrypted file of checkpoints that could not be sent, which every MCP   *)
(* or CLI process of a workspace's client reads and rewrites as a whole.   *)
(* A call first flushes the file, then sends its own checkpoint and queues *)
(* it when that fails.  A process runs other calls while one awaits a      *)
(* response; an operation on the file is synchronous, so only another      *)
(* process comes between its load and its save.                            *)
(*                                                                         *)
(* A checkpoint is the call that reports it.  Events are of one size, so   *)
(* the byte limit is the event limit.  fetch and the server are external:  *)
(* a request may fail before or after the server has accepted it.          *)
(***************************************************************************)
EXTENDS Naturals, FiniteSets, Sequences, SequencesExt

CONSTANTS
  Calls,         \* reportCheckpoint and projectRequest calls
  Reports,       \* those that report a checkpoint
  Terminal,      \* checkpoints that end, block or decide work
  Rejected,      \* checkpoints the server refuses for good
  ProcessOf,     \* the process that runs a call
  Torn,          \* the file while and after it is cut short
  MaxEvents,     \* the limit of the outbox
  MaxFailures,   \* bound: requests that fail
  MaxKills       \* bound: killed processes

AgentOutboxAssumption ==
  /\ Reports \subseteq Calls /\ Rejected \subseteq Reports /\ Terminal \subseteq Reports
  /\ Torn \notin [q : Seq(Reports), gaps : SUBSET Reports]
  /\ MaxEvents \in Nat \ {0} /\ MaxFailures \in Nat /\ MaxKills \in Nat

VARIABLES
  file,       \* the outbox file: queued events and those its gap markers count
  pc, cur,    \* each call: where it is, the queued event it sends
  buffer,     \* each call: what it is about to save
  accepted,   \* server: checkpoints it has taken, by their client event id
  old,        \* queued events past the age limit
  queued,     \* history: checkpoints answered "queued", oldest first
  stolen,     \* history: checkpoints that a shift took off though another was sent
  raced,      \* history: a process read the file while another was saving it
  failures, kills

calls == <<pc, cur, buffer>>
vars == <<file, calls, accepted, old, queued, stolen, raced, failures, kills>>

Empty == [q |-> <<>>, gaps |-> {}]

Init ==
  /\ file = Empty
  /\ pc = [c \in Calls |-> "idle"]
  /\ cur = [c \in Calls |-> c]
  /\ buffer = [c \in Calls |-> Empty]
  /\ accepted = {} /\ old = {} /\ queued = <<>>
  /\ stolen = {} /\ raced = FALSE
  /\ failures = 0 /\ kills = 0

-----------------------------------------------------------------------------
(* The outbox's operations on a loaded state.                              *)

Events(s) == ToSet(s.q)

\* Fault variant: an event never gets too old.
PrunedNever(s) == s

\* The events of a queue that are not too old, in its order.
Kept(q) ==
  LET left == {i \in DOMAIN q : q[i] \notin old}
      Nth(k) == CHOOSE i \in left : Cardinality({j \in left : j <= i}) = k
  IN  [k \in 1 .. Cardinality(left) |-> q[Nth(k)]]

Pruned(s) ==
  [q |-> Kept(s.q), gaps |-> s.gaps \union (Events(s) \cap old)]

\* Fault variant: the overflow check runs before the push.
EnqueuedUnbounded(s, e) == [Pruned(s) EXCEPT !.q = Append(@, e)]

\* Fault variant: what overflows leaves no gap marker.
EnqueuedSilently(s, e) ==
  LET p == Pruned(s)
      q == Append(p.q, e)
  IN  [p EXCEPT !.q = IF Len(q) > MaxEvents THEN Tail(q) ELSE q]

\* Fault variant: the newest event goes first.
EnqueuedFirst(s, e) ==
  LET p == Pruned(s)
      q == <<e>> \o p.q
  IN  IF Len(q) > MaxEvents THEN [q |-> Front(q), gaps |-> p.gaps \union {Last(q)}]
      ELSE [p EXCEPT !.q = q]

\* enqueue: prune, push, and drop the oldest events over the limit.
Enqueued(s, e) ==
  LET p == Pruned(s)
      q == Append(p.q, e)
  IN  IF Len(q) > MaxEvents THEN [q |-> Tail(q), gaps |-> p.gaps \union {Head(q)}]
      ELSE [p EXCEPT !.q = q]

Shifted(s) == IF s.q = <<>> THEN s ELSE [s EXCEPT !.q = Tail(@)]

-----------------------------------------------------------------------------
(* Steps of a call.                                                        *)

Saving == {"pruning", "shifting", "queueing"}
Writing == {"pruneWrite", "shiftWrite", "queueWrite"}
Over == {"idle", "done", "failed", "dead"}

Goto(c, label) == pc' = [pc EXCEPT ![c] = label]
ToSave(c, label, s) == Goto(c, label) /\ buffer' = [buffer EXCEPT ![c] = s]

\* The process of the call is not inside another call's file operation.
Runs(c) ==
  \A d \in Calls \ {c} : ProcessOf[d] = ProcessOf[c] => pc[d] \notin Saving \union Writing \union {"size"}

\* The call loads the file: nothing keeps it from another process's save.
Loads(c) ==
  raced' = (raced \/ \E d \in Calls : ProcessOf[d] # ProcessOf[c] /\ pc[d] \in Saving \union Writing)

Begin(c) ==
  /\ pc[c] = "idle" /\ Runs(c)
  /\ Goto(c, "peek")
  /\ UNCHANGED <<file, cur, buffer, accepted, old, queued, stolen, raced, failures, kills>>

\* The head of the pruned state is sent; without one the flush is over.
SendFirst(c, s) ==
  IF s.q = <<>> THEN Goto(c, "size") /\ UNCHANGED cur
  ELSE Goto(c, "sending") /\ cur' = [cur EXCEPT ![c] = Head(s.q)]

\* peek loads and prunes, and saves only what the pruning changed.
Peek(c) ==
  /\ pc[c] = "peek" /\ Runs(c)
  /\ \/ file = Torn /\ Goto(c, "failed") /\ UNCHANGED <<cur, buffer>>
     \/ /\ file # Torn /\ Pruned(file) = file
        /\ SendFirst(c, file) /\ UNCHANGED buffer
     \/ /\ file # Torn /\ Pruned(file) # file
        /\ ToSave(c, "pruning", Pruned(file)) /\ UNCHANGED cur
  /\ Loads(c)
  /\ UNCHANGED <<file, accepted, old, queued, stolen, failures, kills>>

\* The request of the flush, then the call's own.
ServerAccepts(c) ==
  \/ /\ pc[c] = "sending" /\ cur[c] \notin Rejected
     /\ accepted' = accepted \union {cur[c]} /\ Goto(c, "sent")
  \/ /\ pc[c] = "own" /\ c \notin Rejected
     /\ accepted' = accepted \union {c} /\ Goto(c, "ownSent")

Accept(c) ==
  /\ ServerAccepts(c)
  /\ UNCHANGED <<file, cur, buffer, old, queued, stolen, raced, failures, kills>>

\* The response of the flush's request: shift loads the file again, and takes
\* off whatever is its head by now.
HeadSent(c) ==
  /\ pc[c] = "sent" /\ Runs(c) /\ Loads(c)
  /\ \/ file = Torn /\ Goto(c, "size") /\ UNCHANGED <<buffer, stolen>>
     \/ /\ file # Torn /\ ToSave(c, "shifting", Shifted(file))
        /\ stolen' = stolen \union {e \in Events(file) : e = Head(file.q) /\ e # cur[c]}
  /\ UNCHANGED <<file, cur, accepted, old, queued, failures, kills>>

OwnSent(c) ==
  /\ pc[c] = "ownSent" /\ Runs(c)
  /\ Goto(c, "done")
  /\ UNCHANGED <<file, cur, buffer, accepted, old, queued, stolen, raced, failures, kills>>

\* A refusal, or a request or response that is lost.
Fails(c, e) ==
  \/ e \in Rejected /\ UNCHANGED failures
  \/ e \notin Rejected /\ failures < MaxFailures /\ failures' = failures + 1

HeadFails(c) ==
  /\ pc[c] \in {"sending", "sent"} /\ Runs(c)
  /\ Fails(c, cur[c])
  /\ Goto(c, "size")
  /\ UNCHANGED <<file, cur, buffer, accepted, old, queued, stolen, raced, kills>>

\* The flush counts what is left before it returns; projectRequest is over.
Size(c) ==
  /\ pc[c] = "size" /\ Loads(c)
  /\ Goto(c, IF file = Torn THEN "failed" ELSE IF c \in Reports THEN "own" ELSE "idle")
  /\ UNCHANGED <<file, cur, buffer, accepted, old, queued, stolen, failures, kills>>

\* Its own request fails: the catch queues the checkpoint.
OwnFails(c) ==
  /\ pc[c] \in {"own", "ownSent"} /\ Runs(c) /\ Loads(c)
  /\ Fails(c, c)
  /\ IF file = Torn THEN Goto(c, "failed") /\ UNCHANGED buffer
     ELSE ToSave(c, "queueing", Enqueued(file, c))
  /\ UNCHANGED <<file, cur, accepted, old, queued, stolen, kills>>

\* writeFileSync: the file is cut, then written.
Cut(c) ==
  /\ pc[c] \in Saving
  /\ file' = Torn
  /\ Goto(c, CASE pc[c] = "pruning" -> "pruneWrite"
               [] pc[c] = "shifting" -> "shiftWrite"
               [] pc[c] = "queueing" -> "queueWrite")
  /\ UNCHANGED <<cur, buffer, accepted, old, queued, stolen, raced, failures, kills>>

Write(c) ==
  /\ pc[c] \in Writing
  /\ file' = buffer[c]
  /\ \/ pc[c] = "pruneWrite" /\ SendFirst(c, buffer[c]) /\ UNCHANGED queued
     \/ pc[c] = "shiftWrite" /\ Goto(c, "peek") /\ UNCHANGED <<cur, queued>>
     \/ pc[c] = "queueWrite" /\ Goto(c, "done") /\ queued' = Append(queued, c) /\ UNCHANGED cur
  /\ UNCHANGED <<buffer, accepted, old, stolen, raced, failures, kills>>

\* The age limit passes an event that is queued.
Expire(e) ==
  /\ e \in ToSet(queued) \ old
  /\ old' = old \union {e}
  /\ UNCHANGED <<file, calls, accepted, queued, stolen, raced, failures, kills>>

\* The agent ends its MCP process: the calls in it are gone.
Kill(c) ==
  /\ pc[c] \notin Over /\ kills < MaxKills
  /\ kills' = kills + 1
  /\ pc' = [d \in Calls |-> IF ProcessOf[d] # ProcessOf[c] \/ pc[d] \in Over THEN pc[d]
                            ELSE IF d \in Reports THEN "dead" ELSE "idle"]
  /\ UNCHANGED <<file, cur, buffer, accepted, old, queued, stolen, raced, failures>>

-----------------------------------------------------------------------------
Step(c) ==
  Begin(c) \/ Peek(c) \/ Accept(c) \/ HeadSent(c) \/ Size(c) \/ OwnSent(c) \/ Cut(c) \/ Write(c)

Next ==
  \E c \in Calls : Step(c) \/ HeadFails(c) \/ OwnFails(c) \/ Expire(c) \/ Kill(c)

Spec == Init /\ [][Next]_vars

\* Calls go on, a refusal is an answer too, the agent calls again, and what
\* the server refuses gets too old in the end.
Fairness ==
  \A c \in Calls :
    /\ WF_vars(Step(c))
    /\ c \in Rejected => WF_vars(Expire(c))
    /\ WF_vars((cur[c] \in Rejected /\ HeadFails(c)) \/ (c \in Rejected /\ OwnFails(c)))

FairSpec == Spec /\ Fairness

-----------------------------------------------------------------------------
Gaps == IF file = Torn THEN {} ELSE file.gaps
Before(d, e) == \E i, j \in DOMAIN queued : i < j /\ queued[i] = d /\ queued[j] = e

\* Every variable ranges over what the client can hold, and the file is bounded.
AgentTypeOK ==
  /\ file # Torn => Len(file.q) <= MaxEvents /\ Events(file) \subseteq Reports
  /\ pc \in [Calls -> Saving \union Writing \union Over
                      \union {"peek", "sending", "sent", "size", "own", "ownSent"}]
  /\ cur \in [Calls -> Calls] /\ accepted \subseteq Reports \ Rejected
  /\ old \subseteq ToSet(queued) /\ ToSet(queued) \subseteq Reports
  /\ stolen \subseteq Reports /\ raced \in BOOLEAN

\* A checkpoint answered "queued" is still queued, was taken by the server, or
\* is counted by a gap marker: none vanishes.  Overlapping calls do not keep it.
QueuedIsAccounted ==
  file # Torn => ToSet(queued) \subseteq Events(file) \union accepted \union file.gaps

\* Of any number of overlapping calls, only a shift that takes off another
\* checkpoint than was sent makes one vanish, and a report whose process lives
\* fails only when a process that died while it wrote has left a torn file;
\* until a process loads the file while another saves it.
ReportsAreTrue ==
  ~raced =>
    /\ file # Torn => ToSet(queued) \subseteq Events(file) \union accepted \union file.gaps \union stolen
    /\ \A c \in Reports : pc[c] = "failed" => file = Torn

\* And a flush delivers a checkpoint only once those that were queued before it
\* are delivered, counted by a gap marker or stolen.
FlushIsFIFO ==
  [][\A c \in Calls :
       pc[c] = "sending" /\ pc'[c] = "sent" /\ file # Torn /\ ~raced =>
         \A d \in Reports : Before(d, cur[c]) => d \in accepted \union Gaps \union stolen]_vars

\* What the server refuses leaves the queue with the answer.  The code does not
\* keep this, nor the next: the README says when.
RefusedIsDiscarded ==
  [][\A c \in Calls :
       pc[c] = "sending" /\ cur[c] \in Rejected /\ pc'[c] = "size" =>
         cur[c] \notin Events(file)]_vars

\* The limit evicts a terminal checkpoint only when nothing else is queued.
TerminalIsKept ==
  [][\A c \in Calls :
       pc[c] # "queueing" /\ pc'[c] = "queueing" =>
         LET evicted == buffer'[c].gaps \ Pruned(file).gaps
         IN  evicted \cap Terminal # {} => Events(Pruned(file)) \subseteq Terminal]_vars

\* What the server would take reaches it, or a gap marker, in the end, while
\* the agent keeps calling in one process and no torn file stays behind, unless
\* a shift steals it.
EventuallyAccounted ==
  \A e \in Reports \ Rejected :
    (e \in ToSet(queued)) ~> (e \in accepted \union Gaps \union stolen \/ [](file = Torn))
=============================================================================
