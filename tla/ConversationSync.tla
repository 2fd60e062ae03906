-------------------------- MODULE ConversationSync --------------------------
(***************************************************************************)
(* One Thread as the Web client renders it: the React Query cache, the     *)
(* repairs that change hints start (apps/web/src/realtime/sync.ts) and the *)
(* refetches of the whole Thread list, against the message log in          *)
(* PostgreSQL.  A request is three steps - sent, read by the server,       *)
(* answered - and any number of repairs run at once, so answers arrive in  *)
(* any order.  A message is its sequence, its content the revision; the    *)
(* tombstone of a deleted message is the last one.                         *)
(*                                                                         *)
(* Hints reach the client once: the outbox delivers each at least once     *)
(* and the coordinator drops event ids it has seen.                        *)
(***************************************************************************)
EXTENDS Naturals, FiniteSets, FiniteSetsExt, Functions

CONSTANTS
  NoCache,        \* the Thread list has not been loaded yet
  StartLoaded,    \* whether it is when the hints start
  PageLimit,      \* messages in one page of the cursor API
  MaxMessages,    \* bound: messages appended to the Thread
  MaxRevision,    \* bound: revisions of a message, 1 for no edits
  MaxDeletes,     \* bound: messages deleted
  MaxFaults,      \* bound: requests that fail
  MaxDrops,       \* bound: lost realtime connections
  MaxTouches      \* bound: refetches the views start on their own

SyncAssumption ==
  /\ NoCache \notin [seq : Nat, msgs : UNION {[S -> Nat] : S \in SUBSET (1 .. MaxMessages)}]
  /\ StartLoaded \in BOOLEAN
  /\ PageLimit \in Nat \ {0} /\ MaxMessages \in Nat /\ MaxRevision \in Nat \ {0}
  /\ MaxDeletes \in Nat /\ MaxFaults \in Nat /\ MaxDrops \in Nat /\ MaxTouches \in Nat

VARIABLES
  rev,       \* server: sequence -> revision; its domain is 1 .. head
  deleted,   \* server: the messages with deleted_at set
  hints,     \* change hints committed and not yet handled
  cache,     \* the cached Thread: [seq, msgs], or NoCache
  repairs,   \* repairConversationChange calls in progress
  list,      \* the Thread list request: [phase, data]
  live,      \* the realtime connection is up
  degraded,  \* the provider's status is not "live", so the list is polled
  faults, drops, touches,
  skipped    \* history: messages that an answer of the list older than them left out,
             \* or whose repair failed on a page, until an answer has them

vars == <<rev, deleted, hints, cache, repairs, list, live, degraded, faults, drops, touches, skipped>>
clientVars == <<cache, repairs, list, live, degraded, faults, drops, touches, skipped>>

head == Cardinality(DOMAIN rev)
\* What is left of a deleted message comes after every revision of it.
Tombstone == MaxRevision + 1
\* The Thread list holds tombstones; the cursor API and the pointer API do not.
Snapshot == [seq |-> head, msgs |-> rev]
Idle == [phase |-> "idle", data |-> NoCache]
Asked == [phase |-> "asked", data |-> NoCache]

Init ==
  /\ rev = <<>> /\ deleted = {} /\ hints = {} /\ repairs = {}
  /\ cache = IF StartLoaded THEN Snapshot ELSE NoCache
  /\ list = IF StartLoaded THEN Idle ELSE Asked
  /\ live = TRUE /\ degraded = FALSE
  /\ faults = 0 /\ drops = 0 /\ touches = 0 /\ skipped = {}

-----------------------------------------------------------------------------
(* The server: a committed append or revision and its hint.                *)

Append ==
  /\ head < MaxMessages
  /\ rev' = [s \in 1 .. head + 1 |-> IF s = head + 1 THEN 1 ELSE rev[s]]
  /\ hints' = hints \union {[seq |-> head + 1, rev |-> 1, head |-> head + 1]}
  /\ UNCHANGED <<deleted, clientVars>>

\* An edit or one more part of a streamed answer; the hint carries the head of
\* the Thread, not the sequence of the message.
Revise(s) ==
  /\ rev[s] < MaxRevision /\ s \notin deleted
  /\ rev' = [rev EXCEPT ![s] = @ + 1]
  /\ hints' = hints \union {[seq |-> s, rev |-> rev[s] + 1, head |-> head]}
  /\ UNCHANGED <<deleted, clientVars>>

Delete(s) ==
  /\ s \notin deleted /\ Cardinality(deleted) < MaxDeletes
  /\ deleted' = deleted \union {s}
  /\ rev' = [rev EXCEPT ![s] = Tombstone]
  /\ hints' = hints \union {[seq |-> s, rev |-> Tombstone, head |-> head]}
  /\ UNCHANGED clientVars

-----------------------------------------------------------------------------
(* The cache.                                                              *)

IsAppend(e) == e.rev = 1

\* What comes in replaces what is there.
Over(f, g) == [s \in DOMAIN f \union DOMAIN g |-> IF s \in DOMAIN f THEN f[s] ELSE g[s]]

\* Fault variant: the cached head counts the messages that come in.
MergedByCount(c, msgs, h) ==
  IF c = NoCache THEN c
  ELSE [seq |-> c.seq + Cardinality(DOMAIN msgs), msgs |-> Over(msgs, c.msgs)]

\* mergeThreadMessages.
Merged(c, msgs, h) ==
  IF c = NoCache THEN c
  ELSE [seq |-> Max({c.seq, h}), msgs |-> Over(msgs, c.msgs)]

Cursor(c) == Max({c.seq, 0} \union DOMAIN c.msgs)

\* invalidateQueries: a refetch in progress is cancelled and started anew,
\* except the very first, which has no data to fall back on.
Invalidate ==
  list' = IF list.phase = "idle" \/ cache # NoCache THEN Asked ELSE list

ListServed ==
  /\ list.phase = "asked"
  /\ list' = [phase |-> "served", data |-> Snapshot]
  /\ UNCHANGED <<rev, deleted, hints, cache, repairs, live, degraded, faults, drops, touches, skipped>>

\* A repair of a message the cache did not have is to come or under way.
UnderRepair(s) ==
  \/ \E e \in hints : IsAppend(e) /\ e.seq = s
  \/ \E r \in repairs : /\ IsAppend(r.event) /\ r.event.seq = s
                        /\ r.item # NoCache => s \notin DOMAIN r.item.msgs

\* The answer replaces the cache as a whole.
ListLands ==
  /\ list.phase = "served"
  /\ cache' = list.data
  /\ list' = Idle
  /\ skipped' = {s \in DOMAIN rev \ DOMAIN list.data.msgs : s \in skipped \/ ~UnderRepair(s)}
  /\ UNCHANGED <<rev, deleted, hints, repairs, live, degraded, faults, drops, touches>>

\* The two-second poll while the status is not "live".
Poll ==
  /\ degraded /\ list.phase = "idle"
  /\ list' = Asked
  /\ UNCHANGED <<rev, deleted, hints, cache, repairs, live, degraded, faults, drops, touches, skipped>>

\* A view invalidates the list: a read marker settled, a reaction, a focus.
Touch ==
  /\ touches < MaxTouches
  /\ touches' = touches + 1
  /\ Invalidate
  /\ UNCHANGED <<rev, deleted, hints, cache, repairs, live, degraded, faults, drops, skipped>>

-----------------------------------------------------------------------------
(* Repairs.  item is the cached Thread as read before the first await.     *)

Start(r) == repairs' = repairs \union {r}
Replace(r, s) == repairs' = (repairs \ {r}) \union {s}
Finish(r) == repairs' = repairs \ {r}

HandleHint(e) ==
  /\ live
  /\ hints' = hints \ {e}
  /\ Start([event |-> e, phase |-> "pointer", item |-> cache,
            from |-> 0, once |-> FALSE, got |-> <<>>, head |-> 0])
  /\ UNCHANGED <<rev, deleted, cache, list, live, degraded, faults, drops, touches, skipped>>

PointerServed(r) ==
  /\ r.phase = "pointer" /\ r.event.seq \notin deleted
  /\ Replace(r, [r EXCEPT !.phase = "pointerBack",
                          !.got = [s \in {r.event.seq} |-> rev[s]]])
  /\ UNCHANGED <<rev, deleted, hints, cache, list, live, degraded, faults, drops, touches, skipped>>

PointerLands(r) ==
  /\ r.phase = "pointerBack"
  /\ Finish(r)
  /\ IF r.item # NoCache
     THEN cache' = Merged(cache, r.got, r.event.head) /\ UNCHANGED list
     ELSE Invalidate /\ UNCHANGED cache
  /\ UNCHANGED <<rev, deleted, hints, live, degraded, faults, drops, touches, skipped>>

PageFrom(r, n, onlyOne) ==
  Replace(r, [r EXCEPT !.phase = "page", !.from = n, !.once = onlyOne, !.got = <<>>])

\* Fault variant: a hint at or below the cursor is taken for a duplicate.
SequenceRepairTrustsCursor(r) ==
  /\ IF r.item # NoCache /\ Cursor(r.item) < r.event.head
     THEN PageFrom(r, Cursor(r.item), FALSE) ELSE Finish(r)
  /\ UNCHANGED list

\* After a failed message request, whose error is swallowed: the sequence
\* repair, with the cursor of the item read before the request.
SequenceRepair(r) ==
  LET e == r.event
      before == Max({e.head, 1}) - 1
  IN  \/ /\ r.item = NoCache /\ IsAppend(e)
         /\ PageFrom(r, before, TRUE) /\ UNCHANGED list
      \/ /\ r.item = NoCache /\ ~IsAppend(e)
         /\ Finish(r) /\ Invalidate
      \/ /\ r.item # NoCache /\ Cursor(r.item) < e.head
         /\ PageFrom(r, Cursor(r.item), FALSE) /\ UNCHANGED list
      \/ /\ r.item # NoCache /\ Cursor(r.item) >= e.head
         /\ IF IsAppend(e) /\ e.head \notin DOMAIN r.item.msgs
            THEN PageFrom(r, before, TRUE) ELSE Finish(r)
         /\ UNCHANGED list

PointerFails(r) ==
  /\ r.phase \in {"pointer", "pointerBack"} /\ faults < MaxFaults
  /\ faults' = faults + 1
  /\ SequenceRepair(r)
  /\ UNCHANGED <<rev, deleted, hints, cache, live, degraded, drops, touches, skipped>>

\* 404: the message API does not know deleted messages.
PointerGone(r) ==
  /\ r.phase = "pointer" /\ r.event.seq \in deleted
  /\ SequenceRepair(r)
  /\ UNCHANGED <<rev, deleted, hints, cache, live, degraded, faults, drops, touches, skipped>>

PageOf(n) ==
  LET later == {s \in DOMAIN rev \ deleted : s > n}
  IN  {s \in later : Cardinality({t \in later : t < s}) < PageLimit}

PageServed(r) ==
  /\ r.phase = "page"
  /\ Replace(r, [r EXCEPT !.phase = "pageBack", !.head = head,
                          !.got = Restrict(rev, PageOf(r.from))])
  /\ UNCHANGED <<rev, deleted, hints, cache, list, live, degraded, faults, drops, touches, skipped>>

\* A single page is merged as it is, or only makes the list reload when there
\* is no cached item; the loop reloads the list when a page is empty.
PageLands(r) ==
  LET last == Max(DOMAIN r.got)
      more == last < r.event.head /\ last < r.head
  IN  /\ r.phase = "pageBack"
      /\ IF r.item = NoCache \/ (~r.once /\ r.got = <<>>)
         THEN Finish(r) /\ Invalidate /\ UNCHANGED cache
         ELSE /\ cache' = Merged(cache, r.got, r.head)
              /\ IF ~r.once /\ more THEN PageFrom(r, last, FALSE) ELSE Finish(r)
              /\ UNCHANGED list
      /\ UNCHANGED <<rev, deleted, hints, live, degraded, faults, drops, touches, skipped>>

\* Fault variant: the rejection is swallowed and the status stays "live".
PageFailsQuietly(r) ==
  /\ r.phase \in {"page", "pageBack"} /\ faults < MaxFaults
  /\ faults' = faults + 1
  /\ Finish(r)
  /\ UNCHANGED <<rev, deleted, hints, cache, list, live, degraded, drops, touches, skipped>>

\* A page request fails: the repair rejects and the provider's handler turns
\* the status to degraded.
PageFails(r) ==
  /\ r.phase \in {"page", "pageBack"} /\ faults < MaxFaults
  /\ faults' = faults + 1
  /\ Finish(r)
  /\ degraded' = TRUE
  /\ skipped' = IF IsAppend(r.event) THEN skipped \union {r.event.seq} ELSE skipped
  /\ UNCHANGED <<rev, deleted, hints, cache, list, live, drops, touches>>

-----------------------------------------------------------------------------
(* The realtime connection.                                                *)

Drop ==
  /\ live /\ drops < MaxDrops
  /\ drops' = drops + 1
  /\ live' = FALSE /\ degraded' = TRUE
  /\ UNCHANGED <<rev, deleted, hints, cache, repairs, list, faults, touches, skipped>>

\* Centrifugo's history covers the gap and replays it.
Recover ==
  /\ ~live
  /\ live' = TRUE /\ degraded' = FALSE
  /\ UNCHANGED <<rev, deleted, hints, cache, repairs, list, faults, drops, touches, skipped>>

\* It does not: what was published meanwhile is lost and onRecoveryGap
\* invalidates the list.
RecoverWithGap ==
  /\ ~live
  /\ live' = TRUE /\ degraded' = FALSE
  /\ hints' \in SUBSET hints
  /\ Invalidate
  /\ UNCHANGED <<rev, deleted, cache, repairs, faults, drops, touches, skipped>>

-----------------------------------------------------------------------------
RepairStep(r) ==
  PointerServed(r) \/ PointerGone(r) \/ PointerLands(r) \/ PageServed(r) \/ PageLands(r)

Next ==
  \/ Append
  \/ \E s \in DOMAIN rev : Revise(s) \/ Delete(s)
  \/ \E e \in hints : HandleHint(e)
  \/ \E r \in repairs : RepairStep(r) \/ PointerFails(r) \/ PageFails(r)
  \/ ListServed \/ ListLands \/ Poll \/ Touch
  \/ Drop \/ Recover \/ RecoverWithGap

Spec == Init /\ [][Next]_vars

\* Hints arrive while the connection is up, requests are answered and the
\* poll timer fires.
Fairness ==
  /\ WF_vars(\E e \in hints : HandleHint(e))
  /\ WF_vars(\E r \in repairs : RepairStep(r))
  /\ WF_vars(ListServed) /\ WF_vars(ListLands) /\ WF_vars(Poll)
  /\ WF_vars(Recover \/ RecoverWithGap)

FairSpec == Spec /\ Fairness

-----------------------------------------------------------------------------
Phases == {"pointer", "pointerBack", "page", "pageBack"}

IsCache(c) == c = NoCache \/ (DOMAIN c.msgs \subseteq 1 .. MaxMessages
                              /\ c.seq \in 0 .. MaxMessages)

\* Every variable ranges over what the server and the client can hold.
SyncTypeOK ==
  /\ DOMAIN rev = 1 .. head /\ head <= MaxMessages
  /\ \A s \in DOMAIN rev : rev[s] \in 1 .. Tombstone
  /\ deleted \subseteq DOMAIN rev
  /\ \A e \in hints : e.seq <= e.head /\ e.head <= head /\ e.rev <= rev[e.seq]
  /\ IsCache(cache) /\ IsCache(list.data)
  /\ list.phase \in {"idle", "asked", "served"}
  /\ \A r \in repairs : r.phase \in Phases /\ IsCache(r.item)
  /\ live \in BOOLEAN /\ degraded \in BOOLEAN
  /\ faults <= MaxFaults /\ drops <= MaxDrops /\ touches <= MaxTouches
  /\ skipped \subseteq DOMAIN rev

\* Nothing more is going to change the cache by itself.
Settled ==
  /\ hints = {} /\ repairs = {} /\ list.phase = "idle"
  /\ live /\ ~degraded

Rendered(s) == cache # NoCache /\ s \in DOMAIN cache.msgs

\* What the client shows is some past of the server: it never runs ahead of
\* the log and its cursor never passes the head.
CacheIsPast ==
  cache # NoCache =>
    /\ cache.seq <= head
    /\ \A s \in DOMAIN cache.msgs : s \in DOMAIN rev /\ cache.msgs[s] <= rev[s]

\* When all hints are handled and nothing is in flight, every committed
\* message is rendered: gaps, reordered hints and refetches lose none.  The code
\* does not keep this: the run sync_gap shows it.
NoMessageLost == Settled => \A s \in DOMAIN rev \ deleted : Rendered(s)

\* There are two ways only to lose a message: an answer of the list that was read
\* before the message landed after its repair, or its repair failed on a page and
\* the connection came back before the list was polled.  With any other order
\* of hints, repairs, refetches, failures, lost connections and deletions, before
\* the list is loaded and after, every message is rendered in the end.
NoOtherMessageLost == Settled => \A s \in DOMAIN rev \ (deleted \union skipped) : Rendered(s)

\* And every rendered message shows its latest revision.  The code does not
\* keep this, nor the next: the README says when.
NoStaleRevision ==
  Settled => \A s \in DOMAIN rev : Rendered(s) => cache.msgs[s] = rev[s]

\* A deleted message that was rendered shows its tombstone.
NoDeletedShown ==
  Settled => \A s \in deleted : Rendered(s) => cache.msgs[s] = rev[s]

\* Every committed message is rendered for good in the end, failing requests
\* or not.
EventuallyRendered ==
  \A s \in 1 .. MaxMessages :
    (s \in DOMAIN rev) ~> (s \in deleted \/ [](Rendered(s)))
=============================================================================
