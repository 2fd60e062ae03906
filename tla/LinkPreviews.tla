------------------------------ MODULE LinkPreviews ------------------------------
(***************************************************************************)
(* The previews of one message's links (apps/server-worker/src/unfurl-jobs *)
(* .ts and the methods of postgres-store.ts it calls): the transaction     *)
(* that completes the message leaves an outbox row, its dispatcher adds a  *)
(* Graphile job, and the job reads the message, looks into the cache,      *)
(* fetches what is missing and writes the links back to the message, which *)
(* its sender may have edited, hidden or deleted meanwhile.                *)
(*                                                                         *)
(* A text is the set of links that extractHttpUrls finds in it (two at     *)
(* most).  A page that is fetched, refused or broken is a preview alike:   *)
(* the cache keeps its status.  Graphile Worker is external.               *)
(***************************************************************************)
EXTENDS Naturals, FiniteSetsExt

CONSTANTS
  Links,         \* numbers, in the order of the text
  NoMessage,
  MaxAttempts,   \* Graphile: executions of the job
  MaxTroubles    \* bound: failing calls and dead workers

Rows ==
  [sender : {"person", "standin"}, stream : {"pending", "complete"}, text : SUBSET Links,
   urls : SUBSET Links, hidden : BOOLEAN, deleted : BOOLEAN]

\* What the modules that instantiate this one assume of its constants.
PreviewAssumption ==
  /\ Links \subseteq Nat /\ NoMessage \notin Rows
  /\ MaxAttempts \in Nat \ {0} /\ MaxTroubles \in Nat

VARIABLES
  message,      \* the row: [sender, stream, text, urls, hidden, deleted]
  cache,        \* links whose row of link_previews has not expired
  unreachable,  \* links whose host does not answer
  row,          \* an outbox row of the message is open
  queue, attempt,   \* the Graphile job: "none", "waiting", "running" or "dead"
  at, urls, todo,   \* the handler: its position, the links it read, those to fetch
  found,        \* history: links the handler found in the cache or fetched
  troubles

job == <<queue, attempt>>
handler == <<at, urls, todo>>
vars == <<message, cache, unreachable, row, job, handler, found, troubles>>

Init ==
  /\ message = NoMessage
  /\ cache \in SUBSET Links /\ unreachable \in SUBSET Links
  /\ row = FALSE /\ queue = "none" /\ attempt = 0
  /\ at = "idle" /\ urls = {} /\ todo = {}
  /\ found = {} /\ troubles = 0

-----------------------------------------------------------------------------
(* The conversation store.                                                 *)

Others == <<cache, unreachable, job, handler, found, troubles>>

\* withExtractedPreviewUrls: a text without links leaves those there were.
Written(m, text, s) ==
  [m EXCEPT !.text = text, !.urls = IF text = {} THEN @ ELSE text, !.stream = s]

New(sender) ==
  [sender |-> sender, stream |-> "pending", text |-> {}, urls |-> {},
   hidden |-> FALSE, deleted |-> FALSE]

\* enqueueUnfurl.
Enqueue == row' = (row \/ message'.urls # {})

\* A person's message is complete, a Stand-in's is a placeholder.
Append ==
  /\ message = NoMessage
  /\ \/ \E text \in SUBSET Links :
          message' = Written(New("person"), text, "complete") /\ Enqueue
     \/ message' = New("standin") /\ UNCHANGED row
  /\ UNCHANGED Others

\* updateMessageStream; a retry may complete the answer again, with its text.
Stream(text, s) ==
  /\ message # NoMessage /\ message.sender = "standin"
  /\ message.stream = "complete" => s = "complete" /\ text = message.text
  /\ message' = Written(message, text, s)
  /\ IF s = "complete" THEN Enqueue ELSE UNCHANGED row
  /\ UNCHANGED Others

Own == message # NoMessage /\ message.sender = "person"

\* The text changes, the links of the message do not.
Edit(text) ==
  /\ Own /\ ~message.deleted
  /\ message' = [message EXCEPT !.text = text]
  /\ UNCHANGED <<row, Others>>

Delete ==
  /\ Own /\ ~message.deleted
  /\ message' = [message EXCEPT !.text = {}, !.deleted = TRUE]
  /\ UNCHANGED <<row, Others>>

Hide ==
  /\ Own /\ ~message.hidden
  /\ message' = [message EXCEPT !.hidden = TRUE]
  /\ UNCHANGED <<row, Others>>

\* A preview expires after seven days.
Expire(u) ==
  /\ u \in cache /\ cache' = cache \ {u}
  /\ UNCHANGED <<message, unreachable, row, job, handler, found, troubles>>

-----------------------------------------------------------------------------
(* The dispatcher of the topic and Graphile's job.                         *)

\* unsafe_dedupe: no job is added while there is one, running or dead.
Add == IF queue = "none" THEN queue' = "waiting" /\ attempt' = 0 ELSE UNCHANGED job

Dispatch ==
  /\ row /\ row' = FALSE /\ Add
  /\ UNCHANGED <<message, cache, unreachable, handler, found, troubles>>

\* The job is not added, or it is and the row is not completed.
DispatchFails ==
  /\ row /\ troubles < MaxTroubles /\ troubles' = troubles + 1
  /\ Add \/ UNCHANGED job
  /\ UNCHANGED <<message, cache, unreachable, row, handler, found>>

Start ==
  /\ queue = "waiting" /\ queue' = "running" /\ attempt' = attempt + 1
  /\ at' = "read"
  /\ UNCHANGED <<message, cache, unreachable, row, urls, todo, found, troubles>>

Idle == at' = "idle" /\ urls' = {} /\ todo' = {}
Returns == queue' = "none" /\ UNCHANGED attempt /\ Idle
Throws ==
  queue' = (IF attempt < MaxAttempts THEN "waiting" ELSE "dead") /\ UNCHANGED attempt /\ Idle

\* A call fails or the worker dies, before or after any of the handler's steps.
Trouble ==
  /\ at # "idle" /\ troubles < MaxTroubles /\ troubles' = troubles + 1
  /\ Throws
  /\ UNCHANGED <<message, cache, unreachable, row, found>>

-----------------------------------------------------------------------------
(* UnfurlJobHandler.handle.                                                *)

Read ==
  /\ at = "read"
  /\ LET read == IF message.urls # {} THEN message.urls ELSE message.text IN
       IF read = {} THEN Returns
       ELSE at' = "look" /\ urls' = read /\ UNCHANGED <<todo, job>>
  /\ UNCHANGED <<message, cache, unreachable, row, found, troubles>>

Look ==
  /\ at = "look" /\ at' = "fetch"
  /\ todo' = urls \ cache
  /\ found' = found \union (urls \intersect cache)
  /\ UNCHANGED <<message, cache, unreachable, row, job, urls, troubles>>

\* fetchPreview and putLinkPreview of the next link.  A lookup of its name or a
\* request that fails is neither of the two errors fetchPreview knows: it throws.
Fetch ==
  /\ at = "fetch" /\ todo # {}
  /\ LET u == Min(todo) IN
       IF u \in unreachable THEN Throws /\ UNCHANGED <<cache, found>>
       ELSE /\ cache' = cache \union {u} /\ found' = found \union {u}
            /\ todo' = todo \ {u} /\ UNCHANGED <<job, at, urls>>
  /\ UNCHANGED <<message, unreachable, row, troubles>>

\* Fault variant: in place of what the metadata says.
AttachedAlone == [message EXCEPT !.urls = urls, !.hidden = FALSE]

\* attachMessagePreviewUrls: beside what the metadata says now, under the lock.
Attached == [message EXCEPT !.urls = urls]

Attach ==
  /\ at = "fetch" /\ todo = {} /\ at' = "end"
  /\ message' = Attached
  /\ UNCHANGED <<cache, unreachable, row, job, urls, todo, found, troubles>>

End ==
  /\ at = "end" /\ Returns
  /\ UNCHANGED <<message, cache, unreachable, row, found, troubles>>

-----------------------------------------------------------------------------
Handle == Start \/ Read \/ Look \/ Fetch \/ Attach \/ End

Next ==
  \/ Append
  \/ \E text \in SUBSET Links : Edit(text) \/ \E s \in {"pending", "complete"} : Stream(text, s)
  \/ Delete \/ Hide
  \/ \E u \in Links : Expire(u)
  \/ Dispatch \/ DispatchFails \/ Trouble
  \/ Handle

Spec == Init /\ [][Next]_vars

\* The dispatch loop adds itself again every second; Graphile starts what waits,
\* and the calls of a running handler return.
FairSpec == Spec /\ WF_vars(Dispatch) /\ WF_vars(Handle)

-----------------------------------------------------------------------------
\* Every variable ranges over what the tables and the worker can hold.
PreviewTypeOK ==
  /\ message \in Rows \union {NoMessage}
  /\ cache \subseteq Links /\ unreachable \subseteq Links
  /\ row \in BOOLEAN /\ queue \in {"none", "waiting", "running", "dead"}
  /\ attempt \in 0 .. MaxAttempts /\ troubles \in 0 .. MaxTroubles
  /\ at \in {"idle", "read", "look", "fetch", "end"} /\ (at # "idle") = (queue = "running")
  /\ urls \subseteq Links /\ todo \subseteq urls /\ found \subseteq Links

Is(s) == message # NoMessage /\ message.stream = s

Promise == INSTANCE PreviewPromise WITH
  links <- IF message = NoMessage THEN {} ELSE message.urls,
  complete <- Is("complete"),
  taken <- {how \in {"hidden", "deleted"} : message # NoMessage /\ message[how]}

\* With fewer troubles than attempts the previews keep their promise: a job that
\* ends minutes after it read the message changes neither its links nor what the
\* sender took back, and every link in front of a dead host gets its preview,
\* whatever fails, expires, or is completed or dispatched again meanwhile.
ImplementsPromise == Promise!Spec

\* The links are those of the text people read.  The code does not keep this:
\* the README says when.
LinksAreOfTheText ==
  Is("complete") /\ ~message.deleted /\ message.text # {} => message.urls = message.text

\* Every link whose host answers gets its preview.  The code does not keep this
\* behind a link whose host does not: the README says when.
EventuallyFound == \A u \in Links : Is("complete") /\ u \in message.urls \ unreachable ~> u \in found
=================================================================================
