------------------------------- MODULE WebPush -------------------------------
(***************************************************************************)
(* Push notifications of one Thread (apps/server-worker/src/web-push-jobs  *)
(* .ts): the outbox hands every append and every update of a message to a  *)
(* job that looks up the message at the head sequence of its event and     *)
(* sends it to the subscriptions of the other participants.                *)
(*                                                                         *)
(* Graphile Worker is external: one job at a time, a job that throws runs  *)
(* again after others until MaxAttempts.  A push service accepts, answers  *)
(* that the endpoint is gone, or fails.                                    *)
(***************************************************************************)
EXTENDS Naturals, FiniteSets, Functions

CONSTANTS
  Endpoints,      \* the recipients' browsers
  MaxMessages,    \* bound: messages of the Thread and their edits
  MaxAttempts,    \* Graphile: executions of one job
  MaxFailures     \* bound: failing sends

\* What the modules that instantiate this one assume of its constants.
PushAssumption == MaxMessages \in Nat /\ MaxAttempts \in Nat \ {0} /\ MaxFailures \in Nat

VARIABLES
  stream,     \* sequence -> "message", or the answer's "pending" or "complete"
  updates,
  jobs,       \* the queued events: [id, head], with the attempts they had
  nextId,
  running,    \* the job being handled and the subscriptions it still sends to
  subscribed, dead,   \* rows of web_push_subscriptions; endpoints that are gone
  pushed,     \* <<endpoint, sequence>> of every notification accepted
  failures

thread == <<stream, updates>>
queue == <<jobs, nextId, running>>
vars == <<thread, queue, subscribed, dead, pushed, failures>>

head == Cardinality(DOMAIN stream)
Free == [job |-> [id |-> 0, head |-> 0, tries |-> 0], todo |-> {}]

Init ==
  /\ stream = <<>> /\ updates = 0
  /\ jobs = {} /\ nextId = 1 /\ running = Free
  /\ subscribed = Endpoints /\ dead = {} /\ pushed = {}
  /\ failures = 0

\* enqueue: one job for one event.
Event(h) ==
  /\ jobs' = jobs \union {[id |-> nextId, head |-> h, tries |-> 0]}
  /\ nextId' = nextId + 1 /\ UNCHANGED running

\* A person's message is complete at once, a Stand-in's answer is pending.
Append ==
  /\ head + updates < MaxMessages
  /\ \E s \in {"message", "pending"} :
       stream' = [q \in 1 .. head + 1 |-> IF q = head + 1 THEN s ELSE stream[q]]
  /\ Event(head + 1)
  /\ UNCHANGED <<updates, subscribed, dead, pushed, failures>>

\* The answer at sequence q is complete: the event carries the Thread's head.
CompleteAnswer(q) ==
  /\ stream[q] = "pending"
  /\ stream' = [stream EXCEPT ![q] = "complete"]
  /\ Event(head)
  /\ UNCHANGED <<updates, subscribed, dead, pushed, failures>>

\* An edit; any message may be the one edited, the event only names the head.
Edit ==
  /\ head > 0 /\ head + updates < MaxMessages /\ updates' = updates + 1
  /\ Event(head)
  /\ UNCHANGED <<stream, subscribed, dead, pushed, failures>>

-----------------------------------------------------------------------------
(* deliverConversationWebPush.                                             *)

Notifiable(s) == s # "pending"

\* The job with what is left to send, none when nothing is.
Working(j, todo) == IF todo = {} THEN Free ELSE [job |-> j, todo |-> todo]

\* The message at the head sequence and the subscriptions are read once.
Start(j) ==
  /\ running = Free
  /\ jobs' = jobs \ {j}
  /\ running' = Working([j EXCEPT !.tries = @ + 1],
                        IF Notifiable(stream[j.head]) THEN subscribed ELSE {})
  /\ UNCHANGED <<nextId, thread, subscribed, dead, pushed, failures>>

\* Fault variant: a job that failed is not tried again.
RetriedNever == jobs

\* The job is thrown back as a whole, unless this was its last attempt.
Retried == IF running.job.tries < MaxAttempts THEN jobs \union {running.job} ELSE jobs

Sent(e) == running' = Working(running.job, running.todo \ {e})

Send(e) ==
  /\ e \in running.todo
  /\ \/ /\ e \notin dead                                     \* accepted
        /\ pushed' = pushed \union {<<e, running.job.head>>}
        /\ Sent(e)
        /\ UNCHANGED <<jobs, subscribed, failures>>
     \/ /\ e \in dead                                        \* 404 or 410
        /\ subscribed' = subscribed \ {e}
        /\ Sent(e)
        /\ UNCHANGED <<jobs, pushed, failures>>
     \/ /\ failures < MaxFailures                            \* any other error
        /\ failures' = failures + 1
        /\ jobs' = Retried /\ running' = Free
        /\ UNCHANGED <<subscribed, pushed>>
  /\ UNCHANGED <<nextId, thread, dead>>

\* A browser drops its subscription; a new one has a new endpoint.
Expire(e) ==
  /\ e \notin dead /\ dead' = dead \union {e}
  /\ UNCHANGED <<thread, queue, subscribed, pushed, failures>>

-----------------------------------------------------------------------------
Deliver == (\E j \in jobs : Start(j)) \/ (\E e \in Endpoints : Send(e))

Next ==
  \/ Append \/ (\E q \in DOMAIN stream : CompleteAnswer(q)) \/ Edit
  \/ Deliver
  \/ \E e \in Endpoints : Expire(e)

Spec == Init /\ [][Next]_vars

\* Graphile starts what is queued and the push services answer.
FairSpec == Spec /\ WF_vars(Deliver)

-----------------------------------------------------------------------------
\* Every variable ranges over what the tables and the worker can hold.
PushTypeOK ==
  /\ DOMAIN stream = 1 .. head /\ Range(stream) \subseteq {"message", "pending", "complete"}
  /\ updates \in 0 .. MaxMessages /\ failures \in 0 .. MaxFailures
  /\ \A j \in jobs : j.head \in 1 .. head /\ j.tries \in 0 .. MaxAttempts - 1
  /\ running.job.tries \in 0 .. MaxAttempts /\ running.todo \subseteq Endpoints
  /\ subscribed \subseteq Endpoints /\ dead \subseteq Endpoints
  /\ pushed \subseteq Endpoints \X (1 .. head)

\* With fewer failures than attempts it is so again and again that every browser
\* has been sent every message or was found gone: a failing endpoint delays the
\* others and costs none of them its notification.
EventuallyPushed ==
  []<>(\A e \in Endpoints \ dead, q \in DOMAIN stream :
         stream[q] = "message" => <<e, q>> \in pushed)

\* An answer that is complete is notified like any other message.  The code
\* does not keep this: the README says when.
AnswerIsPushed ==
  jobs = {} /\ running = Free /\ dead = {} /\ failures = 0 =>
    \A q \in DOMAIN stream, e \in Endpoints : stream[q] = "complete" => <<e, q>> \in pushed
=============================================================================
