------------------------ MODULE RealtimeCoordinator ------------------------
(***************************************************************************)
(* The Web client's realtime coordinator (apps/web/src/realtime/           *)
(* coordinator.ts) with the views that watch one Thread through it.  A     *)
(* client is one Centrifuge object; it connects, loses its connection and  *)
(* is closed by the server on its own, and calls the coordinator back      *)
(* synchronously.  JavaScript runs one handler at a time: an await         *)
(* (createSession, createSubscription), a timer and a callback are where   *)
(* handlers interleave.                                                    *)
(*                                                                         *)
(* Centrifuge: connect() of a client that is connecting or connected does  *)
(* nothing; the browser's offline event sends a client back to connecting; *)
(* a second subscription to a channel throws; a terminal disconnect is     *)
(* final.  React: the effects of a status change run before a network      *)
(* round trip ends (Rendered).  A view watches again when its former       *)
(* request has been answered.                                              *)
(***************************************************************************)
EXTENDS Naturals, FiniteSets

CONSTANTS
  Clients, NoClient,
  Views,          \* the effects that watch the Thread
  FollowsStatus,  \* those that release it while the status is not "live"
  MaxFlaps,       \* bound: times the browser goes offline
  MaxFailures,    \* bound: failed requests, timeouts, closed connections
  MaxErrors       \* bound: errors of the subscription

ASSUME CoordinatorAssumption ==
  /\ NoClient \notin Clients /\ IsFiniteSet(Views)
  /\ FollowsStatus \subseteq Views
  /\ MaxFlaps \in Nat /\ MaxFailures \in Nat /\ MaxErrors \in Nat

VARIABLES
  online,     \* navigator.onLine
  stopped,    \* #stopped
  client,     \* #client
  state,      \* the state of every client
  sessions,   \* createSession requests of #connect in flight
  retry,      \* #retryTimer is set
  watchdog,   \* #connectingTimer is set
  status,     \* the last onStatus
  entry,      \* #subscriptions of the Thread: owner, its client, consumers
  watch,      \* each view: its phase, and the subscription it holds
  missed,     \* history: views that found the Thread subscribed by another's request
              \* when theirs was answered, or joined a former client's subscription
  flaps, failures, errors

transport == <<client, state, sessions, retry, watchdog>>
bounds == <<flaps, failures, errors>>
vars == <<online, stopped, transport, status, entry, watch, missed, bounds>>

NoView == [phase |-> "idle", on |-> NoClient, owner |-> "none"]
NoEntry == [owner |-> "none", on |-> NoClient, consumers |-> 0]

\* The coordinator just started.
Init ==
  /\ online \in BOOLEAN /\ stopped = FALSE
  /\ client = NoClient /\ state = [c \in Clients |-> "unused"]
  /\ sessions = IF online THEN 1 ELSE 0
  /\ retry = FALSE /\ watchdog = FALSE
  /\ status = IF online THEN "connecting" ELSE "offline"
  /\ entry = NoEntry /\ watch = [v \in Views |-> NoView] /\ missed = {}
  /\ flaps = 0 /\ failures = 0 /\ errors = 0

Failure == failures < MaxFailures /\ failures' = failures + 1
Down == IF online THEN "degraded" ELSE "offline"
Connecting == IF online THEN "connecting" ELSE "offline"

\* scheduleRetry, which leaves a timer alone and sets none while offline.
ScheduleRetry == retry' = (retry \/ online)

\* The effects of the last status change have run.
Rendered ==
  \A v \in FollowsStatus : status # "live" => watch[v].phase \in {"idle", "disposed"}

-----------------------------------------------------------------------------
(* #connect and its timers.                                                *)

SessionOk ==
  /\ sessions > 0 /\ online
  /\ sessions' = sessions - 1
  /\ IF stopped THEN UNCHANGED <<client, state, watchdog, status>>
     ELSE \E c \in Clients :
            /\ state[c] = "unused"
            /\ client' = c
            /\ state' = [state EXCEPT ![c] = "connecting"]
            /\ status' = Connecting
            /\ watchdog' = TRUE
  /\ UNCHANGED <<online, stopped, retry, entry, watch, missed, bounds>>

SessionFails ==
  /\ sessions > 0
  /\ \/ ~online /\ UNCHANGED failures
     \/ online /\ Failure
  /\ sessions' = sessions - 1
  /\ IF stopped THEN UNCHANGED <<watchdog, status, retry>>
     ELSE watchdog' = FALSE /\ status' = Down /\ ScheduleRetry
  /\ UNCHANGED <<online, stopped, client, state, entry, watch, missed, flaps, errors>>

RetryFires ==
  /\ retry /\ Rendered
  /\ retry' = FALSE
  /\ sessions' = sessions + 1
  /\ UNCHANGED <<online, stopped, client, state, watchdog, status, entry, watch, missed, bounds>>

\* The current client is gone.  #subscriptions keeps what it subscribed.
LoseClient ==
  /\ client' = NoClient
  /\ watchdog' = FALSE
  /\ status' = Down
  /\ ScheduleRetry

WatchdogFires ==
  /\ watchdog /\ Failure
  /\ IF client = NoClient
     THEN watchdog' = FALSE /\ UNCHANGED <<client, state, status, retry>>
     ELSE LoseClient /\ state' = [state EXCEPT ![client] = "disconnected"]
  /\ UNCHANGED <<online, stopped, sessions, entry, watch, missed, flaps, errors>>

-----------------------------------------------------------------------------
(* Callbacks of a client; those of a former one are ignored.               *)

Heard(c) == c = client /\ ~stopped

Connected(c) ==
  /\ state[c] = "connecting" /\ online /\ Rendered
  /\ state' = [state EXCEPT ![c] = "connected"]
  /\ IF Heard(c) THEN watchdog' = FALSE /\ retry' = FALSE /\ status' = "live"
                 ELSE UNCHANGED <<watchdog, retry, status>>
  /\ UNCHANGED <<online, stopped, client, sessions, entry, watch, missed, bounds>>

Reconnecting(c) ==
  /\ state[c] = "connected" /\ Failure
  /\ state' = [state EXCEPT ![c] = "connecting"]
  /\ status' = IF Heard(c) THEN Connecting ELSE status
  /\ UNCHANGED <<online, stopped, client, sessions, retry, watchdog, entry,
                 watch, missed, flaps, errors>>

\* Fault variant: no retry after a terminal disconnect.
DisconnectedForGood(c) ==
  /\ state[c] \in {"connecting", "connected"} /\ Failure
  /\ state' = [state EXCEPT ![c] = "disconnected"]
  /\ IF Heard(c) THEN client' = NoClient /\ watchdog' = FALSE /\ status' = Down
                 ELSE UNCHANGED <<client, watchdog, status>>
  /\ UNCHANGED <<online, stopped, sessions, retry, entry, watch, missed, flaps, errors>>

Disconnected(c) ==
  /\ state[c] \in {"connecting", "connected"} /\ Failure
  /\ state' = [state EXCEPT ![c] = "disconnected"]
  /\ IF Heard(c) THEN LoseClient ELSE UNCHANGED <<client, watchdog, status, retry>>
  /\ UNCHANGED <<online, stopped, sessions, entry, watch, missed, flaps, errors>>

-----------------------------------------------------------------------------
(* The browser and the provider.                                           *)

GoOffline ==
  /\ online /\ flaps < MaxFlaps
  /\ flaps' = flaps + 1
  /\ online' = FALSE
  /\ state' = [c \in Clients |-> IF state[c] = "connected" THEN "connecting" ELSE state[c]]
  /\ status' = IF stopped THEN status ELSE "offline"
  /\ UNCHANGED <<stopped, client, sessions, retry, watchdog, entry, watch, missed,
                 failures, errors>>

\* networkChanged(true): a client is only told to connect; without one, and
\* without a retry timer, start() connects anew.
GoOnline ==
  /\ ~online
  /\ online' = TRUE
  /\ IF stopped \/ (client = NoClient /\ retry)
     THEN UNCHANGED <<status, sessions>>
     ELSE /\ status' = "connecting"
          /\ sessions' = IF client = NoClient THEN sessions + 1 ELSE sessions
  /\ UNCHANGED <<stopped, client, state, retry, watchdog, entry, watch, missed, bounds>>

Stop ==
  /\ ~stopped
  /\ stopped' = TRUE
  /\ retry' = FALSE /\ watchdog' = FALSE /\ client' = NoClient
  /\ state' = [c \in Clients |-> IF c = client THEN "disconnected" ELSE state[c]]
  /\ entry' = NoEntry
  /\ UNCHANGED <<online, sessions, status, watch, missed, bounds>>

-----------------------------------------------------------------------------
(* subscribeThread and its release.  A subscription is named by the view   *)
(* that created it and its client.                                         *)

SetView(v, phase, owner, on) ==
  watch' = [watch EXCEPT ![v] = [phase |-> phase, owner |-> owner, on |-> on]]

Watch(v) ==
  /\ ~stopped /\ watch[v].phase = "idle"
  /\ v \in FollowsStatus => status = "live"
  /\ IF client = NoClient THEN SetView(v, "none", "none", NoClient) /\ UNCHANGED entry
     ELSE IF entry # NoEntry
     THEN /\ entry' = [entry EXCEPT !.consumers = @ + 1]
          /\ SetView(v, "holding", entry.owner, entry.on)
     ELSE SetView(v, "waiting", v, client) /\ UNCHANGED entry
  /\ missed' = IF entry # NoEntry /\ entry.on # client THEN missed \union {v} ELSE missed
  /\ UNCHANGED <<online, stopped, transport, status, bounds>>

\* Fault variant: the first consumer to release ends the subscription for all.
ReleaseForAll(w) ==
  entry' = IF w.owner # entry.owner \/ w.on # entry.on THEN entry ELSE NoEntry

\* unsubscribeThread, which ignores a subscription that is not the entry's.
Release(w) ==
  entry' = IF entry = NoEntry \/ w.owner # entry.owner \/ w.on # entry.on THEN entry
           ELSE IF entry.consumers > 1 THEN [entry EXCEPT !.consumers = @ - 1]
           ELSE NoEntry

\* Fault variant: a release that comes before the subscription is dropped.
AnswerForgetsRelease(v) ==
  LET w == watch[v]
  IN  /\ w.phase \in {"waiting", "disposed"}
      /\ IF stopped \/ client # w.on \/ entry # NoEntry
         THEN /\ SetView(v, IF w.phase = "waiting" THEN "none" ELSE "idle", "none", NoClient)
              /\ UNCHANGED entry
         ELSE /\ entry' = [owner |-> v, on |-> client, consumers |-> 1]
              /\ IF w.phase = "waiting" THEN SetView(v, "holding", v, client)
                 ELSE SetView(v, "idle", "none", NoClient)
      /\ UNCHANGED <<online, stopped, transport, status, missed, bounds>>

\* The subscription token arrives; a view disposed meanwhile releases at once.
Answer(v) ==
  LET w == watch[v]
      useless == stopped \/ client # w.on \/ entry # NoEntry
  IN  /\ w.phase \in {"waiting", "disposed"}
      /\ entry' = IF useless \/ w.phase = "disposed" THEN entry
                  ELSE [owner |-> v, on |-> client, consumers |-> 1]
      /\ IF w.phase = "disposed" THEN SetView(v, "idle", "none", NoClient)
         ELSE IF useless THEN SetView(v, "none", "none", NoClient)
         ELSE SetView(v, "holding", v, client)
      /\ missed' = IF w.phase = "waiting" /\ entry # NoEntry THEN missed \union {v} ELSE missed
      /\ UNCHANGED <<online, stopped, transport, status, bounds>>

\* The effect's cleanup: the view is closed or shows another Thread, or the
\* status it follows is no longer "live".
Unwatch(v) ==
  /\ watch[v].phase \in {"waiting", "holding", "none"}
  /\ IF watch[v].phase = "holding" THEN Release(watch[v]) ELSE UNCHANGED entry
  /\ IF watch[v].phase = "waiting"
     THEN SetView(v, "disposed", watch[v].owner, watch[v].on)
     ELSE SetView(v, "idle", "none", NoClient)
  /\ missed' = missed \ {v}
  /\ UNCHANGED <<online, stopped, transport, status, bounds>>

\* A temporary error of the subscription, which the SDK retries.
SubscriptionError ==
  /\ entry # NoEntry /\ state[entry.on] = "connected" /\ errors < MaxErrors
  /\ errors' = errors + 1
  /\ status' = Down
  /\ UNCHANGED <<online, stopped, transport, entry, watch, missed, flaps, failures>>

-----------------------------------------------------------------------------
Next ==
  \/ SessionOk \/ SessionFails \/ RetryFires \/ WatchdogFires
  \/ \E c \in Clients : Connected(c) \/ Reconnecting(c) \/ Disconnected(c)
  \/ GoOffline \/ GoOnline \/ Stop
  \/ \E v \in Views : Watch(v) \/ Answer(v) \/ Unwatch(v)
  \/ SubscriptionError

Spec == Init /\ [][Next]_vars

\* React runs the cleanup of an effect whose status changed.
Rerun(v) == v \in FollowsStatus /\ status # "live" /\ Unwatch(v)

\* Requests end, timers fire, effects run, and a client that can connect does.
Fairness ==
  /\ WF_vars(SessionOk) /\ WF_vars(RetryFires)
  /\ \A c \in Clients : WF_vars(Connected(c))
  /\ \A v \in Views : WF_vars(Answer(v)) /\ WF_vars(Rerun(v))

FairSpec == Spec /\ Fairness

-----------------------------------------------------------------------------
Running(c) == state[c] \in {"connecting", "connected"}
Phases == {"idle", "waiting", "disposed", "holding", "none"}

\* Every variable ranges over what the coordinator and its views can hold.
TypeOK ==
  /\ online \in BOOLEAN /\ stopped \in BOOLEAN
  /\ client \in Clients \union {NoClient}
  /\ state \in [Clients -> {"unused", "connecting", "connected", "disconnected"}]
  /\ sessions \in Nat /\ retry \in BOOLEAN /\ watchdog \in BOOLEAN
  /\ status \in {"connecting", "live", "degraded", "offline"}
  /\ entry.on \in Clients \union {NoClient}
  /\ entry.owner \in Views \union {"none"} /\ entry.consumers \in 0 .. Cardinality(Views)
  /\ \A v \in Views : watch[v].phase \in Phases
  /\ missed \subseteq Views

\* After stop() no client connects, receives or reconnects.  When the network
\* changed before, the code does not keep this: the README says when.
StopEndsTransport == stopped => \A c \in Clients : ~Running(c)

\* The status is "live" only while the coordinator's own client is connected:
\* fixed polling is off, so nothing else would repair the Thread list.
LiveMeansConnected == status = "live" => client # NoClient /\ state[client] = "connected"

\* While the browser is online the coordinator has a client, or something
\* that will make one: no failure leaves it waiting for nothing.
NeverStranded == online => client # NoClient \/ retry \/ sessions > 0

\* Whatever callbacks and timers do to each other, the status says what is, and
\* something is under way when it is not live.
StatusIsTrue == ~stopped => LiveMeansConnected /\ NeverStranded

\* The entry's consumers are the views that hold its subscription: no release
\* is lost and none counts twice, also across clients.
ConsumersCounted ==
  entry # NoEntry =>
    entry.consumers = Cardinality({v \in Views : /\ watch[v].phase = "holding"
                                                 /\ watch[v].owner = entry.owner
                                                 /\ watch[v].on = entry.on})

\* While the status is "live", what a view that follows the status holds is a
\* subscription of the current client: a former client's receives nothing.  The
\* code does not keep this with a second view: the README says when.
HeldIsOfTheClient ==
  \A v \in FollowsStatus :
    ~stopped /\ status = "live" /\ watch[v].phase = "holding" => watch[v].on = client

\* While the status is "live", the Thread of a view whose subscription request
\* has been answered is subscribed on the connected client, whatever other views
\* watch and release it - unless another view's request was answered before its
\* own (newSubscription throws, and the view holds nothing), or it joined what a
\* view that does not follow the status has kept of a former client.
LiveThreadIsSubscribed ==
  \A v \in FollowsStatus \ missed :
    ~stopped /\ status = "live" /\ watch[v].phase \in {"holding", "none"}
      => entry.on = client

\* An error of the subscription has turned the status of a connected client: the
\* SDK retries the subscription, but only the client's next "connected" turns the
\* status back.
Misjudged == errors > 0 /\ client # NoClient /\ state[client] = "connected"

\* While the browser stays online and the coordinator is not stopped, the status
\* returns to "live" after lost and refused connections, failed requests, timeouts
\* and times offline - but not after an error of the subscription, until the
\* client has lost its connection.
EventuallyLive == (~stopped /\ online) ~> (status = "live" \/ stopped \/ ~online \/ Misjudged)
=============================================================================
