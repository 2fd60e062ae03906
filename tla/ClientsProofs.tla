----------------------------- MODULE ClientsProofs -----------------------------
(***************************************************************************)
(* Proofs about the clients, for any value of the constants: the realtime  *)
(* coordinator's status is true, its table of subscriptions counts the     *)
(* views that hold one, and a live Thread is subscribed; the previews of a *)
(* message take back nothing its sender did; a Thread's cache is a past of *)
(* the log, and a message is lost in two ways only; the agent's outbox     *)
(* keeps what its user is told it keeps, however its calls overlap.        *)
(***************************************************************************)
EXTENDS MCClients, Sequences, FiniteSetTheorems, WellFoundedInduction, TLAPS

-----------------------------------------------------------------------------
(* The transport.                                                          *)

TransportT ==
  /\ online \in BOOLEAN /\ stopped \in BOOLEAN
  /\ client \in Clients \union {NoClient}
  /\ state \in [Clients -> {"unused", "connecting", "connected", "disconnected"}]
  /\ sessions \in Nat /\ retry \in BOOLEAN /\ watchdog \in BOOLEAN
  /\ status \in {"connecting", "live", "degraded", "offline"}

TransportInv == TransportT /\ StatusIsTrue

\* Steps of the views leave the transport alone, those of the transport the
\* views.
ViewStep(v) == Watch(v) \/ Answer(v) \/ Unwatch(v)

LEMMA TransportInit == ASSUME Init PROVE TransportInv
<1>1. TransportT BY DEF Init, TransportT
<1>2. StatusIsTrue BY DEF Init, StatusIsTrue, LiveMeansConnected, NeverStranded
<1> QED BY <1>1, <1>2 DEF TransportInv

LEMMA TransportNext ==
  ASSUME TransportInv, [Next]_vars
  PROVE  TransportInv'
<1> USE CoordinatorAssumption DEF TransportInv, transport, bounds
<1>1. CASE SessionOk
  <2>0. sessions' \in Nat BY <1>1 DEF SessionOk, TransportT
  <2>1. TransportT' BY <1>1, <2>0 DEF SessionOk, Connecting, TransportT
  <2>2. StatusIsTrue'
    BY <1>1 DEF SessionOk, Connecting, TransportT, StatusIsTrue, LiveMeansConnected, NeverStranded
  <2> QED BY <2>1, <2>2
<1>2. CASE SessionFails
  <2>0. sessions' \in Nat BY <1>2 DEF SessionFails, TransportT
  <2>1. TransportT' BY <1>2, <2>0 DEF SessionFails, Down, ScheduleRetry, TransportT
  <2>2. StatusIsTrue'
    BY <1>2 DEF SessionFails, Down, ScheduleRetry, TransportT, StatusIsTrue, LiveMeansConnected, NeverStranded
  <2> QED BY <2>1, <2>2
<1>3. CASE RetryFires
  <2>0. sessions' \in Nat BY <1>3 DEF RetryFires, TransportT
  <2>1. TransportT' BY <1>3, <2>0 DEF RetryFires, TransportT
  <2>2. StatusIsTrue'
    BY <1>3 DEF RetryFires, TransportT, StatusIsTrue, LiveMeansConnected, NeverStranded
  <2> QED BY <2>1, <2>2
<1>4. CASE WatchdogFires
  <2>1. TransportT' BY <1>4 DEF WatchdogFires, LoseClient, Down, ScheduleRetry, TransportT
  <2>2. StatusIsTrue'
    BY <1>4 DEF WatchdogFires, LoseClient, Down, ScheduleRetry, TransportT, StatusIsTrue,
                LiveMeansConnected, NeverStranded
  <2> QED BY <2>1, <2>2
<1>5. ASSUME NEW c \in Clients, Connected(c) PROVE TransportInv'
  <2>1. TransportT' BY <1>5 DEF Connected, TransportT
  <2>2. StatusIsTrue'
    BY <1>5 DEF Connected, Heard, TransportT, StatusIsTrue, LiveMeansConnected, NeverStranded
  <2> QED BY <2>1, <2>2
<1>6. ASSUME NEW c \in Clients, Reconnecting(c) PROVE TransportInv'
  <2>1. TransportT' BY <1>6 DEF Reconnecting, Connecting, TransportT
  <2>2. StatusIsTrue'
    BY <1>6 DEF Reconnecting, Connecting, Heard, TransportT, StatusIsTrue, LiveMeansConnected, NeverStranded
  <2> QED BY <2>1, <2>2
<1>7. ASSUME NEW c \in Clients, Disconnected(c) PROVE TransportInv'
  <2>1. TransportT' BY <1>7 DEF Disconnected, LoseClient, Down, ScheduleRetry, TransportT
  <2>2. StatusIsTrue'
    BY <1>7 DEF Disconnected, LoseClient, Down, ScheduleRetry, Heard, TransportT, StatusIsTrue,
                LiveMeansConnected, NeverStranded
  <2> QED BY <2>1, <2>2
<1>8. CASE GoOffline
  <2>1. TransportT' BY <1>8 DEF GoOffline, TransportT
  <2>2. StatusIsTrue'
    BY <1>8 DEF GoOffline, TransportT, StatusIsTrue, LiveMeansConnected, NeverStranded
  <2> QED BY <2>1, <2>2
<1>9. CASE GoOnline
  <2>1. TransportT' BY <1>9 DEF GoOnline, TransportT
  <2>2. StatusIsTrue'
    BY <1>9 DEF GoOnline, TransportT, StatusIsTrue, LiveMeansConnected, NeverStranded
  <2> QED BY <2>1, <2>2
<1>10. CASE Stop
  <2>1. TransportT' BY <1>10 DEF Stop, TransportT
  <2>2. StatusIsTrue' BY <1>10 DEF Stop, StatusIsTrue
  <2> QED BY <2>1, <2>2
<1>11. ASSUME NEW v \in Views, ViewStep(v) PROVE TransportInv'
  <2>1. UNCHANGED <<online, stopped, transport, status>>
    BY <1>11 DEF ViewStep, Watch, Answer, Unwatch
  <2> QED BY <2>1 DEF TransportT, StatusIsTrue, LiveMeansConnected, NeverStranded
<1>12. CASE SubscriptionError
  <2>1. TransportT' BY <1>12 DEF SubscriptionError, Down, TransportT
  <2>2. StatusIsTrue'
    BY <1>12 DEF SubscriptionError, Down, TransportT, StatusIsTrue, LiveMeansConnected, NeverStranded
  <2> QED BY <2>1, <2>2
<1>13. CASE UNCHANGED vars
  BY <1>13 DEF vars, TransportT, StatusIsTrue, LiveMeansConnected, NeverStranded
<1> QED
  BY <1>1, <1>2, <1>3, <1>4, <1>5, <1>6, <1>7, <1>8, <1>9, <1>10, <1>11, <1>12, <1>13
  DEF Next, ViewStep

-----------------------------------------------------------------------------
(* The table of subscriptions.                                             *)

Held == {v \in Views : watch[v].phase = "holding"}

TableT ==
  /\ stopped \in BOOLEAN /\ client \in Clients \union {NoClient}
  /\ entry \in [owner : Views \union {"none"}, on : Clients \union {NoClient}, consumers : Nat]
  /\ watch \in [Views -> [phase : Phases, on : Clients \union {NoClient}, owner : Views \union {"none"}]]

\* Until stop() there is one subscription: what any view holds is the entry's,
\* whichever client it was made on.  Counting is inductive only with this.
Table ==
  /\ stopped => entry = NoEntry
  /\ ~stopped => \A v \in Held : /\ entry # NoEntry
                                 /\ watch[v].owner = entry.owner /\ watch[v].on = entry.on
  /\ entry # NoEntry => entry.consumers = Cardinality(Held) /\ entry.consumers > 0

TableInv == TableT /\ Table

LEMMA HeldIsFinite == IsFiniteSet(Held) /\ Cardinality(Held) \in Nat /\ Cardinality(Held) <= Cardinality(Views)
<1>1. Held \in SUBSET Views BY DEF Held
<1> QED BY <1>1, FS_Subset, FS_CardinalityType, CoordinatorAssumption

LEMMA TableInit == ASSUME Init PROVE TableInv
<1>1. TableT BY DEF Init, TableT, NoEntry, NoView, Phases
<1>2. Table BY DEF Init, Table, NoView, Held
<1> QED BY <1>1, <1>2 DEF TableInv

\* What a change of one view does to what is held.
LEMMA SetViewHolds ==
  ASSUME TableInv, NEW v \in Views, NEW phase \in Phases, NEW owner \in Views \union {"none"},
         NEW on \in Clients \union {NoClient}, SetView(v, phase, owner, on)
  PROVE  /\ watch' \in [Views -> [phase : Phases, on : Clients \union {NoClient}, owner : Views \union {"none"}]]
         /\ Held' = IF phase = "holding" THEN Held \union {v} ELSE Held \ {v}
         /\ watch'[v].owner = owner /\ watch'[v].on = on
         /\ \A u \in Views \ {v} : watch'[u] = watch[u]
  BY DEF TableInv, TableT, SetView, Held

\* A view that holds nothing before or after changes nothing of the table.
LEMMA NothingHeld ==
  ASSUME TableInv, NEW v \in Views, NEW phase \in Phases \ {"holding"}, NEW owner \in Views \union {"none"},
         NEW on \in Clients \union {NoClient}, SetView(v, phase, owner, on),
         watch[v].phase # "holding", UNCHANGED <<stopped, client, entry>>
  PROVE  TableInv'
<1>1. Held' = Held BY SetViewHolds DEF Held
<1>2. \A u \in Held : watch'[u] = watch[u] BY SetViewHolds DEF Held
<1>3. TableT' BY SetViewHolds DEF TableInv, TableT
<1>4. Table' BY <1>1, <1>2 DEF TableInv, Table
<1> QED BY <1>3, <1>4 DEF TableInv

LEMMA TableNext ==
  ASSUME TransportInv, TransportInv', TableInv, [Next]_vars
  PROVE  TableInv'
<1>0. TransportT /\ TransportT' BY DEF TransportInv
<1>1. ASSUME NEW v \in Views, Watch(v) PROVE TableInv'
  <2> USE DEF TableInv, transport
  <2>1. /\ ~stopped /\ watch[v].phase = "idle" /\ v \notin Held
        /\ UNCHANGED <<stopped, client>>
    BY <1>1 DEF Watch, Held
  <2>2. CASE client = NoClient
    <3>1. SetView(v, "none", "none", NoClient) /\ UNCHANGED entry BY <1>1, <2>2 DEF Watch
    <3> QED BY <2>1, <3>1, NothingHeld DEF Phases
  <2>3. CASE client # NoClient /\ entry # NoEntry
    <3>1. entry' = [entry EXCEPT !.consumers = @ + 1] /\ SetView(v, "holding", entry.owner, entry.on)
      BY <1>1, <2>3 DEF Watch
    <3>2. /\ entry'.consumers = entry.consumers + 1 /\ entry'.owner = entry.owner /\ entry'.on = entry.on
          /\ entry' \in [owner : Views \union {"none"}, on : Clients \union {NoClient}, consumers : Nat]
          /\ entry.consumers \in Nat
      BY <3>1 DEF TableT
    <3>3. /\ watch' \in [Views -> [phase : Phases, on : Clients \union {NoClient}, owner : Views \union {"none"}]]
          /\ Held' = Held \union {v}
          /\ watch'[v].owner = entry.owner /\ watch'[v].on = entry.on
          /\ \A u \in Views \ {v} : watch'[u] = watch[u]
      BY <3>1, SetViewHolds DEF Phases, TableT
    <3>4. Cardinality(Held') = Cardinality(Held) + 1 BY <2>1, <3>3, HeldIsFinite, FS_AddElement
    <3>5. entry' # NoEntry BY <3>2 DEF NoEntry
    <3>6. TableT' BY <2>1, <3>2, <3>3 DEF TableT
    <3>7. Held \subseteq Views \ {v} BY <2>1 DEF Held
    <3>8. Table' BY <2>1, <2>3, <3>2, <3>3, <3>4, <3>5, <3>7 DEF Table
    <3> QED BY <3>6, <3>8
  <2>4. CASE client # NoClient /\ entry = NoEntry
    <3>1. SetView(v, "waiting", v, client) /\ UNCHANGED entry BY <1>1, <2>4 DEF Watch
    <3> QED BY <2>1, <3>1, NothingHeld DEF Phases, TableT
  <2> QED BY <2>2, <2>3, <2>4
<1>2. ASSUME NEW v \in Views, Answer(v) PROVE TableInv'
  <2> USE DEF TableInv, transport
  <2>1. /\ watch[v].phase \in {"waiting", "disposed"} /\ v \notin Held
        /\ UNCHANGED <<stopped, client>>
    BY <1>2 DEF Answer, Held
  <2>2. CASE watch[v].phase = "disposed" \/ stopped \/ client # watch[v].on \/ entry # NoEntry
    <3>1. UNCHANGED entry /\ \E phase \in {"idle", "none"} : SetView(v, phase, "none", NoClient)
      BY <1>2, <2>2 DEF Answer
    <3> QED BY <2>1, <3>1, NothingHeld DEF Phases
  <2>3. CASE watch[v].phase = "waiting" /\ ~stopped /\ client = watch[v].on /\ entry = NoEntry
    <3>1. entry' = [owner |-> v, on |-> client, consumers |-> 1] /\ SetView(v, "holding", v, client)
      BY <1>2, <2>3 DEF Answer
    <3>2. Held = {} BY <2>3 DEF Table
    <3>3. /\ watch' \in [Views -> [phase : Phases, on : Clients \union {NoClient}, owner : Views \union {"none"}]]
          /\ Held' = {v}
          /\ watch'[v].owner = v /\ watch'[v].on = client
      BY <3>1, <3>2, SetViewHolds DEF Phases, TableT
    <3>4. Cardinality(Held') = 1 BY <3>3, FS_Singleton
    <3>5. entry' # NoEntry BY <3>1 DEF NoEntry
    <3>6. TableT' BY <2>1, <3>1, <3>3 DEF TableT
    <3>7. Table' BY <2>1, <2>3, <3>1, <3>3, <3>4, <3>5 DEF Table
    <3> QED BY <3>6, <3>7
  <2> QED BY <2>1, <2>2, <2>3
<1>3. ASSUME NEW v \in Views, Unwatch(v) PROVE TableInv'
  <2> USE DEF TableInv, transport
  <2>1. watch[v].phase \in {"waiting", "holding", "none"} /\ UNCHANGED <<stopped, client>>
    BY <1>3 DEF Unwatch
  <2>2. CASE watch[v].phase = "waiting"
    <3>1. SetView(v, "disposed", watch[v].owner, watch[v].on) /\ UNCHANGED entry
      BY <1>3, <2>2 DEF Unwatch
    <3>2. watch[v].owner \in Views \union {"none"} /\ watch[v].on \in Clients \union {NoClient}
      BY DEF TableT
    <3> QED BY <2>1, <2>2, <3>1, <3>2, NothingHeld DEF Phases
  <2>3. CASE watch[v].phase = "none"
    <3>1. SetView(v, "idle", "none", NoClient) /\ UNCHANGED entry
      BY <1>3, <2>3 DEF Unwatch
    <3> QED BY <2>1, <2>3, <3>1, NothingHeld DEF Phases
  <2>4. CASE watch[v].phase = "holding"
    <3>1. SetView(v, "idle", "none", NoClient) /\ Release(watch[v])
      BY <1>3, <2>4 DEF Unwatch
    <3>2. v \in Held BY <2>4 DEF Held
    <3>3. /\ watch' \in [Views -> [phase : Phases, on : Clients \union {NoClient}, owner : Views \union {"none"}]]
          /\ Held' = Held \ {v}
          /\ \A u \in Views \ {v} : watch'[u] = watch[u]
      BY <3>1, SetViewHolds DEF Phases
    <3>4. Cardinality(Held') = Cardinality(Held) - 1 BY <3>2, <3>3, HeldIsFinite, FS_RemoveElement
    <3>5. \A u \in Held' : u \in Held /\ watch'[u] = watch[u] BY <3>3 DEF Held
    <3>6. CASE stopped
      <4>1. entry = NoEntry /\ entry' = NoEntry BY <3>1, <3>6 DEF Table, Release
      <4>2. TableT' BY <2>1, <3>3, <4>1 DEF TableT
      <4> QED BY <2>1, <3>6, <4>1, <4>2 DEF Table
    <3>7. CASE ~stopped /\ entry.consumers > 1
      <4>1. entry # NoEntry /\ watch[v].owner = entry.owner /\ watch[v].on = entry.on
        BY <3>2, <3>7 DEF Table
      <4>2. entry' = [entry EXCEPT !.consumers = @ - 1] BY <3>1, <3>7, <4>1 DEF Release
      <4>3. /\ entry'.consumers = entry.consumers - 1 /\ entry'.owner = entry.owner /\ entry'.on = entry.on
            /\ entry' \in [owner : Views \union {"none"}, on : Clients \union {NoClient}, consumers : Nat]
            /\ entry'.consumers > 0
        BY <3>7, <4>2 DEF TableT
      <4>4. entry' # NoEntry BY <4>3 DEF NoEntry
      <4>5. TableT' BY <2>1, <3>3, <4>3 DEF TableT
      <4>6. Table' BY <2>1, <3>4, <3>5, <3>7, <4>1, <4>3, <4>4 DEF Table
      <4> QED BY <4>5, <4>6
    <3>8. CASE ~stopped /\ ~(entry.consumers > 1)
      <4>1. entry # NoEntry /\ watch[v].owner = entry.owner /\ watch[v].on = entry.on
        BY <3>2, <3>8 DEF Table
      <4>2. entry' = NoEntry BY <3>1, <3>8, <4>1 DEF Release
      <4>3. Cardinality(Held) = 1 BY <3>8, <4>1 DEF Table, TableT
      <4>4. IsFiniteSet(Held') /\ Cardinality(Held') = 0
        BY <3>3, <3>4, <4>3, HeldIsFinite, FS_RemoveElement
      <4>5. Held' = {} BY <4>4, FS_EmptySet
      <4>6. TableT' BY <2>1, <3>3, <4>2 DEF TableT, NoEntry
      <4>7. Table' BY <2>1, <3>8, <4>2, <4>5 DEF Table
      <4> QED BY <4>6, <4>7
    <3> QED BY <3>6, <3>7, <3>8
  <2> QED BY <2>1, <2>2, <2>3, <2>4
<1>4. CASE Stop
  <2>1. stopped' = TRUE /\ entry' = NoEntry /\ watch' = watch BY <1>4 DEF Stop
  <2>2. TableT' BY <1>0, <2>1 DEF TransportT, TableInv, TableT, NoEntry
  <2>3. Table' BY <2>1 DEF Table
  <2> QED BY <2>2, <2>3 DEF TableInv
<1>5. ASSUME UNCHANGED <<stopped, entry, watch>> PROVE TableInv'
  <2>1. TableT' BY <1>0, <1>5 DEF TransportT, TableInv, TableT
  <2>2. Held' = Held BY <1>5 DEF Held
  <2>3. Table' BY <1>5, <2>2 DEF TableInv, Table
  <2> QED BY <2>1, <2>3 DEF TableInv
<1>6. \/ \E v \in Views : Watch(v) \/ Answer(v) \/ Unwatch(v)
      \/ Stop
      \/ UNCHANGED <<stopped, entry, watch>>
  BY DEF Next, SessionOk, SessionFails, RetryFires, WatchdogFires, LoseClient, Connected, Reconnecting,
         Disconnected, GoOffline, GoOnline, SubscriptionError, vars
<1> QED BY <1>1, <1>2, <1>3, <1>4, <1>5, <1>6

-----------------------------------------------------------------------------
LEMMA Invariants == Spec => [](TransportInv /\ TableInv)
<1>1. Init => TransportInv /\ TableInv BY TransportInit, TableInit
<1>2. TransportInv /\ TableInv /\ [Next]_vars => TransportInv' /\ TableInv'
  BY TransportNext, TableNext
<1> QED BY <1>1, <1>2, PTL DEF Spec

MissedInv == missed \subseteq Views

LEMMA MissedAreViews == Spec => []MissedInv
<1>1. Init => MissedInv BY DEF Init, MissedInv
<1>2. MissedInv /\ [Next]_vars => MissedInv'
  <2> SUFFICES ASSUME MissedInv, [Next]_vars PROVE MissedInv'
    OBVIOUS
  <2>1. missed' = missed \/ \E v \in Views : missed' \subseteq missed \union {v}
    BY DEF Next, SessionOk, SessionFails, RetryFires, WatchdogFires, Connected, Reconnecting, Disconnected,
           GoOffline, GoOnline, Stop, Watch, Answer, Unwatch, SubscriptionError, vars
  <2> QED BY <2>1 DEF MissedInv
<1> QED BY <1>1, <1>2, PTL DEF Spec

\* Every variable keeps its type, and no release is counted that was no consumer's.
THEOREM TypeCorrect == Spec => []TypeOK
<1>1. TransportInv /\ TableInv /\ MissedInv => TypeOK
  <2> SUFFICES ASSUME TransportInv, TableInv, MissedInv PROVE TypeOK
    OBVIOUS
  <2>1. entry.consumers \in 0 .. Cardinality(Views)
    <3>1. CASE entry = NoEntry
      <4>1. Cardinality(Views) \in Nat BY FS_CardinalityType, CoordinatorAssumption
      <4> QED BY <3>1, <4>1 DEF NoEntry
    <3>2. CASE entry # NoEntry
      <4>1. Cardinality(Views) \in Nat BY FS_CardinalityType, CoordinatorAssumption
      <4> QED BY <3>2, <4>1, HeldIsFinite DEF TableInv, Table
    <3> QED BY <3>1, <3>2
  <2>2. /\ entry.on \in Clients \union {NoClient} /\ entry.owner \in Views \union {"none"}
        /\ \A v \in Views : watch[v].phase \in Phases
    BY DEF TableInv, TableT
  <2> QED BY <2>1, <2>2 DEF TransportInv, TransportT, MissedInv, TypeOK
<1> QED BY <1>1, Invariants, MissedAreViews, PTL

\* The coordinator's status is true: "live" only with its own client connected,
\* and while the browser is online, whatever timers and callbacks do to each
\* other, something is under way that leads there.
THEOREM StatusTells == Spec => []StatusIsTrue
<1>1. TransportInv => StatusIsTrue BY DEF TransportInv
<1> QED BY <1>1, Invariants, PTL

\* The consumers of the Thread's subscription are the views that hold it, with
\* any number of views, requests in flight and clients.
THEOREM ConsumersAreCounted == Spec => []ConsumersCounted
<1>1. TableInv => ConsumersCounted
  <2> SUFFICES ASSUME TableInv, entry # NoEntry
               PROVE  entry.consumers = Cardinality({v \in Views : /\ watch[v].phase = "holding"
                                                                  /\ watch[v].owner = entry.owner
                                                                  /\ watch[v].on = entry.on})
    BY DEF ConsumersCounted
  <2>1. {v \in Views : watch[v].phase = "holding" /\ watch[v].owner = entry.owner /\ watch[v].on = entry.on} = Held
    BY DEF TableInv, Table, Held
  <2> QED BY <2>1 DEF TableInv, Table
<1> QED BY <1>1, Invariants, PTL

-----------------------------------------------------------------------------
(* The views while the status is "live".                                   *)

\* Until another view's request was answered first, or a former client's
\* subscription joined: a view has yet to ask, or what it has asked for or holds
\* is of the current client.  The effects of a status that was not "live" have
\* run before it is again.
LiveView(v) ==
  v \in FollowsStatus \ missed /\ ~stopped /\ status = "live" =>
    \/ watch[v].phase \in {"idle", "disposed"}
    \/ watch[v].phase \in {"waiting", "holding"} /\ watch[v].on = client

\* A step of one view leaves another as it is.
LEMMA OtherView ==
  ASSUME NEW u \in Views, NEW v \in Views, u # v, TableInv, ViewStep(u), LiveView(v)
  PROVE  LiveView(v)'
<1>1. UNCHANGED <<stopped, client, status>> BY DEF ViewStep, Watch, Answer, Unwatch, transport
<1>2. \E phase, owner, on : SetView(u, phase, owner, on) BY DEF ViewStep, Watch, Answer, Unwatch
<1>3. watch'[v] = watch[v] BY <1>2 DEF SetView, TableInv, TableT
<1>4. v \in missed' <=> v \in missed BY DEF ViewStep, Watch, Answer, Unwatch
<1> QED BY <1>1, <1>3, <1>4 DEF LiveView

LEMMA LiveViewNext ==
  ASSUME NEW v \in Views, TransportInv, TransportInv', TableInv, LiveView(v), [Next]_vars
  PROVE  LiveView(v)'
<1> SUFFICES ASSUME v \in FollowsStatus, v \notin missed', ~stopped', status' = "live"
             PROVE  LiveView(v)'
  BY DEF LiveView
<1> USE DEF transport, bounds
<1>a. watch \in [Views -> [phase : Phases, on : Clients \union {NoClient}, owner : Views \union {"none"}]]
  BY DEF TableInv, TableT
<1>1. ASSUME NEW c \in Clients, Connected(c) PROVE LiveView(v)'
  <2>1. CASE Heard(c)
    <3>1. CASE status # "live" BY <1>1, <3>1 DEF Connected, Rendered, LiveView
    <3>2. CASE status = "live" BY <1>1, <3>2 DEF Connected, LiveView
    <3> QED BY <3>1, <3>2
  <2>2. CASE ~Heard(c) BY <1>1, <2>2 DEF Connected, LiveView
  <2> QED BY <2>1, <2>2
<1>2. ASSUME status = "live", UNCHANGED <<stopped, client, watch, missed>> PROVE LiveView(v)'
  BY <1>2 DEF LiveView
<1>3. CASE Watch(v)
  <2>1. /\ ~stopped /\ watch[v].phase = "idle" /\ status = "live" /\ client' = client
        /\ entry = NoEntry \/ entry.on = client
    BY <1>3 DEF Watch
  <2>2. client # NoClient BY <2>1 DEF TransportInv, StatusIsTrue, LiveMeansConnected
  <2>3. \/ SetView(v, "holding", entry.owner, client) \/ SetView(v, "waiting", v, client)
    BY <1>3, <2>1, <2>2 DEF Watch
  <2> QED BY <1>a, <2>1, <2>3 DEF SetView, LiveView
<1>4. CASE Answer(v)
  <2>1. UNCHANGED <<stopped, client, status>> /\ watch[v].phase \in {"waiting", "disposed"} BY <1>4 DEF Answer
  <2>2. CASE watch[v].phase = "disposed"
    <3>1. SetView(v, "idle", "none", NoClient) BY <1>4, <2>2 DEF Answer
    <3> QED BY <1>a, <3>1 DEF SetView, LiveView
  <2>3. CASE watch[v].phase = "waiting"
    <3>1. entry = NoEntry /\ v \notin missed BY <1>4, <2>3 DEF Answer
    <3>2. ~stopped /\ client = watch[v].on BY <2>1, <2>3, <3>1 DEF LiveView
    <3>3. SetView(v, "holding", v, client) BY <1>4, <2>3, <3>1, <3>2 DEF Answer
    <3> QED BY <1>a, <2>1, <3>3 DEF SetView, LiveView
  <2> QED BY <2>1, <2>2, <2>3
<1>5. CASE Unwatch(v)
  <2>1. \E owner, on : SetView(v, "disposed", owner, on) \/ SetView(v, "idle", owner, on)
    BY <1>5 DEF Unwatch
  <2> QED BY <1>a, <2>1 DEF SetView, LiveView
<1>6. ASSUME NEW u \in Views, u # v, ViewStep(u) PROVE LiveView(v)'
  BY <1>6, OtherView
<1>7. CASE \/ SessionOk \/ SessionFails \/ RetryFires \/ WatchdogFires
           \/ \E c \in Clients : Reconnecting(c) \/ Disconnected(c)
           \/ GoOffline \/ GoOnline \/ Stop \/ SubscriptionError
           \/ UNCHANGED vars
  <2>1. status' = "live" /\ ~stopped' => status = "live" /\ UNCHANGED <<stopped, client, watch, missed>>
    BY <1>7 DEF SessionOk, SessionFails, RetryFires, WatchdogFires, LoseClient, Reconnecting, Disconnected,
                Heard, GoOffline, GoOnline, Stop, SubscriptionError, Down, Connecting, vars
  <2> QED BY <1>2, <2>1
<1> QED BY <1>1, <1>3, <1>4, <1>5, <1>6, <1>7 DEF Next, ViewStep

\* With any views of the Thread, through any failures and network changes: while
\* the status is "live", the Thread of a view whose subscription request has been
\* answered is subscribed on the connected client, unless that view came second
\* with its request or joined what another one kept of a former client.
THEOREM LiveThreadSubscribed == Spec => []LiveThreadIsSubscribed
<1> DEFINE Live == \A v \in Views : LiveView(v)
<1>1. Init => Live BY DEF Init, LiveView, NoView
<1>2. TransportInv /\ TransportInv' /\ TableInv /\ Live /\ [Next]_vars => Live'
  BY LiveViewNext
<1>3. TransportInv /\ TableInv /\ Live => LiveThreadIsSubscribed
  <2> SUFFICES ASSUME TransportInv, TableInv, NEW v \in FollowsStatus \ missed, LiveView(v),
                      ~stopped, status = "live", watch[v].phase \in {"holding", "none"}
               PROVE  entry.on = client
    BY CoordinatorAssumption DEF LiveThreadIsSubscribed
  <2>1. watch[v].phase = "holding" /\ watch[v].on = client BY DEF LiveView
  <2>2. v \in Held BY <2>1, CoordinatorAssumption DEF Held
  <2> QED BY <2>1, <2>2 DEF TableInv, Table
<1> HIDE DEF Live
<1> QED BY <1>1, <1>2, <1>3, Invariants, PTL DEF Spec

-----------------------------------------------------------------------------
(* The previews of a message.                                              *)

PreviewT ==
  /\ message \in Preview!Rows \union {NoMessage}
  /\ previewCache \subseteq Links /\ unreachable \subseteq Links
  /\ row \in BOOLEAN /\ queue \in {"none", "waiting", "running", "dead"}
  /\ attempt \in 0 .. MaxPreviewAttempts /\ troubles \in 0 .. MaxTroubles
  /\ at \in {"idle", "read", "look", "fetch", "end"} /\ (at # "idle") = (queue = "running")
  /\ urls \subseteq Links /\ todo \subseteq urls /\ found \subseteq Links

\* A person's message is complete, and a Stand-in's links are those of its text.
MessageIs ==
  message # NoMessage =>
    /\ message.sender = "person" => message.stream = "complete"
    /\ message.sender = "standin" /\ message.stream = "complete" =>
         message.text = {} \/ message.text = message.urls

\* There is a row or a job only for a complete message with links, and the links
\* a job has read are still the message's: the refinement needs it where the job
\* writes them back.
JobIs ==
  /\ row \/ queue # "none" =>
       message # NoMessage /\ message.stream = "complete" /\ message.urls # {}
  /\ at \in {"look", "fetch", "end"} => urls = message.urls
  /\ at \in {"idle", "read", "look"} => todo = {}
  /\ queue = "waiting" => attempt < MaxPreviewAttempts

PreviewInv == PreviewT /\ MessageIs /\ JobIs

\* A set of numbers has a least one.
LEMMA MinIs ==
  ASSUME NEW S, S \subseteq Nat, S # {}
  PROVE  Preview!Min(S) \in S
<1>1. PICK m \in S : \A y \in S : <<y, m>> \notin OpToRel(<, Nat)
  BY NatLessThanWellFounded, WFMin
<1>2. \A y \in S : m <= y
  <2> TAKE y \in S
  <2>1. ~(y < m) BY <1>1 DEF OpToRel
  <2> QED BY <2>1
<1> QED BY <1>2, Zenon DEF Preview!Min

LEMMA WrittenIs ==
  ASSUME NEW m \in Preview!Rows, NEW t \in SUBSET Links, NEW s \in {"pending", "complete"}
  PROVE  /\ Preview!Written(m, t, s) \in Preview!Rows
         /\ Preview!Written(m, t, s).sender = m.sender /\ Preview!Written(m, t, s).stream = s
         /\ Preview!Written(m, t, s).text = t
         /\ Preview!Written(m, t, s).urls = IF t = {} THEN m.urls ELSE t
         /\ Preview!Written(m, t, s).hidden = m.hidden /\ Preview!Written(m, t, s).deleted = m.deleted
<1>1. /\ m.sender \in {"person", "standin"} /\ m.urls \in SUBSET Links
      /\ m.hidden \in BOOLEAN /\ m.deleted \in BOOLEAN
  BY DEF Preview!Rows
<1>2. CASE t = {}
  BY <1>1, <1>2 DEF Preview!Written, Preview!Rows
<1>3. CASE t # {}
  BY <1>1, <1>3 DEF Preview!Written, Preview!Rows
<1> QED BY <1>2, <1>3

LEMMA NewIs ==
  ASSUME NEW sender \in {"person", "standin"}
  PROVE  /\ Preview!New(sender) \in Preview!Rows
         /\ Preview!New(sender).sender = sender /\ Preview!New(sender).stream = "pending"
         /\ Preview!New(sender).text = {} /\ Preview!New(sender).urls = {}
         /\ Preview!New(sender).hidden = FALSE /\ Preview!New(sender).deleted = FALSE
  BY DEF Preview!New, Preview!Rows

LEMMA PreviewInit == ASSUME Preview!Init, Preview!PreviewAssumption PROVE PreviewInv
<1>1. PreviewT
  <2>1. 0 \in 0 .. MaxPreviewAttempts /\ 0 \in 0 .. MaxTroubles BY DEF Preview!PreviewAssumption
  <2> QED BY <2>1 DEF Preview!Init, PreviewT
<1>2. MessageIs /\ JobIs BY DEF Preview!Init, MessageIs, JobIs
<1> QED BY <1>1, <1>2 DEF PreviewInv

LEMMA PreviewNext ==
  ASSUME PreviewInv, [Preview!Next]_(Preview!vars), Preview!PreviewAssumption
  PROVE  PreviewInv'
<1> USE DEF PreviewInv, Preview!Others, Preview!job, Preview!handler
<1>0. NoMessage \notin Preview!Rows /\ Links \subseteq Nat /\ MaxPreviewAttempts \in Nat /\ MaxTroubles \in Nat
  BY DEF Preview!PreviewAssumption
<1>a. message # NoMessage => /\ message \in Preview!Rows /\ message.sender \in {"person", "standin"}
                             /\ message.text \in SUBSET Links /\ message.urls \in SUBSET Links
                             /\ message.stream \in {"pending", "complete"}
                             /\ message.hidden \in BOOLEAN /\ message.deleted \in BOOLEAN
  BY DEF PreviewT, Preview!Rows
\* A change of the message that leaves the worker alone.
<1>b. ASSUME NEW m \in Preview!Rows, message' = m, UNCHANGED Preview!Others, row' \in BOOLEAN,
             m.sender = "person" => m.stream = "complete",
             m.sender = "standin" /\ m.stream = "complete" => m.text = {} \/ m.text = m.urls,
             row' => row \/ (m.urls # {} /\ m.stream = "complete"),
             row \/ queue # "none" => m.urls = message.urls /\ m.stream = "complete"
      PROVE  PreviewInv'
  <2>1. PreviewT' BY <1>b DEF PreviewT
  <2>2. message' # NoMessage BY <1>0, <1>b
  <2>3. MessageIs' BY <1>b, <2>2 DEF MessageIs
  <2>4. at \in {"look", "fetch", "end"} => queue = "running" BY DEF PreviewT
  <2>5. JobIs' BY <1>b, <2>2, <2>4 DEF JobIs
  <2> QED BY <2>1, <2>3, <2>5
<1>1. CASE Preview!Append
  <2>0. message = NoMessage /\ UNCHANGED Preview!Others /\ ~row /\ queue = "none"
    BY <1>1 DEF Preview!Append, JobIs, PreviewT
  <2>1. ASSUME NEW text \in SUBSET Links, message' = Preview!Written(Preview!New("person"), text, "complete"), Preview!Enqueue
        PROVE  PreviewInv'
    <3> DEFINE m == Preview!Written(Preview!New("person"), text, "complete")
    <3>1. /\ m \in Preview!Rows /\ m.sender = "person" /\ m.stream = "complete"
      BY NewIs, WrittenIs
    <3>2. row' \in BOOLEAN /\ (row' => m.urls # {}) BY <2>0, <2>1 DEF Preview!Enqueue, PreviewT
    <3> HIDE DEF m
    <3> QED BY <1>b, <2>0, <2>1, <3>1, <3>2 DEF m
  <2>2. ASSUME message' = Preview!New("standin"), UNCHANGED row
        PROVE  PreviewInv'
    <3> DEFINE m == Preview!New("standin")
    <3>1. m \in Preview!Rows /\ m.sender = "standin" /\ m.stream = "pending" BY NewIs
    <3>2. message' = m /\ row' = FALSE BY <2>0, <2>2 DEF PreviewT
    <3> HIDE DEF m
    <3> QED BY <1>b, <2>0, <3>1, <3>2
  <2> QED BY <1>1, <2>1, <2>2 DEF Preview!Append
<1>2. ASSUME NEW text \in SUBSET Links, NEW s \in {"pending", "complete"}, Preview!Stream(text, s)
      PROVE  PreviewInv'
  <2>0. /\ message # NoMessage /\ message.sender = "standin" /\ UNCHANGED Preview!Others
        /\ message.stream = "complete" => s = "complete" /\ text = message.text
        /\ message' = Preview!Written(message, text, s)
        /\ IF s = "complete" THEN Preview!Enqueue ELSE UNCHANGED row
    BY <1>2 DEF Preview!Stream
  <2> DEFINE m == Preview!Written(message, text, s)
  <2>1. /\ m \in Preview!Rows /\ m.sender = "standin" /\ m.stream = s /\ m.text = text
        /\ m.urls = IF text = {} THEN message.urls ELSE text
    BY <1>a, <2>0, WrittenIs
  <2>2. message' = m BY <2>0
  <2> HIDE DEF m
  <2>3. row' \in BOOLEAN /\ (row' => row \/ (s = "complete" /\ m.urls # {}))
    <3>1. row' \in BOOLEAN
      <4>1. row \in BOOLEAN /\ (row \/ m.urls # {}) \in BOOLEAN BY DEF PreviewT
      <4> QED BY <2>0, <2>2, <4>1 DEF Preview!Enqueue
    <3>2. CASE row
      <4> QED BY <3>1, <3>2, Zenon
    <3>3. CASE ~row
      <4>1. row = FALSE BY <3>3 DEF PreviewT
      <4>2. CASE s = "complete"
        <5>1. row' = (m.urls # {}) BY <2>0, <2>2, <4>1, <4>2 DEF Preview!Enqueue
        <5> QED BY <4>2, <5>1
      <4>3. CASE s # "complete"
        <5>1. row' = FALSE BY <2>0, <4>1, <4>3
        <5> QED BY <5>1
      <4> QED BY <4>2, <4>3
    <3> QED BY <3>2, <3>3
  <2>4. row \/ queue # "none" => s = "complete" /\ m.urls = message.urls
    BY <2>0, <2>1 DEF JobIs, MessageIs
  <2>5. UNCHANGED Preview!Others BY <2>0
  <2> QED BY <1>b, <2>1, <2>2, <2>3, <2>4, <2>5
<1>3. ASSUME Preview!Own, UNCHANGED <<row, Preview!Others>>,
             NEW m \in Preview!Rows, message' = m, m.sender = message.sender, m.stream = message.stream,
             m.urls = message.urls
      PROVE  PreviewInv'
  <2>1. message # NoMessage /\ m.sender = "person" /\ m.stream = "complete"
    BY <1>3 DEF Preview!Own, MessageIs
  <2>2. row \in BOOLEAN /\ UNCHANGED Preview!Others /\ row' = row BY <1>3 DEF PreviewT
  <2> QED BY <1>b, <1>3, <2>1, <2>2 DEF JobIs
<1>4. ASSUME NEW text \in SUBSET Links, Preview!Edit(text) PROVE PreviewInv'
  <2>0. Preview!Own /\ message' = [message EXCEPT !.text = text] /\ UNCHANGED <<row, Preview!Others>>
    BY <1>4 DEF Preview!Edit
  <2> DEFINE m == [message EXCEPT !.text = text]
  <2>1. m \in Preview!Rows /\ m.sender = message.sender /\ m.stream = message.stream /\ m.urls = message.urls
    BY <1>a, <2>0 DEF Preview!Own, Preview!Rows
  <2>2. message' = m BY <2>0
  <2> HIDE DEF m
  <2> QED BY <1>3, <2>0, <2>1, <2>2
<1>5. CASE Preview!Delete
  <2>0. Preview!Own /\ message' = [message EXCEPT !.text = {}, !.deleted = TRUE] /\ UNCHANGED <<row, Preview!Others>>
    BY <1>5 DEF Preview!Delete
  <2> DEFINE m == [message EXCEPT !.text = {}, !.deleted = TRUE]
  <2>1. m \in Preview!Rows /\ m.sender = message.sender /\ m.stream = message.stream /\ m.urls = message.urls
    BY <1>a, <2>0 DEF Preview!Own, Preview!Rows
  <2>2. message' = m BY <2>0
  <2> HIDE DEF m
  <2> QED BY <1>3, <2>0, <2>1, <2>2
<1>6. CASE Preview!Hide
  <2>0. Preview!Own /\ message' = [message EXCEPT !.hidden = TRUE] /\ UNCHANGED <<row, Preview!Others>>
    BY <1>6 DEF Preview!Hide
  <2> DEFINE m == [message EXCEPT !.hidden = TRUE]
  <2>1. m \in Preview!Rows /\ m.sender = message.sender /\ m.stream = message.stream /\ m.urls = message.urls
    BY <1>a, <2>0 DEF Preview!Own, Preview!Rows
  <2>2. message' = m BY <2>0
  <2> HIDE DEF m
  <2> QED BY <1>3, <2>0, <2>1, <2>2
<1>7. ASSUME NEW u \in Links, Preview!Expire(u) PROVE PreviewInv'
  <2>1. PreviewT' BY <1>7 DEF Preview!Expire, PreviewT
  <2> QED BY <1>7, <2>1 DEF Preview!Expire, MessageIs, JobIs
<1>8. ASSUME Preview!Add, UNCHANGED <<message, previewCache, unreachable, Preview!handler, found>>, row,
             row' \in BOOLEAN, troubles' \in 0 .. MaxTroubles
      PROVE  PreviewInv'
  <2>0. 0 \in 0 .. MaxPreviewAttempts /\ 0 < MaxPreviewAttempts BY DEF Preview!PreviewAssumption
  <2>1. PreviewT' BY <1>8, <2>0 DEF Preview!Add, PreviewT
  <2>2. MessageIs' BY <1>8 DEF MessageIs
  <2>3. JobIs' BY <1>8, <2>0 DEF Preview!Add, JobIs
  <2> QED BY <2>1, <2>2, <2>3
<1>9. CASE Preview!Dispatch
  <2>1. troubles' \in 0 .. MaxTroubles /\ row' \in BOOLEAN BY <1>9 DEF Preview!Dispatch, PreviewT
  <2> QED BY <1>8, <1>9, <2>1 DEF Preview!Dispatch
<1>10. CASE Preview!DispatchFails
  <2>1. troubles' \in 0 .. MaxTroubles /\ row' \in BOOLEAN BY <1>0, <1>10 DEF Preview!DispatchFails, PreviewT
  <2>2. CASE Preview!Add BY <1>8, <1>10, <2>1, <2>2 DEF Preview!DispatchFails
  <2>3. CASE UNCHANGED Preview!job
    <3>1. PreviewT' BY <1>10, <2>1, <2>3 DEF Preview!DispatchFails, PreviewT
    <3> QED BY <1>10, <2>3, <3>1 DEF Preview!DispatchFails, MessageIs, JobIs
  <2> QED BY <1>10, <2>2, <2>3 DEF Preview!DispatchFails
<1>11. CASE Preview!Start
  <2>1. attempt' \in 0 .. MaxPreviewAttempts BY <1>0, <1>11 DEF Preview!Start, PreviewT, JobIs
  <2>2. PreviewT' BY <1>11, <2>1 DEF Preview!Start, PreviewT
  <2>3. todo = {} BY <1>11 DEF Preview!Start, PreviewT, JobIs
  <2> QED BY <1>11, <2>2, <2>3 DEF Preview!Start, MessageIs, JobIs
\* The end of a run of the job.
<1>12. ASSUME at # "idle", Preview!Returns \/ Preview!Throws, UNCHANGED <<message, unreachable, row>>,
              previewCache' \subseteq Links, found' \subseteq Links, troubles' \in 0 .. MaxTroubles
       PROVE  PreviewInv'
  <2>1. /\ queue' \in {"none", "waiting", "dead"} /\ attempt' = attempt /\ at' = "idle" /\ urls' = {} /\ todo' = {}
        /\ queue' = "waiting" => attempt < MaxPreviewAttempts
    BY <1>12 DEF Preview!Returns, Preview!Throws, Preview!Idle
  <2>2. PreviewT' BY <1>12, <2>1 DEF PreviewT
  <2>3. queue = "running" BY <1>12 DEF PreviewT
  <2> QED BY <1>12, <2>1, <2>2, <2>3 DEF MessageIs, JobIs
<1>13. CASE Preview!Trouble
  <2>1. /\ troubles' \in 0 .. MaxTroubles /\ previewCache' \subseteq Links /\ found' \subseteq Links
        /\ at # "idle" /\ Preview!Throws /\ UNCHANGED <<message, unreachable, row>>
    BY <1>0, <1>13 DEF Preview!Trouble, PreviewT
  <2> QED BY <1>12, <2>1
<1>14. CASE Preview!Read
  <2>1. queue = "running" /\ message # NoMessage /\ message.urls # {} BY <1>14 DEF Preview!Read, PreviewT, JobIs
  <2>2. /\ at' = "look" /\ urls' = message.urls /\ UNCHANGED <<todo, Preview!job>>
        /\ UNCHANGED <<message, previewCache, unreachable, row, found, troubles>>
    BY <1>14, <2>1 DEF Preview!Read
  <2>3. todo = {} BY <1>14 DEF Preview!Read, JobIs
  <2>4. PreviewT'
    <3>1. urls' \subseteq Links /\ todo' \subseteq urls' BY <1>a, <2>1, <2>2, <2>3
    <3> QED BY <2>1, <2>2, <3>1 DEF PreviewT
  <2> QED BY <2>1, <2>2, <2>3, <2>4 DEF MessageIs, JobIs
<1>15. CASE Preview!Look
  <2>1. PreviewT' BY <1>15 DEF Preview!Look, PreviewT
  <2> QED BY <1>15, <2>1 DEF Preview!Look, MessageIs, JobIs
<1>16. CASE Preview!Fetch
  <2> DEFINE u == Preview!Min(todo)
  <2>1. u \in todo /\ u \in Links
    <3>1. todo # {} /\ todo \subseteq Links BY <1>16 DEF Preview!Fetch, PreviewT
    <3> QED BY <1>0, <3>1, MinIs
  <2> HIDE DEF u
  <2>2. CASE u \in unreachable
    <3>1. /\ Preview!Throws /\ UNCHANGED <<message, unreachable, row, previewCache, found, troubles>> /\ at # "idle"
      BY <1>16, <2>2 DEF Preview!Fetch, u
    <3>2. previewCache' \subseteq Links /\ found' \subseteq Links /\ troubles' \in 0 .. MaxTroubles
      BY <3>1 DEF PreviewT
    <3> QED BY <1>12, <3>1, <3>2
  <2>3. CASE u \notin unreachable
    <3>1. /\ previewCache' = previewCache \union {u} /\ found' = found \union {u}
          /\ todo' = todo \ {u} /\ UNCHANGED <<Preview!job, at, urls, message, unreachable, row, troubles>>
      BY <1>16, <2>3 DEF Preview!Fetch, u
    <3>2. PreviewT' BY <2>1, <3>1 DEF PreviewT
    <3> QED BY <3>1, <3>2 DEF MessageIs, JobIs
  <2> QED BY <2>2, <2>3
<1>17. CASE Preview!Attach
  <2>1. /\ at = "fetch" /\ at' = "end" /\ urls = message.urls /\ message # NoMessage /\ queue = "running"
        /\ message' = [message EXCEPT !.urls = urls]
        /\ UNCHANGED <<previewCache, unreachable, row, Preview!job, urls, todo, found, troubles>>
    BY <1>17 DEF Preview!Attach, Preview!Attached, JobIs, PreviewT
  <2>2. message' = message BY <1>a, <2>1 DEF Preview!Rows
  <2>3. PreviewT' BY <2>1, <2>2 DEF PreviewT
  <2> QED BY <2>1, <2>2, <2>3 DEF MessageIs, JobIs
<1>18. CASE Preview!End
  <2>1. /\ troubles' \in 0 .. MaxTroubles /\ previewCache' \subseteq Links /\ found' \subseteq Links
        /\ at # "idle" /\ Preview!Returns /\ UNCHANGED <<message, unreachable, row>>
    BY <1>18 DEF Preview!End, PreviewT
  <2> QED BY <1>12, <2>1
<1>19. CASE UNCHANGED Preview!vars
  BY <1>19 DEF Preview!vars, PreviewT, MessageIs, JobIs
<1> QED
  BY <1>1, <1>2, <1>4, <1>5, <1>6, <1>7, <1>9, <1>10, <1>11, <1>13, <1>14, <1>15, <1>16, <1>17, <1>18, <1>19
  DEF Preview!Next, Preview!Handle

\* The previews in the composition behave as they do alone.
LEMMA ClientsArePreviews == ClientsSpec => Preview!Init /\ [][Preview!Next]_(Preview!vars)
<1>1. ClientsInit => Preview!Init BY DEF ClientsInit
<1>2. [ClientsNext]_clientsVars => [Preview!Next]_(Preview!vars)
  BY DEF ClientsNext, clientsVars, previewVars, Preview!vars, Preview!job, Preview!handler
<1> QED BY <1>1, <1>2, PTL DEF ClientsSpec

LEMMA PreviewInvariant == ClientsSpec => []PreviewInv
<1>1. Preview!Init => PreviewInv BY PreviewInit, PreviewConstants
<1>2. PreviewInv /\ [Preview!Next]_(Preview!vars) => PreviewInv' BY PreviewNext, PreviewConstants
<1> QED BY <1>1, <1>2, ClientsArePreviews, PTL

\* The tables and the worker of the previews hold what they can hold.
THEOREM PreviewsAreTyped == ClientsSpec => []Preview!PreviewTypeOK
<1>1. PreviewInv => Preview!PreviewTypeOK BY DEF PreviewInv, PreviewT, Preview!PreviewTypeOK
<1> QED BY <1>1, PreviewInvariant, PTL

-----------------------------------------------------------------------------
(* What the previews promise.                                              *)

Shown == IF message = NoMessage THEN {} ELSE message.urls
Complete == message # NoMessage /\ message.stream = "complete"
Taken == {how \in {"hidden", "deleted"} : message # NoMessage /\ message[how]}

LEMMA PreviewStarts == ASSUME Preview!Init PROVE Preview!Promise!Init
<1>1. message = NoMessage /\ found = {} /\ unreachable \in SUBSET Links BY DEF Preview!Init
<1> QED BY <1>1 DEF Preview!Promise!Init, Preview!Is

LEMMA PromisedSteps ==
  /\ ~Complete /\ Shown' \in SUBSET Links /\ Complete' \in BOOLEAN /\ UNCHANGED <<Taken, found, unreachable>>
       => Preview!Promise!Next
  /\ \A how \in {"hidden", "deleted"} :
       Complete /\ Taken' = Taken \union {how} /\ UNCHANGED <<Shown, Complete, found, unreachable>>
         => Preview!Promise!Next
  /\ Complete /\ found \subseteq found' /\ found' \subseteq found \union Shown
     /\ UNCHANGED <<Shown, Complete, Taken, unreachable>>
       => Preview!Promise!Next
  /\ UNCHANGED <<Shown, Complete, Taken, found, unreachable>> => UNCHANGED Preview!Promise!vars
<1>1. ~Complete /\ Shown' \in SUBSET Links /\ Complete' \in BOOLEAN /\ UNCHANGED <<Taken, found, unreachable>>
        => Preview!Promise!Write
  BY Zenon DEF Preview!Promise!Write, Preview!Is, Shown, Complete, Taken
<1>2. ASSUME NEW how \in {"hidden", "deleted"},
             Complete, Taken' = Taken \union {how}, UNCHANGED <<Shown, Complete, found, unreachable>>
      PROVE  Preview!Promise!TakeBack(how)
  BY <1>2, Zenon DEF Preview!Promise!TakeBack, Preview!Is, Shown, Complete, Taken
<1>3. Complete /\ found \subseteq found' /\ found' \subseteq found \union Shown
      /\ UNCHANGED <<Shown, Complete, Taken, unreachable>>
        => Preview!Promise!Find
  BY Zenon DEF Preview!Promise!Find, Preview!Is, Shown, Complete, Taken
<1>4. UNCHANGED <<Shown, Complete, Taken, found, unreachable>> => UNCHANGED Preview!Promise!vars
  BY Zenon DEF Preview!Promise!vars, Preview!Is, Shown, Complete, Taken
<1> QED BY <1>1, <1>2, <1>3, <1>4, Zenon DEF Preview!Promise!Next

LEMMA TakenIs ==
  ASSUME NEW m, message = m, m # NoMessage
  PROVE  /\ Shown = m.urls /\ Complete = (m.stream = "complete")
         /\ Taken \subseteq {"hidden", "deleted"}
         /\ ("hidden" \in Taken <=> m.hidden) /\ ("deleted" \in Taken <=> m.deleted)
<1>1. Shown = m.urls BY DEF Shown
<1>4. Complete = (m.stream = "complete") BY DEF Complete
<1>2. Taken = {how \in {"hidden", "deleted"} : m[how]} BY DEF Taken
<1>3. m["hidden"] = m.hidden /\ m["deleted"] = m.deleted OBVIOUS
<1>5. ("hidden" \in Taken <=> m["hidden"]) /\ ("deleted" \in Taken <=> m["deleted"])
  BY <1>2, Zenon
<1>6. Taken \subseteq {"hidden", "deleted"} BY <1>2
<1> QED BY <1>1, <1>3, <1>4, <1>5, <1>6

LEMMA TakenIsNext ==
  ASSUME NEW m, message' = m, m # NoMessage
  PROVE  /\ Shown' = m.urls /\ Complete' = (m.stream = "complete")
         /\ Taken' \subseteq {"hidden", "deleted"}
         /\ ("hidden" \in Taken' <=> m.hidden) /\ ("deleted" \in Taken' <=> m.deleted)
<1>1. Shown' = m.urls BY DEF Shown
<1>4. Complete' = (m.stream = "complete") BY DEF Complete
<1>2. Taken' = {how \in {"hidden", "deleted"} : m[how]} BY DEF Taken
<1>3. m["hidden"] = m.hidden /\ m["deleted"] = m.deleted OBVIOUS
<1>5. ("hidden" \in Taken' <=> m["hidden"]) /\ ("deleted" \in Taken' <=> m["deleted"])
  BY <1>2, Zenon
<1>6. Taken' \subseteq {"hidden", "deleted"} BY <1>2
<1> QED BY <1>1, <1>3, <1>4, <1>5, <1>6

\* A step of the previews is one that their promise allows, or changes nothing
\* it speaks of.
LEMMA StepIsPromised ==
  ASSUME PreviewInv, PreviewInv', [Preview!Next]_(Preview!vars), Preview!PreviewAssumption
  PROVE  [Preview!Promise!Next]_(Preview!Promise!vars)
<1> USE DEF Preview!Others, Preview!job, Preview!handler
<1>0. NoMessage \notin Preview!Rows BY DEF Preview!PreviewAssumption
<1>a. message # NoMessage =>
        /\ message \in Preview!Rows /\ message.sender \in {"person", "standin"}
        /\ message.text \in SUBSET Links /\ message.urls \in SUBSET Links
        /\ message.stream \in {"pending", "complete"}
        /\ message.hidden \in BOOLEAN /\ message.deleted \in BOOLEAN
        /\ message.sender = "person" => message.stream = "complete"
  BY DEF PreviewInv, PreviewT, MessageIs, Preview!Rows
\* Of the message only what the promise does not speak of changes.
<1>b. ASSUME message # NoMessage, NEW m \in Preview!Rows, message' = m,
             m.urls = message.urls, m.stream = message.stream,
             m.hidden = message.hidden, m.deleted = message.deleted, UNCHANGED <<found, unreachable>>
      PROVE  UNCHANGED Preview!Promise!vars
  <2>1. Shown' = Shown /\ Complete' = Complete /\ Taken' = Taken
    BY <1>0, <1>b, TakenIs, TakenIsNext
  <2> QED BY <1>b, <2>1, PromisedSteps
<1>c. ASSUME UNCHANGED <<message, found, unreachable>> PROVE UNCHANGED Preview!Promise!vars
  <2>1. Shown' = Shown /\ Complete' = Complete /\ Taken' = Taken
    BY <1>c DEF Shown, Complete, Taken
  <2> QED BY <1>c, <2>1, PromisedSteps
<1>d. ASSUME UNCHANGED <<message, unreachable>>, Complete, found \subseteq found', found' \subseteq found \union Shown
      PROVE  Preview!Promise!Next
  <2>1. Shown' = Shown /\ Complete' = Complete /\ Taken' = Taken
    BY <1>d DEF Shown, Complete, Taken
  <2> QED BY <1>d, <2>1, PromisedSteps
\* A message that is not complete may be written anew.
<1>e. ASSUME ~Complete, NEW m \in Preview!Rows, message' = m, UNCHANGED <<found, unreachable>>,
             IF message = NoMessage THEN ~m.hidden /\ ~m.deleted
             ELSE m.hidden = message.hidden /\ m.deleted = message.deleted
      PROVE  Preview!Promise!Next
  <2>1. /\ m # NoMessage /\ Shown' = m.urls /\ Complete' \in BOOLEAN /\ Taken' \subseteq {"hidden", "deleted"}
        /\ ("hidden" \in Taken' <=> m.hidden) /\ ("deleted" \in Taken' <=> m.deleted)
    BY <1>0, <1>e, TakenIsNext DEF Complete
  <2>2. Shown' \in SUBSET Links BY <2>1 DEF Preview!Rows
  <2>3. Taken' = Taken
    <3>1. CASE message = NoMessage
      <4>1. Taken = {} BY <3>1 DEF Taken
      <4>2. ~m.hidden /\ ~m.deleted BY <1>e, <3>1
      <4>3. ("hidden" \in Taken' <=> "hidden" \in Taken) /\ ("deleted" \in Taken' <=> "deleted" \in Taken)
        BY <2>1, <4>1, <4>2, Zenon
      <4>4. Taken' \subseteq {"hidden", "deleted"} BY <2>1
      <4>5. \A how : how \in Taken' <=> how \in Taken
        <5> TAKE how
        <5>1. CASE how \in {"hidden", "deleted"} BY <4>3, <5>1
        <5>2. CASE how \notin {"hidden", "deleted"} BY <4>1, <4>4, <5>2
        <5> QED BY <5>1, <5>2
      <4> QED BY <4>5
    <3>2. CASE message # NoMessage
      <4>1. ("hidden" \in Taken <=> message.hidden) /\ ("deleted" \in Taken <=> message.deleted)
            /\ Taken \subseteq {"hidden", "deleted"}
        BY <3>2, TakenIs
      <4>2. m.hidden = message.hidden /\ m.deleted = message.deleted BY <1>e, <3>2
      <4>3. ("hidden" \in Taken' <=> "hidden" \in Taken) /\ ("deleted" \in Taken' <=> "deleted" \in Taken)
        BY <2>1, <4>1, <4>2, Zenon
      <4>4. Taken' \subseteq {"hidden", "deleted"} BY <2>1
      <4>5. \A how : how \in Taken' <=> how \in Taken
        <5> TAKE how
        <5>1. CASE how \in {"hidden", "deleted"} BY <4>3, <5>1
        <5>2. CASE how \notin {"hidden", "deleted"} BY <4>1, <4>4, <5>2
        <5> QED BY <5>1, <5>2
      <4> QED BY <4>5
    <3> QED BY <3>1, <3>2
  <2> QED BY <1>e, <2>1, <2>2, <2>3, PromisedSteps
<1>1. CASE Preview!Append
  <2>0. message = NoMessage /\ UNCHANGED <<found, unreachable>> /\ ~Complete
    BY <1>1 DEF Preview!Append, Complete
  <2>1. PICK m \in Preview!Rows : message' = m /\ m.hidden = FALSE /\ m.deleted = FALSE
    <3>1. \A text \in SUBSET Links :
            LET m == Preview!Written(Preview!New("person"), text, "complete")
            IN  m \in Preview!Rows /\ m.hidden = FALSE /\ m.deleted = FALSE
      <4> DEFINE n == Preview!New("person")
      <4>1. n \in Preview!Rows /\ n.hidden = FALSE /\ n.deleted = FALSE BY NewIs
      <4> HIDE DEF n
      <4>2. \A text \in SUBSET Links :
              LET m == Preview!Written(n, text, "complete")
              IN  m \in Preview!Rows /\ m.hidden = FALSE /\ m.deleted = FALSE
        BY <4>1, WrittenIs
      <4> QED BY <4>2 DEF n
    <3>2. LET m == Preview!New("standin") IN m \in Preview!Rows /\ m.hidden = FALSE /\ m.deleted = FALSE
      BY NewIs
    <3> QED BY <1>1, <3>1, <3>2 DEF Preview!Append
  <2> QED BY <1>e, <2>0, <2>1
<1>2. ASSUME NEW text \in SUBSET Links, NEW s \in {"pending", "complete"}, Preview!Stream(text, s)
      PROVE  [Preview!Promise!Next]_(Preview!Promise!vars)
  <2>0. /\ message # NoMessage /\ message.sender = "standin" /\ UNCHANGED <<found, unreachable>>
        /\ message.stream = "complete" => s = "complete" /\ text = message.text
        /\ message' = Preview!Written(message, text, s)
    BY <1>2 DEF Preview!Stream
  <2> DEFINE m == Preview!Written(message, text, s)
  <2>1. /\ m \in Preview!Rows /\ m.sender = "standin" /\ m.stream = s /\ m.text = text
        /\ m.urls = (IF text = {} THEN message.urls ELSE text)
        /\ m.hidden = message.hidden /\ m.deleted = message.deleted /\ message' = m
    BY <1>a, <2>0, WrittenIs
  <2> HIDE DEF m
  <2>2. CASE Complete
    <3>1. m.stream = message.stream /\ m.urls = message.urls
      BY <2>0, <2>1, <2>2 DEF Complete, PreviewInv, MessageIs
    <3> QED BY <1>b, <2>0, <2>1, <3>1
  <2>3. CASE ~Complete BY <1>e, <2>0, <2>1, <2>3
  <2> QED BY <2>2, <2>3
<1>3. ASSUME NEW text \in SUBSET Links, Preview!Edit(text) PROVE UNCHANGED Preview!Promise!vars
  <2>0. message # NoMessage /\ message' = [message EXCEPT !.text = text] /\ UNCHANGED <<found, unreachable>>
    BY <1>3 DEF Preview!Edit, Preview!Own
  <2> DEFINE m == [message EXCEPT !.text = text]
  <2>1. /\ m \in Preview!Rows /\ m.stream = message.stream /\ m.urls = message.urls
        /\ m.hidden = message.hidden /\ m.deleted = message.deleted /\ message' = m
    BY <1>a, <2>0 DEF Preview!Rows
  <2> HIDE DEF m
  <2> QED BY <1>b, <2>0, <2>1
<1>4. ASSUME Preview!Delete PROVE Preview!Promise!Next
  <2>0. /\ message # NoMessage /\ message.sender = "person" /\ message' = [message EXCEPT !.text = {}, !.deleted = TRUE]
        /\ UNCHANGED <<found, unreachable>>
    BY <1>4 DEF Preview!Delete, Preview!Own
  <2> DEFINE m == [message EXCEPT !.text = {}, !.deleted = TRUE]
  <2>1. /\ m \in Preview!Rows /\ m.stream = message.stream /\ m.urls = message.urls
        /\ m.hidden = message.hidden /\ m.deleted = TRUE /\ message' = m
    BY <1>a, <2>0 DEF Preview!Rows
  <2> HIDE DEF m
  <2>a. m # NoMessage BY <1>0, <2>1
  <2>b. Shown' = Shown /\ Complete' = Complete /\ Complete
    <3>1. Shown' = m.urls /\ Complete' = (m.stream = "complete") BY <2>1, <2>a, TakenIsNext
    <3>2. Shown = message.urls /\ Complete = (message.stream = "complete") BY <2>0, TakenIs
    <3> QED BY <1>a, <2>0, <2>1, <3>1, <3>2
  <2>c. Taken' = Taken \union {"deleted"} BY <2>0, <2>1, <2>a, TakenIs, TakenIsNext
  <2>2. Shown' = Shown /\ Complete' = Complete /\ Taken' = Taken \union {"deleted"} /\ Complete
    BY <2>b, <2>c
  <2> QED BY <2>0, <2>2, PromisedSteps
<1>5. ASSUME Preview!Hide PROVE Preview!Promise!Next
  <2>0. /\ message # NoMessage /\ message.sender = "person" /\ message' = [message EXCEPT !.hidden = TRUE]
        /\ UNCHANGED <<found, unreachable>>
    BY <1>5 DEF Preview!Hide, Preview!Own
  <2> DEFINE m == [message EXCEPT !.hidden = TRUE]
  <2>1. /\ m \in Preview!Rows /\ m.stream = message.stream /\ m.urls = message.urls
        /\ m.hidden = TRUE /\ m.deleted = message.deleted /\ message' = m
    BY <1>a, <2>0 DEF Preview!Rows
  <2> HIDE DEF m
  <2>a. m # NoMessage BY <1>0, <2>1
  <2>b. Shown' = Shown /\ Complete' = Complete /\ Complete
    <3>1. Shown' = m.urls /\ Complete' = (m.stream = "complete") BY <2>1, <2>a, TakenIsNext
    <3>2. Shown = message.urls /\ Complete = (message.stream = "complete") BY <2>0, TakenIs
    <3> QED BY <1>a, <2>0, <2>1, <3>1, <3>2
  <2>c. Taken' = Taken \union {"hidden"} BY <2>0, <2>1, <2>a, TakenIs, TakenIsNext
  <2>2. Shown' = Shown /\ Complete' = Complete /\ Taken' = Taken \union {"hidden"} /\ Complete
    BY <2>b, <2>c
  <2> QED BY <2>0, <2>2, PromisedSteps
\* A running job's message is complete.
<1>f. at # "idle" => Complete /\ message # NoMessage /\ (at \in {"look", "fetch"} => urls = Shown)
  BY DEF PreviewInv, PreviewT, JobIs, Complete, Shown
<1>6. CASE Preview!Look
  <2>1. found \subseteq found' /\ found' \subseteq found \union Shown /\ UNCHANGED <<message, unreachable>> /\ Complete
    BY <1>6, <1>f DEF Preview!Look
  <2> QED BY <1>d, <2>1
<1>7. CASE Preview!Fetch
  <2> DEFINE u == Preview!Min(todo)
  <2>1. u \in Shown
    <3>1. todo # {} /\ todo \subseteq Nat BY <1>7 DEF Preview!Fetch, Preview!PreviewAssumption, PreviewInv, PreviewT
    <3>2. u \in todo BY <3>1, MinIs
    <3> QED BY <1>7, <1>f, <3>2 DEF Preview!Fetch, PreviewInv, PreviewT
  <2> HIDE DEF u
  <2>2. (found' = found \/ found' = found \union {u}) /\ UNCHANGED <<message, unreachable>> /\ Complete
    BY <1>7, <1>f DEF Preview!Fetch, u
  <2> QED BY <1>d, <2>1, <2>2
<1>8. CASE Preview!Attach
  <2>1. /\ urls = message.urls /\ message # NoMessage /\ message' = [message EXCEPT !.urls = urls]
        /\ UNCHANGED <<found, unreachable>>
    BY <1>8, <1>f DEF Preview!Attach, Preview!Attached, Shown
  <2>2. message' = message BY <1>a, <2>1 DEF Preview!Rows
  <2> QED BY <1>c, <2>1, <2>2
<1>9. CASE UNCHANGED Preview!vars BY <1>c, <1>9 DEF Preview!vars
<1>10. CASE \/ \E u \in Links : Preview!Expire(u)
            \/ Preview!Dispatch \/ Preview!DispatchFails \/ Preview!Trouble
            \/ Preview!Start \/ Preview!Read \/ Preview!End
  <2>1. UNCHANGED <<message, found, unreachable>>
    BY <1>10 DEF Preview!Expire, Preview!Dispatch, Preview!DispatchFails, Preview!Trouble, Preview!Start,
                 Preview!Read, Preview!End
  <2> QED BY <1>c, <2>1
<1> QED
  BY <1>1, <1>2, <1>3, <1>4, <1>5, <1>6, <1>7, <1>8, <1>9, <1>10 DEF Preview!Next, Preview!Handle

\* Whatever is edited, hidden, deleted, completed again, expired or retried
\* meanwhile, every step of the previews is one their promise allows: a late job
\* changes no links and takes nothing back that its sender did.
THEOREM PreviewsKeepThePromise ==
  ClientsSpec => Preview!Promise!Init /\ [][Preview!Promise!Next]_(Preview!Promise!vars)
<1>1. Preview!Init => Preview!Promise!Init BY PreviewStarts
<1>2. PreviewInv /\ PreviewInv' /\ [Preview!Next]_(Preview!vars) => [Preview!Promise!Next]_(Preview!Promise!vars)
  BY StepIsPromised, PreviewConstants
<1> QED BY <1>1, <1>2, ClientsArePreviews, PreviewInvariant, PTL

-----------------------------------------------------------------------------
(* The Thread's cache.                                                     *)

\* A log of messages 1 .. n, and what may be known of it: a past of it.
Log(g) == \E n \in 0 .. MaxMessages : g \in [1 .. n -> 1 .. Sync!Tombstone]
PastOf(f, g) == \A s \in DOMAIN f : s \in DOMAIN g /\ f[s] \in Nat /\ f[s] <= g[s]
HeadOf(g) == Sync!Cardinality(DOMAIN g)
KnownOf(c, g) == c # NoCache => c.seq \in 0 .. HeadOf(g) /\ PastOf(c.msgs, g)

EventOf(e, g) ==
  /\ e.seq \in DOMAIN g /\ e.rev \in Nat /\ e.rev <= g[e.seq]
  /\ e.head \in 0 .. HeadOf(g) /\ e.seq <= e.head

RepairOf(r, g) ==
  /\ r \in [event : {r.event}, phase : Sync!Phases, item : {r.item}, from : {r.from},
            once : {r.once}, got : {r.got}, head : {r.head}]
  /\ EventOf(r.event, g) /\ KnownOf(r.item, g) /\ PastOf(r.got, g) /\ r.head \in 0 .. HeadOf(g)

ListOf(l, g) ==
  /\ l = [phase |-> l.phase, data |-> l.data]
  /\ l.phase \in {"idle", "asked", "served"} /\ KnownOf(l.data, g)

\* Everything the client holds or is being sent is a past of the log: what is
\* merged into the cache, in whatever order it arrives, is one too.
Pasts ==
  /\ Log(rev) /\ deleted \subseteq DOMAIN rev
  /\ \A e \in hints : EventOf(e, rev)
  /\ KnownOf(cache, rev) /\ ListOf(list, rev)
  /\ \A r \in repairs : RepairOf(r, rev)

Counters ==
  /\ live \in BOOLEAN /\ degraded \in BOOLEAN
  /\ faults \in 0 .. MaxFaults /\ drops \in 0 .. MaxDrops /\ touches \in 0 .. MaxTouches

SyncInv == Pasts /\ Counters

LEMMA HeadIs ==
  ASSUME NEW n \in Nat, NEW g, DOMAIN g = 1 .. n
  PROVE  HeadOf(g) = n
<1>1. IsFiniteSet(1 .. n) /\ Cardinality(1 .. n) = n BY FS_Interval
<1>2. Sync!Cardinality(1 .. n) = Cardinality(1 .. n) BY <1>1, Zenon DEF Sync!Cardinality, Cardinality, Sync!IsFiniteSet, IsFiniteSet
<1> QED BY <1>1, <1>2 DEF HeadOf

LEMMA LogIs ==
  ASSUME NEW g, Log(g), Sync!SyncAssumption
  PROVE  /\ HeadOf(g) \in 0 .. MaxMessages /\ DOMAIN g = 1 .. HeadOf(g)
         /\ g = [s \in DOMAIN g |-> g[s]]
         /\ \A s \in DOMAIN g : g[s] \in 1 .. Sync!Tombstone
<1>1. PICK n \in 0 .. MaxMessages : g \in [1 .. n -> 1 .. Sync!Tombstone] BY DEF Log
<1>2. n \in Nat /\ DOMAIN g = 1 .. n BY <1>1 DEF Sync!SyncAssumption
<1>3. HeadOf(g) = n BY <1>2, HeadIs
<1> QED BY <1>1, <1>2, <1>3

LEMMA MaxOfTwo ==
  ASSUME NEW h \in Nat, NEW a \in 0 .. h, NEW b \in 0 .. h
  PROVE  Sync!Max({a, b}) \in 0 .. h
<1> DEFINE m == IF a >= b THEN a ELSE b
<1>1. m \in {a, b} /\ \A x \in {a, b} : m >= x OBVIOUS
<1>2. \E z \in {a, b} : \A x \in {a, b} : z >= x BY <1>1
<1>3. Sync!Max({a, b}) \in {a, b} BY <1>2, Zenon DEF Sync!Max
<1> QED BY <1>3

\* What was known of a log is known of it when it has grown.
LEMMA GrownLog ==
  ASSUME NEW g, NEW g2, Log(g), Log(g2), Sync!SyncAssumption,
         DOMAIN g \subseteq DOMAIN g2, \A s \in DOMAIN g : g[s] <= g2[s]
  PROVE  /\ HeadOf(g) <= HeadOf(g2)
         /\ \A f : PastOf(f, g) => PastOf(f, g2)
         /\ \A c : KnownOf(c, g) => KnownOf(c, g2)
         /\ \A e : EventOf(e, g) => EventOf(e, g2)
         /\ \A r : RepairOf(r, g) => RepairOf(r, g2)
         /\ \A l : ListOf(l, g) => ListOf(l, g2)
<1>1. /\ HeadOf(g) \in Nat /\ HeadOf(g2) \in Nat /\ DOMAIN g = 1 .. HeadOf(g) /\ DOMAIN g2 = 1 .. HeadOf(g2)
      /\ \A s \in DOMAIN g : g[s] \in Nat /\ g2[s] \in Nat
  BY LogIs DEF Sync!SyncAssumption, Sync!Tombstone
<1>2. HeadOf(g) <= HeadOf(g2)
  <2>1. CASE HeadOf(g) = 0 BY <1>1, <2>1
  <2>2. CASE HeadOf(g) # 0
    <3>1. HeadOf(g) \in DOMAIN g2 BY <1>1, <2>2
    <3> QED BY <1>1, <3>1
  <2> QED BY <2>1, <2>2
<1>3. \A f : PastOf(f, g) => PastOf(f, g2) BY <1>1 DEF PastOf
<1>4. \A c : KnownOf(c, g) => KnownOf(c, g2) BY <1>1, <1>2, <1>3 DEF KnownOf
<1>5. \A e : EventOf(e, g) => EventOf(e, g2) BY <1>1, <1>2 DEF EventOf
<1>6. \A r : RepairOf(r, g) => RepairOf(r, g2) BY <1>1, <1>2, <1>3, <1>4, <1>5 DEF RepairOf
<1>7. \A l : ListOf(l, g) => ListOf(l, g2) BY <1>4 DEF ListOf
<1> QED BY <1>2, <1>3, <1>4, <1>5, <1>6, <1>7

LEMMA SyncInit == ASSUME Sync!Init, Sync!SyncAssumption PROVE SyncInv
<1>1. rev = <<>> /\ DOMAIN rev = 1 .. 0 BY DEF Sync!Init
<1>2. Log(rev)
  <2>1. 0 \in 0 .. MaxMessages /\ rev \in [1 .. 0 -> 1 .. Sync!Tombstone] BY <1>1 DEF Sync!SyncAssumption
  <2> QED BY <2>1 DEF Log
<1>3. HeadOf(rev) = 0 BY <1>1, HeadIs
<1>4. KnownOf(cache, rev)
  <2>1. CASE StartLoaded
    <3>1. cache = [seq |-> Sync!Cardinality(DOMAIN rev), msgs |-> rev] BY <2>1 DEF Sync!Init, Sync!Snapshot, Sync!head
    <3>2. cache.seq = 0 /\ cache.msgs = rev BY <1>3, <3>1 DEF HeadOf
    <3> QED BY <1>1, <1>3, <3>2 DEF KnownOf, PastOf
  <2>2. CASE ~StartLoaded BY <2>2 DEF Sync!Init, KnownOf
  <2> QED BY <2>1, <2>2
<1>5. ListOf(list, rev) BY DEF Sync!Init, Sync!Idle, Sync!Asked, ListOf, KnownOf
<1>6. Pasts BY <1>2, <1>4, <1>5 DEF Sync!Init, Pasts
<1>7. 0 \in 0 .. MaxFaults /\ 0 \in 0 .. MaxDrops /\ 0 \in 0 .. MaxTouches BY DEF Sync!SyncAssumption
<1>8. Counters BY <1>7 DEF Sync!Init, Counters
<1> QED BY <1>6, <1>8 DEF SyncInv

LEMMA MergedIsKnown ==
  ASSUME NEW g, Log(g), Sync!SyncAssumption, NEW c, KnownOf(c, g), NEW f, PastOf(f, g), NEW h \in 0 .. HeadOf(g)
  PROVE  KnownOf(Sync!Merged(c, f, h), g)
<1>1. CASE c = NoCache BY <1>1 DEF Sync!Merged
<1>2. CASE c # NoCache
  <2> DEFINE o == Sync!Over(f, c.msgs)
             m == Sync!Max({c.seq, h})
  <2>1. PastOf(o, g) BY <1>2 DEF PastOf, KnownOf, Sync!Over
  <2>2. m \in 0 .. HeadOf(g)
    <3>1. HeadOf(g) \in Nat BY LogIs DEF Sync!SyncAssumption
    <3> QED BY <1>2, <3>1, MaxOfTwo DEF KnownOf
  <2>3. Sync!Merged(c, f, h) = [seq |-> m, msgs |-> o] BY <1>2 DEF Sync!Merged
  <2> HIDE DEF o, m
  <2> QED BY <2>1, <2>2, <2>3 DEF KnownOf
<1> QED BY <1>1, <1>2

\* A list request that is started anew, or not.
LEMMA InvalidateIs == ASSUME Pasts, Sync!Invalidate PROVE ListOf(list', rev)
  BY DEF Pasts, Sync!Invalidate, Sync!Asked, ListOf, KnownOf

\* A repair goes on with a page.
LEMMA PageFromIs ==
  ASSUME Pasts, NEW r \in repairs, NEW n, NEW once, Sync!PageFrom(r, n, once)
  PROVE  \A q \in repairs' : RepairOf(q, rev)
<1> DEFINE s == [r EXCEPT !.phase = "page", !.from = n, !.once = once, !.got = <<>>]
<1>1. RepairOf(r, rev) BY DEF Pasts
<1>2. /\ s.event = r.event /\ s.item = r.item /\ s.head = r.head /\ s.from = n /\ s.once = once /\ s.got = <<>>
      /\ s \in [event : {r.event}, phase : Sync!Phases, item : {r.item}, from : {n},
                once : {once}, got : {<<>>}, head : {r.head}]
  BY <1>1 DEF RepairOf, Sync!Phases
<1> HIDE DEF s
<1>4. DOMAIN <<>> = {} OBVIOUS
<1>5. PastOf(<<>>, rev) BY <1>4 DEF PastOf
<1>6. RepairOf(s, rev) BY <1>1, <1>2, <1>5 DEF RepairOf
<1>7. repairs' = (repairs \ {r}) \union {s} BY DEF Sync!PageFrom, Sync!Replace, s
<1> QED BY <1>6, <1>7 DEF Pasts

\* The sequence repair asks for a page, reloads the list or ends.
LEMMA SequenceRepairIs ==
  ASSUME Pasts, NEW r \in repairs, Sync!SequenceRepair(r)
  PROVE  ListOf(list', rev) /\ \A q \in repairs' : RepairOf(q, rev)
<1>1. ListOf(list', rev)
  <2>1. list' = list \/ Sync!Invalidate BY DEF Sync!SequenceRepair
  <2> QED BY <2>1, InvalidateIs DEF Pasts
<1>2. (\E n, once : Sync!PageFrom(r, n, once)) \/ Sync!Finish(r)
  BY DEF Sync!SequenceRepair
<1>3. CASE Sync!Finish(r)
  <2>1. repairs' \subseteq repairs BY <1>3 DEF Sync!Finish
  <2> QED BY <1>1, <2>1 DEF Pasts
<1> QED BY <1>1, <1>2, <1>3, PageFromIs

LEMMA SyncNext ==
  ASSUME SyncInv, [Sync!Next]_(Sync!vars), Sync!SyncAssumption
  PROVE  SyncInv'
<1> USE DEF SyncInv, Sync!clientVars
<1>0. Log(rev) /\ HeadOf(rev) \in Nat /\ Sync!head = HeadOf(rev)
  BY LogIs DEF Pasts, Sync!SyncAssumption, Sync!head, HeadOf
\* The log grows.
<1>a. ASSUME NEW g, rev' = g, Log(g), DOMAIN rev \subseteq DOMAIN g, \A s \in DOMAIN rev : rev[s] <= g[s],
             deleted' \subseteq DOMAIN g, UNCHANGED Sync!clientVars,
             \A e \in hints' : e \in hints \/ EventOf(e, g)
      PROVE  SyncInv'
  <2>1. /\ \A c : KnownOf(c, rev) => KnownOf(c, g)
        /\ \A e : EventOf(e, rev) => EventOf(e, g)
        /\ \A r : RepairOf(r, rev) => RepairOf(r, g)
        /\ \A l : ListOf(l, rev) => ListOf(l, g)
    BY <1>0, <1>a, GrownLog
  <2>2. Log(rev') /\ deleted' \subseteq DOMAIN rev' BY <1>a
  <2>3. \A e \in hints' : EventOf(e, rev') BY <1>a, <2>1 DEF Pasts
  <2>4. KnownOf(cache', rev') /\ ListOf(list', rev') BY <1>a, <2>1 DEF Pasts
  <2>5. \A r \in repairs' : RepairOf(r, rev') BY <1>a, <2>1 DEF Pasts
  <2>6. Pasts' BY <2>2, <2>3, <2>4, <2>5 DEF Pasts
  <2>7. Counters' BY <1>a DEF Counters
  <2> QED BY <2>6, <2>7
\* The client moves.
<1>b. ASSUME UNCHANGED <<rev, deleted>>, hints' \subseteq hints, KnownOf(cache', rev), ListOf(list', rev),
             \A r \in repairs' : RepairOf(r, rev), Counters'
      PROVE  SyncInv'
  BY <1>b DEF Pasts
<1>c. ASSUME NEW f \in {faults, drops, touches}, NEW m \in Nat, f \in 0 .. m, f < m PROVE f + 1 \in 0 .. m
  BY <1>c
<1>1. CASE Sync!Append
  <2> DEFINE h == HeadOf(rev)
             g == [s \in 1 .. h + 1 |-> IF s = h + 1 THEN 1 ELSE rev[s]]
             e == [seq |-> h + 1, rev |-> 1, head |-> h + 1]
  <2>1. h < MaxMessages /\ rev' = g /\ hints' = hints \union {e} /\ UNCHANGED <<deleted, Sync!clientVars>>
    BY <1>0, <1>1 DEF Sync!Append
  <2>2. DOMAIN rev = 1 .. h /\ \A s \in DOMAIN rev : rev[s] \in 1 .. Sync!Tombstone /\ g[s] = rev[s]
    BY <1>0, LogIs DEF Sync!SyncAssumption
  <2>3. DOMAIN g = 1 .. h + 1 /\ h + 1 \in 0 .. MaxMessages BY <1>0, <2>1 DEF Sync!SyncAssumption
  <2>4. g \in [1 .. h + 1 -> 1 .. Sync!Tombstone]
    <3>1. 1 \in 1 .. Sync!Tombstone BY DEF Sync!SyncAssumption, Sync!Tombstone
    <3>2. \A s \in 1 .. h + 1 : s = h + 1 \/ s \in DOMAIN rev BY <1>0, <2>2
    <3> QED BY <2>2, <3>1, <3>2
  <2>5. HeadOf(g) = h + 1
    <3> HIDE DEF g, h
    <3> QED BY <1>0, <2>3, HeadIs DEF h
  <2>6. g[h + 1] = 1 BY <1>0
  <2>7. \A s \in DOMAIN rev : rev[s] <= g[s] BY <2>2 DEF Sync!SyncAssumption, Sync!Tombstone
  <2>8. DOMAIN rev \subseteq DOMAIN g BY <1>0, <2>2, <2>3
  <2> HIDE DEF g
  <2>9. Log(g) BY <2>3, <2>4 DEF Log
  <2>10. EventOf(e, g) BY <1>0, <2>3, <2>5, <2>6 DEF EventOf
  <2> HIDE DEF e, h
  <2> QED BY <1>a, <2>1, <2>7, <2>8, <2>9, <2>10 DEF Pasts
\* One message is edited or deleted.
<1>d. ASSUME NEW s \in DOMAIN rev, NEW k \in 1 .. Sync!Tombstone, rev[s] <= k, rev' = [rev EXCEPT ![s] = k],
             hints' = hints \union {[seq |-> s, rev |-> k, head |-> Sync!head]},
             deleted' \in {deleted, deleted \union {s}}, UNCHANGED Sync!clientVars
      PROVE  SyncInv'
  <2> DEFINE g == [rev EXCEPT ![s] = k]
             e == [seq |-> s, rev |-> k, head |-> HeadOf(rev)]
  <2>1. PICK n \in 0 .. MaxMessages : rev \in [1 .. n -> 1 .. Sync!Tombstone] BY <1>0 DEF Log
  <2>2. n \in Nat /\ Sync!Tombstone \in Nat /\ k \in Nat BY DEF Sync!SyncAssumption, Sync!Tombstone
  <2>3. g \in [1 .. n -> 1 .. Sync!Tombstone] /\ g[s] = k BY <2>1
  <2>4. DOMAIN g = DOMAIN rev /\ \A t \in DOMAIN rev : rev[t] <= g[t] BY <1>d, <2>1, <2>2
  <2> HIDE DEF g
  <2>5. Log(g) BY <2>3 DEF Log
  <2>6. HeadOf(g) = HeadOf(rev) BY <2>4 DEF HeadOf
  <2>7. EventOf(e, g)
    <3>1. DOMAIN rev = 1 .. HeadOf(rev) BY <1>0, LogIs
    <3> QED BY <1>0, <2>2, <2>3, <2>4, <2>6, <3>1 DEF EventOf
  <2>8. rev' = g /\ hints' = hints \union {e} BY <1>0, <1>d DEF g
  <2> HIDE DEF e
  <2> QED BY <1>a, <1>d, <2>4, <2>5, <2>7, <2>8 DEF Pasts
<1>2. ASSUME NEW s \in DOMAIN rev, Sync!Revise(s) PROVE SyncInv'
  <2>1. rev[s] \in 1 .. Sync!Tombstone BY <1>0, LogIs
  <2> DEFINE k == rev[s] + 1
  <2>2. k \in 1 .. Sync!Tombstone /\ rev[s] <= k BY <1>2, <2>1 DEF Sync!Revise, Sync!SyncAssumption, Sync!Tombstone
  <2>3. /\ rev' = [rev EXCEPT ![s] = k] /\ hints' = hints \union {[seq |-> s, rev |-> k, head |-> Sync!head]}
        /\ UNCHANGED <<deleted, Sync!clientVars>>
    BY <1>2 DEF Sync!Revise
  <2> HIDE DEF k
  <2> QED BY <1>d, <2>2, <2>3
<1>3. ASSUME NEW s \in DOMAIN rev, Sync!Delete(s) PROVE SyncInv'
  <2>1. rev[s] \in 1 .. Sync!Tombstone BY <1>0, LogIs
  <2>2. Sync!Tombstone \in 1 .. Sync!Tombstone /\ rev[s] <= Sync!Tombstone
    BY <2>1 DEF Sync!SyncAssumption, Sync!Tombstone
  <2> QED BY <1>3, <1>d, <2>2 DEF Sync!Delete
<1>4. ASSUME NEW e \in hints, Sync!HandleHint(e) PROVE SyncInv'
  <2> DEFINE r == [event |-> e, phase |-> "pointer", item |-> cache,
                   from |-> 0, once |-> FALSE, got |-> <<>>, head |-> 0]
  <2>1. /\ hints' = hints \ {e} /\ repairs' = repairs \union {r}
        /\ UNCHANGED <<rev, deleted, cache, list, live, degraded, faults, drops, touches>>
    BY <1>4 DEF Sync!HandleHint, Sync!Start
  <2>2. PastOf(<<>>, rev)
    <3>1. DOMAIN <<>> = {} OBVIOUS
    <3> QED BY <3>1 DEF PastOf
  <2>3. RepairOf(r, rev) BY <1>0, <2>2 DEF RepairOf, Pasts, Sync!Phases
  <2> HIDE DEF r
  <2>4. Counters' BY <2>1 DEF Counters
  <2> QED BY <1>b, <2>1, <2>3, <2>4 DEF Pasts
<1>5. ASSUME NEW r \in repairs, Sync!PointerServed(r) PROVE SyncInv'
  <2> DEFINE f == [s \in {r.event.seq} |-> rev[s]]
             q == [r EXCEPT !.phase = "pointerBack", !.got = f]
  <2>1. /\ repairs' = (repairs \ {r}) \union {q}
        /\ UNCHANGED <<rev, deleted, hints, cache, list, live, degraded, faults, drops, touches>>
    BY <1>5 DEF Sync!PointerServed, Sync!Replace
  <2>2. RepairOf(r, rev) BY DEF Pasts
  <2>3. PastOf(f, rev)
    <3>1. r.event.seq \in DOMAIN rev BY <2>2 DEF RepairOf, EventOf
    <3>2. rev[r.event.seq] \in Nat BY <1>0, <3>1, LogIs DEF Sync!SyncAssumption
    <3> QED BY <3>1, <3>2 DEF PastOf
  <2> HIDE DEF f
  <2>4. /\ q.event = r.event /\ q.item = r.item /\ q.from = r.from /\ q.once = r.once /\ q.got = f
        /\ q.head = r.head
        /\ q \in [event : {r.event}, phase : Sync!Phases, item : {r.item}, from : {r.from},
                  once : {r.once}, got : {f}, head : {r.head}]
    BY <2>2 DEF RepairOf, Sync!Phases
  <2>5. RepairOf(q, rev)
    <3> HIDE DEF q
    <3> QED BY <2>2, <2>3, <2>4 DEF RepairOf, Sync!Phases
  <2> HIDE DEF q
  <2>6. Counters' BY <2>1 DEF Counters
  <2> QED BY <1>b, <2>1, <2>5, <2>6 DEF Pasts
<1>6. ASSUME NEW r \in repairs, Sync!PointerGone(r) PROVE SyncInv'
  <2>1. Sync!SequenceRepair(r) /\ UNCHANGED <<rev, deleted, hints, cache, live, degraded, faults, drops, touches>>
    BY <1>6 DEF Sync!PointerGone
  <2>2. ListOf(list', rev) /\ \A q \in repairs' : RepairOf(q, rev) BY <2>1, SequenceRepairIs
  <2>3. Counters' BY <2>1 DEF Counters
  <2> QED BY <1>b, <2>1, <2>2, <2>3 DEF Pasts
<1>7. ASSUME NEW r \in repairs, Sync!PointerLands(r) PROVE SyncInv'
  <2>1. Sync!Finish(r) /\ UNCHANGED <<rev, deleted, hints, live, degraded, faults, drops, touches>>
    BY <1>7 DEF Sync!PointerLands
  <2>2. \A q \in repairs' : RepairOf(q, rev) BY <2>1 DEF Sync!Finish, Pasts
  <2>3. ListOf(list', rev) 
    <3>1. list' = list \/ Sync!Invalidate BY <1>7 DEF Sync!PointerLands
    <3> QED BY <3>1, InvalidateIs DEF Pasts
  <2>4. KnownOf(cache', rev)
    <3>1. cache' = cache \/ cache' = Sync!Merged(cache, r.got, r.event.head) BY <1>7 DEF Sync!PointerLands
    <3>2. KnownOf(cache, rev) /\ PastOf(r.got, rev) /\ r.event.head \in 0 .. HeadOf(rev)
      BY DEF Pasts, RepairOf, EventOf
    <3> QED BY <1>0, <3>1, <3>2, MergedIsKnown
  <2>5. Counters' BY <2>1 DEF Counters
  <2> QED BY <1>b, <2>1, <2>2, <2>3, <2>4, <2>5
<1>8. ASSUME NEW r \in repairs, Sync!PageServed(r) PROVE SyncInv'
  <2> DEFINE f == Sync!Restrict(rev, Sync!PageOf(r.from))
             q == [r EXCEPT !.phase = "pageBack", !.head = Sync!head, !.got = f]
  <2>1. /\ repairs' = (repairs \ {r}) \union {q}
        /\ UNCHANGED <<rev, deleted, hints, cache, list, live, degraded, faults, drops, touches>>
    BY <1>8 DEF Sync!PageServed, Sync!Replace
  <2>2. RepairOf(r, rev) BY DEF Pasts
  <2>3. PastOf(f, rev)
    <3>1. Sync!PageOf(r.from) \subseteq DOMAIN rev BY DEF Sync!PageOf
    <3>2. \A s \in DOMAIN rev : rev[s] \in Nat BY <1>0, LogIs DEF Sync!SyncAssumption
    <3> QED BY <3>1, <3>2 DEF PastOf, Sync!Restrict
  <2> HIDE DEF f
  <2>4. /\ q.event = r.event /\ q.item = r.item /\ q.from = r.from /\ q.once = r.once /\ q.got = f
        /\ q.head = HeadOf(rev)
        /\ q \in [event : {r.event}, phase : Sync!Phases, item : {r.item}, from : {r.from},
                  once : {r.once}, got : {f}, head : {HeadOf(rev)}]
    BY <1>0, <2>2 DEF RepairOf, Sync!Phases
  <2>5. RepairOf(q, rev)
    <3> HIDE DEF q
    <3> QED BY <1>0, <2>2, <2>3, <2>4 DEF RepairOf, Sync!Phases
  <2> HIDE DEF q
  <2>6. Counters' BY <2>1 DEF Counters
  <2> QED BY <1>b, <2>1, <2>5, <2>6 DEF Pasts
<1>9. ASSUME NEW r \in repairs, Sync!PageLands(r) PROVE SyncInv'
  <2>1. UNCHANGED <<rev, deleted, hints, live, degraded, faults, drops, touches>>
    BY <1>9 DEF Sync!PageLands
  <2>2. \A q \in repairs' : RepairOf(q, rev)
    <3>1. Sync!Finish(r) \/ \E n : Sync!PageFrom(r, n, FALSE) BY <1>9 DEF Sync!PageLands
    <3>2. CASE Sync!Finish(r) BY <3>2 DEF Sync!Finish, Pasts
    <3> QED BY <3>1, <3>2, PageFromIs
  <2>3. ListOf(list', rev) 
    <3>1. list' = list \/ Sync!Invalidate BY <1>9 DEF Sync!PageLands
    <3> QED BY <3>1, InvalidateIs DEF Pasts
  <2>4. KnownOf(cache', rev)
    <3>1. cache' = cache \/ cache' = Sync!Merged(cache, r.got, r.head) BY <1>9 DEF Sync!PageLands
    <3>2. KnownOf(cache, rev) /\ PastOf(r.got, rev) /\ r.head \in 0 .. HeadOf(rev)
      BY DEF Pasts, RepairOf
    <3> QED BY <1>0, <3>1, <3>2, MergedIsKnown
  <2>5. Counters' BY <2>1 DEF Counters
  <2> QED BY <1>b, <2>1, <2>2, <2>3, <2>4, <2>5
<1>10. ASSUME NEW r \in repairs, Sync!PointerFails(r) PROVE SyncInv'
  <2>1. /\ Sync!SequenceRepair(r) /\ UNCHANGED <<rev, deleted, hints, cache, live, degraded, drops, touches>>
        /\ faults < MaxFaults /\ faults' = faults + 1
    BY <1>10 DEF Sync!PointerFails
  <2>2. ListOf(list', rev) /\ \A q \in repairs' : RepairOf(q, rev) BY <2>1, SequenceRepairIs
  <2>3. Counters' BY <2>1 DEF Counters, Sync!SyncAssumption
  <2> QED BY <1>b, <2>1, <2>2, <2>3 DEF Pasts
<1>11. ASSUME NEW r \in repairs, Sync!PageFails(r) PROVE SyncInv'
  <2>1. /\ repairs' = repairs \ {r} /\ degraded' = TRUE
        /\ UNCHANGED <<rev, deleted, hints, cache, list, live, drops, touches>>
        /\ faults < MaxFaults /\ faults' = faults + 1
    BY <1>11 DEF Sync!PageFails, Sync!Finish
  <2>2. Counters' BY <2>1 DEF Counters, Sync!SyncAssumption
  <2> QED BY <1>b, <2>1, <2>2 DEF Pasts
<1>12. CASE Sync!ListServed
  <2> DEFINE d == [seq |-> HeadOf(rev), msgs |-> rev]
  <2>1. /\ list' = [phase |-> "served", data |-> d]
        /\ UNCHANGED <<rev, deleted, hints, cache, repairs, live, degraded, faults, drops, touches>>
    BY <1>0, <1>12 DEF Sync!ListServed, Sync!Snapshot
  <2>2. KnownOf(d, rev)
    <3>1. \A s \in DOMAIN rev : rev[s] \in Nat BY <1>0, LogIs DEF Sync!SyncAssumption
    <3> QED BY <1>0, <3>1 DEF KnownOf, PastOf
  <2> HIDE DEF d
  <2>3. ListOf(list', rev) BY <2>1, <2>2 DEF ListOf
  <2>4. Counters' BY <2>1 DEF Counters
  <2> QED BY <1>b, <2>1, <2>3, <2>4 DEF Pasts
<1>13. CASE Sync!ListLands
  <2>1. /\ cache' = list.data /\ list' = [phase |-> "idle", data |-> NoCache]
        /\ UNCHANGED <<rev, deleted, hints, repairs, live, degraded, faults, drops, touches>>
    BY <1>13 DEF Sync!ListLands, Sync!Idle
  <2>2. ListOf(list', rev) /\ KnownOf(cache', rev) BY <2>1 DEF ListOf, KnownOf, Pasts
  <2>3. Counters' BY <2>1 DEF Counters
  <2> QED BY <1>b, <2>1, <2>2, <2>3 DEF Pasts
<1>14. CASE Sync!Poll
  <2>1. /\ list' = [phase |-> "asked", data |-> NoCache]
        /\ UNCHANGED <<rev, deleted, hints, cache, repairs, live, degraded, faults, drops, touches>>
    BY <1>14 DEF Sync!Poll, Sync!Asked
  <2>2. ListOf(list', rev) BY <2>1 DEF ListOf, KnownOf
  <2>3. Counters' BY <2>1 DEF Counters
  <2> QED BY <1>b, <2>1, <2>2, <2>3 DEF Pasts
<1>15. CASE Sync!Touch
  <2>1. /\ Sync!Invalidate /\ touches < MaxTouches /\ touches' = touches + 1
        /\ UNCHANGED <<rev, deleted, hints, cache, repairs, live, degraded, faults, drops>>
    BY <1>15 DEF Sync!Touch
  <2>2. Counters' BY <2>1 DEF Counters, Sync!SyncAssumption
  <2> QED BY <1>b, <2>1, <2>2, InvalidateIs DEF Pasts
<1>16. CASE Sync!Drop \/ Sync!Recover
  <2>1. UNCHANGED <<rev, deleted, hints, cache, repairs, list>>
    BY <1>16 DEF Sync!Drop, Sync!Recover
  <2>2. Counters'
    <3>1. CASE Sync!Drop
      <4>1. live' = FALSE /\ degraded' = TRUE /\ drops < MaxDrops /\ drops' = drops + 1 /\ UNCHANGED <<faults, touches>>
        BY <3>1 DEF Sync!Drop
      <4>2. drops' \in 0 .. MaxDrops BY <4>1 DEF Counters, Sync!SyncAssumption
      <4>3. live' \in BOOLEAN /\ degraded' \in BOOLEAN BY <4>1
      <4>4. faults' \in 0 .. MaxFaults /\ touches' \in 0 .. MaxTouches BY <4>1 DEF Counters
      <4> QED BY <4>2, <4>3, <4>4, Zenon DEF Counters
    <3>2. CASE Sync!Recover BY <3>2 DEF Sync!Recover, Counters
    <3> QED BY <1>16, <3>1, <3>2
  <2> QED BY <1>b, <2>1, <2>2 DEF Pasts
<1>17. CASE Sync!RecoverWithGap
  <2>1. /\ Sync!Invalidate /\ hints' \subseteq hints /\ live' = TRUE /\ degraded' = FALSE
        /\ UNCHANGED <<rev, deleted, cache, repairs, faults, drops, touches>>
    BY <1>17 DEF Sync!RecoverWithGap
  <2>2. Counters' BY <2>1 DEF Counters
  <2> QED BY <1>b, <2>1, <2>2, InvalidateIs DEF Pasts
<1>18. CASE UNCHANGED Sync!vars
  <2>1. UNCHANGED <<rev, deleted, hints, cache, repairs, list>> /\ Counters'
    BY <1>18 DEF Sync!vars, Counters
  <2> QED BY <1>b, <2>1 DEF Pasts
<1> QED
  BY <1>1, <1>2, <1>3, <1>4, <1>5, <1>6, <1>7, <1>8, <1>9, <1>10, <1>11, <1>12, <1>13, <1>14, <1>15, <1>16,
     <1>17, <1>18
  DEF Sync!Next, Sync!RepairStep

LEMMA ClientsSync == ClientsSpec => Sync!Spec
<1>1. ClientsInit => Sync!Init BY DEF ClientsInit
<1>2. [ClientsNext]_clientsVars => [Sync!Next]_(Sync!vars)
  BY DEF ClientsNext, clientsVars, syncVars, Sync!vars
<1> QED BY <1>1, <1>2, PTL DEF ClientsSpec, Sync!Spec

LEMMA SyncInvariant == ClientsSpec => []SyncInv
<1>1. Sync!Init => SyncInv BY SyncInit, SyncConstants
<1>2. SyncInv /\ [Sync!Next]_(Sync!vars) => SyncInv' BY SyncNext, SyncConstants
<1> QED BY <1>1, <1>2, ClientsSync, PTL DEF Sync!Spec

SkippedInv == skipped \subseteq DOMAIN rev

LEMMA SkippedAreMessages == ClientsSpec => []SkippedInv
<1>1. Sync!Init => SkippedInv BY DEF Sync!Init, SkippedInv
<1>2. SyncInv /\ SkippedInv /\ [Sync!Next]_(Sync!vars) => SkippedInv'
  <2> SUFFICES ASSUME SyncInv, SkippedInv, [Sync!Next]_(Sync!vars) PROVE SkippedInv'
    OBVIOUS
  <2>1. DOMAIN rev \subseteq DOMAIN rev'
    <3>1. CASE Sync!Append
      <4>1. HeadOf(rev) \in Nat /\ DOMAIN rev = 1 .. HeadOf(rev) /\ Sync!head = HeadOf(rev)
        BY SyncConstants, LogIs DEF SyncInv, Pasts, Sync!SyncAssumption, Sync!head, HeadOf
      <4> QED BY <3>1, <4>1 DEF Sync!Append
    <3>2. CASE \E s \in DOMAIN rev : Sync!Revise(s) \/ Sync!Delete(s) BY <3>2 DEF Sync!Revise, Sync!Delete
    <3>3. ASSUME UNCHANGED rev PROVE DOMAIN rev \subseteq DOMAIN rev' BY <3>3
    <3> QED
      BY <3>1, <3>2, <3>3
      DEF Sync!Next, Sync!HandleHint, Sync!RepairStep, Sync!PointerServed, Sync!PointerGone, Sync!PointerLands,
          Sync!PageServed, Sync!PageLands, Sync!PointerFails, Sync!PageFails, Sync!ListServed, Sync!ListLands,
          Sync!Poll, Sync!Touch, Sync!Drop, Sync!Recover, Sync!RecoverWithGap, Sync!vars
  <2>2. skipped' \subseteq DOMAIN rev
    <3>1. ASSUME NEW r \in repairs, Sync!PageFails(r) PROVE skipped' \subseteq DOMAIN rev
      <4>1. r.event.seq \in DOMAIN rev BY DEF SyncInv, Pasts, RepairOf, EventOf
      <4> QED BY <3>1, <4>1 DEF Sync!PageFails, SkippedInv
    <3>2. CASE Sync!ListLands BY <3>2 DEF Sync!ListLands
    <3>3. ASSUME UNCHANGED skipped PROVE skipped' \subseteq DOMAIN rev BY <3>3 DEF SkippedInv
    <3> QED
      BY <3>1, <3>2, <3>3
      DEF Sync!Next, Sync!Append, Sync!Revise, Sync!Delete, Sync!clientVars, Sync!HandleHint, Sync!RepairStep,
          Sync!PointerServed, Sync!PointerGone, Sync!PointerLands, Sync!PageServed, Sync!PageLands,
          Sync!PointerFails, Sync!ListServed, Sync!Poll, Sync!Touch, Sync!Drop, Sync!Recover,
          Sync!RecoverWithGap, Sync!vars
  <2> QED BY <2>1, <2>2 DEF SkippedInv
<1> QED BY <1>1, <1>2, ClientsSync, SyncInvariant, PTL DEF Sync!Spec

\* What the client shows of a Thread is a past of the server's log, with any
\* number of repairs and refetches whose answers come in any order.
THEOREM CachesArePast == ClientsSpec => []CacheIsPast
<1>1. SyncInv => CacheIsPast
  <2> SUFFICES ASSUME SyncInv, cache # NoCache
               PROVE  /\ cache.seq <= Sync!head
                      /\ \A s \in DOMAIN cache.msgs : s \in DOMAIN rev /\ cache.msgs[s] <= rev[s]
    BY DEF CacheIsPast, Sync!CacheIsPast
  <2>1. KnownOf(cache, rev) BY DEF SyncInv, Pasts
  <2>2. Sync!head = HeadOf(rev) BY DEF Sync!head, HeadOf
  <2> QED BY <2>1, <2>2 DEF KnownOf, PastOf
<1> QED BY <1>1, SyncInvariant, PTL

\* The log, the cache and everything in flight between them keep their types.
THEOREM SyncIsTyped == ClientsSpec => []Sync!SyncTypeOK
<1>1. SyncInv /\ SkippedInv => Sync!SyncTypeOK
  <2> SUFFICES ASSUME SyncInv, SkippedInv PROVE Sync!SyncTypeOK OBVIOUS
  <2>1. /\ Sync!head = HeadOf(rev) /\ HeadOf(rev) \in 0 .. MaxMessages /\ DOMAIN rev = 1 .. HeadOf(rev)
        /\ \A s \in DOMAIN rev : rev[s] \in 1 .. Sync!Tombstone
    BY SyncConstants, LogIs DEF SyncInv, Pasts, Sync!head, HeadOf
  <2>2. MaxMessages \in Nat BY SyncConstants DEF Sync!SyncAssumption
  <2>3. \A c : KnownOf(c, rev) => Sync!IsCache(c)
    <3> SUFFICES ASSUME NEW c, KnownOf(c, rev), c # NoCache
                 PROVE  DOMAIN c.msgs \subseteq 1 .. MaxMessages /\ c.seq \in 0 .. MaxMessages
      BY DEF Sync!IsCache
    <3>1. DOMAIN c.msgs \subseteq DOMAIN rev /\ c.seq \in 0 .. HeadOf(rev) BY DEF KnownOf, PastOf
    <3> QED BY <2>1, <2>2, <3>1
  <2>4. Sync!IsCache(cache) /\ Sync!IsCache(list.data) BY <2>3 DEF SyncInv, Pasts, ListOf
  <2>5. \A r \in repairs : r.phase \in Sync!Phases /\ Sync!IsCache(r.item) BY <2>3 DEF SyncInv, Pasts, RepairOf
  <2>6. \A e \in hints : e.seq <= e.head /\ e.head <= Sync!head /\ e.rev <= rev[e.seq]
    BY <2>1 DEF SyncInv, Pasts, EventOf
  <2>7. /\ live \in BOOLEAN /\ degraded \in BOOLEAN
        /\ faults <= MaxFaults /\ drops <= MaxDrops /\ touches <= MaxTouches
    BY DEF SyncInv, Counters
  <2>8. deleted \subseteq DOMAIN rev /\ list.phase \in {"idle", "asked", "served"} BY DEF SyncInv, Pasts, ListOf
  <2>9. Sync!head <= MaxMessages BY <2>1, <2>2
  <2> QED BY <2>1, <2>4, <2>5, <2>6, <2>7, <2>8, <2>9 DEF SkippedInv, Sync!SyncTypeOK
<1> QED BY <1>1, SyncInvariant, SkippedAreMessages, PTL

-----------------------------------------------------------------------------
(* What becomes of a message.                                              *)

\* A repair that is going to bring the message it has been told of.
Brings(r) ==
  LET s == r.event.seq
  IN  /\ r.phase = "pointerBack" => s \in DOMAIN r.got
      /\ r.phase = "page" => r.from \in Nat /\ r.from < s /\ (r.once => r.from = s - 1)
      /\ r.phase = "pageBack" =>
           /\ r.got = [x \in DOMAIN r.got |-> r.got[x]]
           /\ s \in DOMAIN r.got \/ (~r.once /\ s <= r.head /\ \A t \in DOMAIN r.got : t < s)

Has(c, s) == c # NoCache /\ s \in DOMAIN c.msgs

\* A message is in the cache, on its way there, or counted by the history.  A
\* repair that read it in the cache may end without it: it is none on the way.
Coming(s) ==
  \/ s \in skipped \/ list.phase # "idle" \/ Has(cache, s)
  \/ \E e \in hints : e.rev = 1 /\ e.seq = s
  \/ \E r \in repairs : r.event.rev = 1 /\ r.event.seq = s /\ ~Has(r.item, s)

\* The list, once loaded, stays loaded.
Loaded ==
  /\ list.phase = "served" => list.data # NoCache
  /\ \A r \in repairs : r.item # NoCache => cache # NoCache

Hinted ==
  /\ \A e \in hints : e.rev = 1 => e.head = e.seq
  /\ \A r \in repairs : r.event.rev = 1 => /\ r.event.head = r.event.seq
                                           /\ r.event.seq \in deleted \/ Brings(r)

AllBrought == Loaded /\ Hinted /\ \A s \in DOMAIN rev \ deleted : Coming(s)

\* A bounded set of numbers has a greatest one.
LEMMA MaxIs ==
  ASSUME NEW n \in Nat, NEW S, S \subseteq 0 .. n, S # {}
  PROVE  Sync!Max(S) \in S /\ \A y \in S : y <= Sync!Max(S)
<1> DEFINE D == {n - x : x \in S}
<1>0. \A x \in S : x \in Int /\ n - x \in Nat OBVIOUS
<1>1. D \subseteq Nat /\ D # {} BY <1>0
<1>2. PICK d \in D : \A y \in D : <<y, d>> \notin OpToRel(<, Nat)
  <2> HIDE DEF D
  <2> QED BY <1>1, NatLessThanWellFounded, WFMin
<1>3. PICK m \in S : d = n - m OBVIOUS
<1>4. \A y \in S : m >= y
  <2> TAKE y \in S
  <2>1. n - y \in D /\ n - y \in Nat /\ d \in Nat BY <1>1
  <2>2. ~(n - y < d) BY <1>2, <2>1 DEF OpToRel
  <2> QED BY <1>3, <2>1, <2>2
<1>5. Sync!Max(S) \in S /\ \A y \in S : Sync!Max(S) >= y BY <1>4, Zenon DEF Sync!Max
<1>6. \A y \in S : y \in Int OBVIOUS
<1> QED BY <1>5, <1>6

LEMMA CursorIs ==
  ASSUME NEW g, Log(g), Sync!SyncAssumption, NEW c, c # NoCache, KnownOf(c, g)
  PROVE  Sync!Cursor(c) \in Nat /\ \A s \in DOMAIN c.msgs : s <= Sync!Cursor(c)
<1> DEFINE S == {c.seq, 0} \union DOMAIN c.msgs
<1>1. HeadOf(g) \in Nat /\ DOMAIN g = 1 .. HeadOf(g) BY LogIs DEF Sync!SyncAssumption
<1>2. S \subseteq 0 .. HeadOf(g) /\ S # {} BY <1>1 DEF KnownOf, PastOf
<1>3. Sync!Cursor(c) = Sync!Max(S) BY DEF Sync!Cursor
<1>4. DOMAIN c.msgs \subseteq S OBVIOUS
<1> HIDE DEF S
<1>5. Sync!Max(S) \in S /\ \A y \in S : y <= Sync!Max(S) BY <1>1, <1>2, MaxIs
<1>6. Sync!Max(S) \in Nat
  <2>1. \A x \in 0 .. HeadOf(g) : x \in Nat OBVIOUS
  <2> QED BY Zenon, <1>2, <1>5, <2>1
<1>7. \A y \in DOMAIN c.msgs : y <= Sync!Max(S) BY <1>4, <1>5
<1> QED BY Zenon, <1>3, <1>6, <1>7

\* A page is of the messages that follow, without a hole but for deleted ones.
LEMMA PageIs ==
  ASSUME Log(rev), Sync!SyncAssumption, NEW n \in Nat
  PROVE  /\ Sync!PageOf(n) \subseteq DOMAIN rev
         /\ \A s \in DOMAIN rev \ deleted :
              s > n => s \in Sync!PageOf(n) \/ (s # n + 1 /\ \A t \in Sync!PageOf(n) : t < s)
<1> DEFINE later == {s \in DOMAIN rev \ deleted : s > n}
           Below(s) == {t \in later : t < s}
           P == {s \in later : Cardinality(Below(s)) < PageLimit}
<1>1. HeadOf(rev) \in Nat /\ DOMAIN rev = 1 .. HeadOf(rev) /\ PageLimit \in Nat \ {0}
  BY LogIs DEF Sync!SyncAssumption
<1>2. later \subseteq 1 .. HeadOf(rev) BY <1>1
<1>3. IsFiniteSet(1 .. HeadOf(rev)) BY <1>1, FS_Interval
<1>4. \A s : Below(s) \subseteq 1 .. HeadOf(rev) BY <1>2
<1>5. \A s : IsFiniteSet(Below(s)) /\ Cardinality(Below(s)) \in Nat
  <2> HIDE DEF Below
  <2> QED BY <1>3, <1>4, FS_Subset, FS_CardinalityType
<1>6. Sync!PageOf(n) = P
  <2>1. Sync!PageOf(n) = {s \in later : Sync!Cardinality(Below(s)) < PageLimit}
    BY Zenon DEF Sync!PageOf
  <2>2. \A s : Sync!Cardinality(Below(s)) = Cardinality(Below(s))
    <3> HIDE DEF Below
    <3> QED BY Zenon DEF Sync!Cardinality, Cardinality, Sync!IsFiniteSet, IsFiniteSet
  <2> HIDE DEF later, Below
  <2> QED BY <2>1, <2>2
<1>7. n + 1 \in later => n + 1 \in P
  <2>1. Below(n + 1) = {} BY <1>2
  <2>2. Cardinality(Below(n + 1)) = 0
    <3> HIDE DEF Below
    <3> QED BY <2>1, FS_EmptySet
  <2> HIDE DEF Below
  <2> QED BY <1>1, <2>2
<1>8. ASSUME NEW s \in later, NEW t \in P, ~(t < s) PROVE s \in P
  <2>1. s \in Int /\ t \in later /\ t \in Int BY <1>2
  <2>2. Below(s) \subseteq Below(t)
    <3>1. \A u \in later : u \in Int BY <1>2
    <3> QED BY <1>8, <2>1, <3>1
  <2>3. Cardinality(Below(s)) <= Cardinality(Below(t))
    <3> HIDE DEF Below
    <3> QED BY <1>5, <2>2, FS_Subset
  <2>4. Cardinality(Below(t)) < PageLimit OBVIOUS
  <2>5. Cardinality(Below(s)) < PageLimit
    <3> HIDE DEF Below
    <3> QED BY <1>1, <1>5, <2>3, <2>4
  <2> QED BY <2>5
<1>9. P \subseteq DOMAIN rev OBVIOUS
<1>10. \A s \in DOMAIN rev \ deleted : s > n => s \in later OBVIOUS
<1> HIDE DEF P, later
<1> QED BY <1>6, <1>7, <1>8, <1>9, <1>10

\* What a merge puts into the cache stays beside what was there.
LEMMA MergedHolds ==
  ASSUME NEW g, Log(g), Sync!SyncAssumption, NEW c, c # NoCache, KnownOf(c, g),
         NEW f, PastOf(f, g), NEW h \in 0 .. HeadOf(g)
  PROVE  /\ Sync!Merged(c, f, h) # NoCache
         /\ DOMAIN Sync!Merged(c, f, h).msgs = DOMAIN f \union DOMAIN c.msgs
<1> DEFINE o == Sync!Over(f, c.msgs)
           m == Sync!Max({c.seq, h})
           D == DOMAIN f \union DOMAIN c.msgs
<1>0. /\ HeadOf(g) \in Nat /\ DOMAIN g = 1 .. HeadOf(g) /\ HeadOf(g) <= MaxMessages /\ MaxMessages \in Nat
  BY LogIs DEF Sync!SyncAssumption
<1>1. Sync!Merged(c, f, h) = [seq |-> m, msgs |-> o] BY DEF Sync!Merged
<1>2. DOMAIN o = D /\ o \in [D -> Nat] BY DEF Sync!Over, PastOf, KnownOf
<1>3. D \in SUBSET (1 .. MaxMessages) BY <1>0 DEF PastOf, KnownOf
<1>4. m \in Nat
  <2>1. m \in 0 .. HeadOf(g) BY <1>0, MaxOfTwo DEF KnownOf
  <2> QED BY <1>0, <2>1
<1> HIDE DEF o, m, D
<1>5. [seq |-> m, msgs |-> o] \in [seq : Nat, msgs : UNION {[S -> Nat] : S \in SUBSET (1 .. MaxMessages)}]
  BY <1>2, <1>3, <1>4
<1> QED BY <1>1, <1>2, <1>5 DEF Sync!SyncAssumption, D

LEMMA AllBroughtInit == ASSUME Sync!Init PROVE AllBrought
<1>1. /\ rev = <<>> /\ hints = {} /\ repairs = {} /\ list.phase # "served"
  BY DEF Sync!Init, Sync!Idle, Sync!Asked
<1>2. DOMAIN rev = {} BY <1>1
<1> QED BY <1>1, <1>2 DEF AllBrought, Loaded, Hinted

\* An answer of the list has a cache.
LEMMA SnapshotIs == ASSUME Log(rev), Sync!SyncAssumption PROVE Sync!Snapshot # NoCache
<1>1. /\ HeadOf(rev) \in Nat /\ HeadOf(rev) <= MaxMessages /\ MaxMessages \in Nat
      /\ DOMAIN rev = 1 .. HeadOf(rev) /\ rev = [s \in DOMAIN rev |-> rev[s]]
      /\ \A s \in DOMAIN rev : rev[s] \in 1 .. Sync!Tombstone
  BY LogIs DEF Sync!SyncAssumption
<1>2. DOMAIN rev \in SUBSET (1 .. MaxMessages) BY <1>1
<1>3. rev \in [DOMAIN rev -> Nat] BY <1>1 DEF Sync!SyncAssumption, Sync!Tombstone
<1>4. Sync!Snapshot = [seq |-> HeadOf(rev), msgs |-> rev] BY DEF Sync!Snapshot, Sync!head, HeadOf
<1>5. rev \in UNION {[S -> Nat] : S \in SUBSET (1 .. MaxMessages)} BY <1>2, <1>3
<1>6. Sync!Snapshot \in [seq : Nat, msgs : UNION {[S -> Nat] : S \in SUBSET (1 .. MaxMessages)}]
  BY <1>1, <1>4, <1>5
<1> QED BY <1>6 DEF Sync!SyncAssumption

LEMMA Reloads == ASSUME Sync!Invalidate PROVE list'.phase = "asked" \/ list' = list
  BY DEF Sync!Invalidate, Sync!Asked

LEMMA ReloadsAny == ASSUME Sync!Invalidate PROVE list'.phase # "idle"
  BY DEF Sync!Invalidate, Sync!Asked

\* One repair goes on, or ends: with its message in the cache, reloading the list,
\* or failing.
LEMMA RepairGoesOn ==
  ASSUME AllBrought, NEW r \in repairs, NEW N, repairs' = (repairs \ {r}) \union N,
         UNCHANGED <<rev, deleted, hints>>, skipped \subseteq skipped', list' = list \/ Sync!Invalidate,
         cache # NoCache => cache' # NoCache /\ DOMAIN cache.msgs \subseteq DOMAIN cache'.msgs,
         \A q \in N : /\ q.event = r.event /\ q.item = r.item
                      /\ r.event.rev = 1 /\ r.event.seq \notin deleted => Brings(q),
         r.event.rev = 1 /\ r.event.seq \notin deleted /\ ~Has(r.item, r.event.seq) =>
           r.event.seq \in skipped' \/ list'.phase # "idle" \/ Has(cache', r.event.seq) \/ N # {}
  PROVE  AllBrought'
<1>1. Loaded'
  <2>1. list'.phase = "served" => list'.data # NoCache BY Reloads DEF AllBrought, Loaded
  <2>2. \A p \in repairs' : p.item # NoCache => cache' # NoCache BY DEF AllBrought, Loaded
  <2> QED BY <2>1, <2>2 DEF Loaded
<1>2. Hinted'
  <2>1. \A p \in repairs' : p.event.rev = 1 => p.event.head = p.event.seq /\ (p.event.seq \in deleted \/ Brings(p))
    BY DEF AllBrought, Hinted
  <2>2. \A p : Brings(p)' <=> Brings(p) BY DEF Brings
  <2> QED BY <2>1, <2>2 DEF AllBrought, Hinted
<1>3. ASSUME NEW s \in DOMAIN rev \ deleted PROVE Coming(s)'
  <2>1. Coming(s) BY DEF AllBrought
  <2>2. list.phase # "idle" => list'.phase # "idle" BY ReloadsAny
  <2>3. CASE s \in skipped \/ list.phase # "idle" \/ Has(cache, s) BY <2>2, <2>3 DEF Coming, Has
  <2>4. CASE \E e \in hints : e.rev = 1 /\ e.seq = s BY <2>4 DEF Coming
  <2>5. ASSUME NEW p \in repairs, p.event.rev = 1, p.event.seq = s, ~Has(p.item, s) PROVE Coming(s)'
    <3>1. CASE p # r
      <4>1. p \in repairs' BY <3>1
      <4> QED BY <2>5, <4>1 DEF Coming, Has
    <3>2. CASE p = r
      <4>1. \/ s \in skipped' \/ list'.phase # "idle" \/ Has(cache', s)
            \/ \E q \in N : q.event = r.event /\ q.item = r.item
        BY <2>5, <3>2
      <4>2. ASSUME NEW q \in N, q.event = r.event, q.item = r.item PROVE Coming(s)'
        <5>1. q \in repairs' /\ q.event.rev = 1 /\ q.event.seq = s /\ ~Has(q.item, s) BY <2>5, <3>2, <4>2
        <5> QED BY <5>1 DEF Coming, Has
      <4> QED BY <4>1, <4>2 DEF Coming, Has
    <3> QED BY <3>1, <3>2
  <2> QED BY <2>1, <2>3, <2>4, <2>5 DEF Coming
<1> QED BY <1>1, <1>2, <1>3 DEF AllBrought

\* Nothing but the list's answer changes what is coming.
LEMMA NothingMoves ==
  ASSUME AllBrought, UNCHANGED <<cache, repairs, skipped>>, deleted \subseteq deleted',
         list' = list \/ Sync!Invalidate,
         \A s \in DOMAIN rev' \ deleted' : s \in DOMAIN rev \/ \E e \in hints' : e.rev = 1 /\ e.seq = s,
         \A e \in hints' : e \in hints \/ (e.rev = 1 => e.head = e.seq),
         hints \subseteq hints' \/ list'.phase # "idle"
  PROVE  AllBrought'
<1>1. Loaded'
  <2>1. list'.phase = "served" => list'.data # NoCache BY Reloads DEF AllBrought, Loaded
  <2> QED BY <2>1 DEF AllBrought, Loaded
<1>2. Hinted'
  <2>1. \A p : Brings(p)' <=> Brings(p) BY DEF Brings
  <2> QED BY <2>1 DEF AllBrought, Hinted
<1>3. ASSUME NEW s \in DOMAIN rev' \ deleted' PROVE Coming(s)'
  <2>1. list.phase # "idle" => list'.phase # "idle" BY ReloadsAny
  <2>2. CASE \E e \in hints' : e.rev = 1 /\ e.seq = s BY <2>2 DEF Coming
  <2>3. CASE list'.phase # "idle" BY <2>3 DEF Coming
  <2>4. CASE hints \subseteq hints' /\ s \in DOMAIN rev
    <3>1. Coming(s) BY <2>4 DEF AllBrought
    <3> QED BY <2>1, <2>4, <3>1 DEF Coming, Has
  <2> QED BY <2>2, <2>3, <2>4
<1> QED BY <1>1, <1>2, <1>3 DEF AllBrought

\* The record of a repair that goes on with a page.
LEMMA PageRepair ==
  ASSUME Pasts, NEW r \in repairs, NEW n, NEW once, Sync!PageFrom(r, n, once)
  PROVE  \E q : /\ repairs' = (repairs \ {r}) \union {q}
                /\ q.event = r.event /\ q.item = r.item /\ q.phase = "page" /\ q.from = n /\ q.once = once
<1> DEFINE q == [r EXCEPT !.phase = "page", !.from = n, !.once = once, !.got = <<>>]
<1>1. r \in [event : {r.event}, phase : Sync!Phases, item : {r.item}, from : {r.from},
             once : {r.once}, got : {r.got}, head : {r.head}]
  BY DEF Pasts, RepairOf
<1>2. q.event = r.event /\ q.item = r.item /\ q.phase = "page" /\ q.from = n /\ q.once = once BY <1>1
<1>3. repairs' = (repairs \ {r}) \union {q} BY DEF Sync!PageFrom, Sync!Replace
<1> HIDE DEF q
<1> QED BY <1>2, <1>3

\* A page that begins before the message brings it.
LEMMA PageGoesOn ==
  ASSUME Pasts, AllBrought, NEW r \in repairs, NEW n, NEW once \in BOOLEAN, Sync!PageFrom(r, n, once),
         r.event.rev = 1 /\ r.event.seq \notin deleted =>
           n \in Nat /\ n < r.event.seq /\ (once => n = r.event.seq - 1),
         UNCHANGED <<rev, deleted, hints, list>>, skipped \subseteq skipped',
         cache # NoCache => cache' # NoCache /\ DOMAIN cache.msgs \subseteq DOMAIN cache'.msgs
  PROVE  AllBrought'
<1>1. PICK q : /\ repairs' = (repairs \ {r}) \union {q}
               /\ q.event = r.event /\ q.item = r.item /\ q.phase = "page" /\ q.from = n /\ q.once = once
  BY PageRepair
<1>2. r.event.rev = 1 /\ r.event.seq \notin deleted => Brings(q) BY <1>1 DEF Brings
<1> DEFINE N == {q}
<1>3. /\ repairs' = (repairs \ {r}) \union N /\ N # {}
      /\ \A p \in N : /\ p.event = r.event /\ p.item = r.item
                      /\ r.event.rev = 1 /\ r.event.seq \notin deleted => Brings(p)
  BY <1>1, <1>2
<1> HIDE DEF N
<1> QED BY <1>3, RepairGoesOn

\* Without a message request's answer, the sequence repair brings the message.
LEMMA SequenceRepairBrings ==
  ASSUME Pasts, AllBrought, Sync!SyncAssumption, NEW r \in repairs, Sync!SequenceRepair(r),
         UNCHANGED <<rev, deleted, hints, cache, skipped>>
  PROVE  AllBrought'
<1> DEFINE e == r.event
           before == Sync!Max({e.head, 1}) - 1
<1>1. /\ HeadOf(rev) \in Nat /\ DOMAIN rev = 1 .. HeadOf(rev)
      /\ KnownOf(r.item, rev) /\ EventOf(e, rev) /\ Log(rev)
      /\ e.rev = 1 => e.head = e.seq
  BY LogIs DEF Pasts, RepairOf, AllBrought, Hinted, Sync!SyncAssumption
<1>2. e.head \in 1 .. HeadOf(rev) BY <1>1 DEF EventOf
<1>3. before = e.head - 1
  <2>1. {e.head, 1} \subseteq 0 .. HeadOf(rev) /\ {e.head, 1} # {} BY <1>1, <1>2
  <2>2. Sync!Max({e.head, 1}) \in {e.head, 1} /\ \A y \in {e.head, 1} : y <= Sync!Max({e.head, 1})
    BY <1>1, <2>1, MaxIs
  <2> QED BY <1>2, <2>2
<1> HIDE DEF before
\* It ends: the list is reloaded, or what it read of the cache had the message.
<1>a. ASSUME Sync!Finish(r), list' = list \/ Sync!Invalidate,
             e.rev = 1 /\ ~Has(r.item, e.seq) => list'.phase # "idle"
      PROVE  AllBrought'
  <2> DEFINE N == {}
  <2>1. repairs' = (repairs \ {r}) \union N /\ \A q \in N : FALSE BY <1>a DEF Sync!Finish
  <2> HIDE DEF N
  <2> QED BY <1>a, <2>1, RepairGoesOn
<1>4. CASE r.item = NoCache /\ Sync!IsAppend(e) /\ Sync!PageFrom(r, before, TRUE) /\ UNCHANGED list
  <2>1. before \in Nat /\ before < e.seq /\ before = e.seq - 1 BY <1>1, <1>2, <1>3, <1>4 DEF Sync!IsAppend
  <2>2. PICK once : once = TRUE /\ Sync!PageFrom(r, before, once) BY <1>4
  <2> QED BY <1>4, <2>1, <2>2, PageGoesOn
<1>5. CASE r.item = NoCache /\ ~Sync!IsAppend(e) /\ Sync!Finish(r) /\ Sync!Invalidate
  BY <1>5, <1>a DEF Sync!IsAppend
<1>6. CASE r.item # NoCache /\ Sync!Cursor(r.item) < e.head /\ Sync!PageFrom(r, Sync!Cursor(r.item), FALSE) /\ UNCHANGED list
  <2>1. Sync!Cursor(r.item) \in Nat BY <1>1, <1>6, CursorIs
  <2>2. PICK once : once = FALSE /\ Sync!PageFrom(r, Sync!Cursor(r.item), once) BY <1>6
  <2> QED BY <1>1, <1>6, <2>1, <2>2, PageGoesOn
<1>7. CASE /\ r.item # NoCache /\ Sync!IsAppend(e) /\ e.head \notin DOMAIN r.item.msgs
           /\ Sync!PageFrom(r, before, TRUE) /\ UNCHANGED list
  <2>1. before \in Nat /\ before < e.seq /\ before = e.seq - 1 BY <1>1, <1>2, <1>3, <1>7 DEF Sync!IsAppend
  <2>2. PICK once : once = TRUE /\ Sync!PageFrom(r, before, once) BY <1>7
  <2> QED BY <1>7, <2>1, <2>2, PageGoesOn
<1>8. CASE /\ r.item # NoCache /\ ~(Sync!IsAppend(e) /\ e.head \notin DOMAIN r.item.msgs)
           /\ Sync!Finish(r) /\ UNCHANGED list
  <2>1. e.rev = 1 => Has(r.item, e.seq) BY <1>1, <1>8 DEF Sync!IsAppend, Has
  <2> QED BY <1>8, <1>a, <2>1
<1> HIDE DEF e
<1>9. \/ r.item = NoCache /\ Sync!IsAppend(e) /\ Sync!PageFrom(r, before, TRUE) /\ UNCHANGED list
      \/ r.item = NoCache /\ ~Sync!IsAppend(e) /\ Sync!Finish(r) /\ Sync!Invalidate
      \/ /\ r.item # NoCache /\ Sync!Cursor(r.item) < e.head
         /\ Sync!PageFrom(r, Sync!Cursor(r.item), FALSE) /\ UNCHANGED list
      \/ /\ r.item # NoCache /\ Sync!IsAppend(e) /\ e.head \notin DOMAIN r.item.msgs
         /\ Sync!PageFrom(r, before, TRUE) /\ UNCHANGED list
      \/ /\ r.item # NoCache /\ ~(Sync!IsAppend(e) /\ e.head \notin DOMAIN r.item.msgs)
         /\ Sync!Finish(r) /\ UNCHANGED list
  BY DEF Sync!SequenceRepair, e, before
<1> QED BY <1>4, <1>5, <1>6, <1>7, <1>8, <1>9

LEMMA AllBroughtNext ==
  ASSUME SyncInv, AllBrought, [Sync!Next]_(Sync!vars), Sync!SyncAssumption
  PROVE  AllBrought'
<1> USE DEF Sync!clientVars
<1>0. /\ Pasts /\ Log(rev) /\ HeadOf(rev) \in Nat /\ Sync!head = HeadOf(rev) /\ DOMAIN rev = 1 .. HeadOf(rev)
      /\ KnownOf(cache, rev) /\ \A s \in DOMAIN rev : rev[s] \in 1 .. Sync!Tombstone
  BY LogIs DEF SyncInv, Pasts, Sync!SyncAssumption, Sync!head, HeadOf
\* The server commits.
<1>1. CASE Sync!Append
  <2> DEFINE h == HeadOf(rev)
             e == [seq |-> h + 1, rev |-> 1, head |-> h + 1]
  <2>1. DOMAIN rev' = 1 .. h + 1 /\ hints' = hints \union {e} /\ UNCHANGED <<deleted, cache, repairs, list, skipped>>
    BY <1>0, <1>1 DEF Sync!Append
  <2>2. \A s \in 1 .. h + 1 : s \in DOMAIN rev \/ s = h + 1 BY <1>0
  <2>3. e.seq = h + 1 /\ e.head = h + 1 /\ e.rev = 1 OBVIOUS
  <2> HIDE DEF e, h
  <2> QED BY <2>1, <2>2, <2>3, NothingMoves
<1>a. ASSUME NEW s \in DOMAIN rev, NEW k, k # 1, DOMAIN rev' = DOMAIN rev,
             hints' = hints \union {[seq |-> s, rev |-> k, head |-> Sync!head]},
             deleted \subseteq deleted', UNCHANGED Sync!clientVars
      PROVE  AllBrought'
  <2> DEFINE e == [seq |-> s, rev |-> k, head |-> Sync!head]
  <2>1. hints' = hints \union {e} /\ e.rev # 1 BY <1>a
  <2> HIDE DEF e
  <2> QED BY <1>a, <2>1, NothingMoves
<1>2. ASSUME NEW s \in DOMAIN rev, Sync!Revise(s) PROVE AllBrought'
  <2>1. rev[s] + 1 # 1 BY <1>0
  <2> QED BY <1>2, <1>a, <2>1 DEF Sync!Revise
<1>3. ASSUME NEW s \in DOMAIN rev, Sync!Delete(s) PROVE AllBrought'
  <2>1. Sync!Tombstone # 1 BY DEF Sync!Tombstone, Sync!SyncAssumption
  <2> QED BY <1>3, <1>a, <2>1 DEF Sync!Delete
<1>4. ASSUME NEW e \in hints, Sync!HandleHint(e) PROVE AllBrought'
  <2> DEFINE r == [event |-> e, phase |-> "pointer", item |-> cache,
                   from |-> 0, once |-> FALSE, got |-> <<>>, head |-> 0]
  <2>1. hints' = hints \ {e} /\ repairs' = repairs \union {r} /\ UNCHANGED <<rev, deleted, cache, list, skipped>>
    BY <1>4 DEF Sync!HandleHint, Sync!Start
  <2>2. r.event = e /\ r.item = cache /\ Brings(r) BY DEF Brings
  <2> HIDE DEF r
  <2>3. PICK q : repairs' = repairs \union {q} /\ q.event = e /\ q.item = cache /\ Brings(q)
    BY <2>1, <2>2
  <2>4. Loaded' BY <2>1, <2>3 DEF AllBrought, Loaded
  <2>5. Hinted'
    <3>1. \A p : Brings(p)' <=> Brings(p) BY DEF Brings
    <3> QED BY <2>1, <2>3, <3>1 DEF AllBrought, Hinted
  <2>6. ASSUME NEW s \in DOMAIN rev \ deleted PROVE Coming(s)'
    <3>1. Coming(s) BY DEF AllBrought
    <3>2. CASE e.seq = s /\ e.rev = 1
      <4>1. q \in repairs' BY <2>3
      <4> QED BY <2>1, <2>3, <3>2, <4>1 DEF Coming, Has
    <3>3. CASE ~(e.seq = s /\ e.rev = 1)
      <4>1. \A f \in hints : f.seq = s /\ f.rev = 1 => f \in hints' BY <2>1, <3>3
      <4>2. repairs \subseteq repairs' BY <2>3
      <4> QED BY <2>1, <3>1, <4>1, <4>2 DEF Coming, Has
    <3> QED BY <3>2, <3>3
  <2> QED BY <2>1, <2>4, <2>5, <2>6 DEF AllBrought
<1>5. ASSUME NEW r \in repairs, Sync!PointerServed(r) PROVE AllBrought'
  <2> DEFINE f == [s \in {r.event.seq} |-> rev[s]]
             q == [r EXCEPT !.phase = "pointerBack", !.got = f]
             N == {q}
  <2>1. repairs' = (repairs \ {r}) \union N /\ N # {} /\ UNCHANGED <<rev, deleted, hints, cache, list, skipped>>
    BY <1>5 DEF Sync!PointerServed, Sync!Replace
  <2>2. q.event = r.event /\ q.item = r.item /\ q.got = f /\ q.phase = "pointerBack"
    BY <1>0 DEF Pasts, RepairOf
  <2>3. DOMAIN f = {r.event.seq} OBVIOUS
  <2> HIDE DEF q, f
  <2>4. Brings(q) BY <2>2, <2>3 DEF Brings
  <2>5. \A p \in N : p.event = r.event /\ p.item = r.item /\ Brings(p) BY <2>2, <2>4
  <2> HIDE DEF N
  <2> QED BY <2>1, <2>5, RepairGoesOn
<1>6. ASSUME NEW r \in repairs, Sync!PointerGone(r) PROVE AllBrought'
  <2>1. Sync!SequenceRepair(r) /\ UNCHANGED <<rev, deleted, hints, cache, skipped>> BY <1>6 DEF Sync!PointerGone
  <2> QED BY <1>0, <2>1, SequenceRepairBrings
<1>7. ASSUME NEW r \in repairs, Sync!PointerFails(r) PROVE AllBrought'
  <2>1. Sync!SequenceRepair(r) /\ UNCHANGED <<rev, deleted, hints, cache, skipped>> BY <1>7 DEF Sync!PointerFails
  <2> QED BY <1>0, <2>1, SequenceRepairBrings
\* A repair that ends.
<1>b. ASSUME NEW r \in repairs, Sync!Finish(r), UNCHANGED <<rev, deleted, hints>>, skipped \subseteq skipped',
             list' = list \/ Sync!Invalidate,
             cache # NoCache => cache' # NoCache /\ DOMAIN cache.msgs \subseteq DOMAIN cache'.msgs,
             r.event.rev = 1 /\ r.event.seq \notin deleted =>
               r.event.seq \in skipped' \/ list'.phase # "idle" \/ Has(cache', r.event.seq)
      PROVE  AllBrought'
  <2> DEFINE N == {}
  <2>1. repairs' = (repairs \ {r}) \union N /\ \A q \in N : FALSE BY <1>b DEF Sync!Finish
  <2> HIDE DEF N
  <2> QED BY <1>b, <2>1, RepairGoesOn
<1>8. ASSUME NEW r \in repairs, Sync!PointerLands(r) PROVE AllBrought'
  <2>1. /\ r.phase = "pointerBack" /\ Sync!Finish(r) /\ UNCHANGED <<rev, deleted, hints, skipped>>
        /\ IF r.item # NoCache THEN cache' = Sync!Merged(cache, r.got, r.event.head) /\ UNCHANGED list
           ELSE Sync!Invalidate /\ UNCHANGED cache
    BY <1>8 DEF Sync!PointerLands
  <2>2. CASE r.item # NoCache
    <3>1. PastOf(r.got, rev) /\ r.event.head \in 0 .. HeadOf(rev) /\ cache # NoCache
      BY <1>0, <2>2 DEF Pasts, RepairOf, EventOf, AllBrought, Loaded
    <3>2. cache' # NoCache /\ DOMAIN cache'.msgs = DOMAIN r.got \union DOMAIN cache.msgs
      BY <1>0, <2>1, <2>2, <3>1, MergedHolds
    <3>3. r.event.rev = 1 /\ r.event.seq \notin deleted => Has(cache', r.event.seq)
      BY <2>1, <3>2 DEF AllBrought, Hinted, Brings, Has
    <3> QED BY <1>b, <2>1, <2>2, <3>2, <3>3
  <2>3. CASE r.item = NoCache
    <3>1. Sync!Invalidate /\ UNCHANGED cache BY <2>1, <2>3
    <3>2. list'.phase # "idle" BY <3>1, ReloadsAny
    <3> QED BY <1>b, <2>1, <3>1, <3>2
  <2> QED BY <2>2, <2>3
<1>9. ASSUME NEW r \in repairs, Sync!PageServed(r) PROVE AllBrought'
  <2> DEFINE P == Sync!PageOf(r.from)
             f == Sync!Restrict(rev, P)
             q == [r EXCEPT !.phase = "pageBack", !.head = Sync!head, !.got = f]
             N == {q}
  <2>1. r.phase = "page" /\ repairs' = (repairs \ {r}) \union N /\ N # {} /\ UNCHANGED <<rev, deleted, hints, cache, list, skipped>>
    BY <1>9 DEF Sync!PageServed, Sync!Replace
  <2>2. q.event = r.event /\ q.item = r.item /\ q.got = f /\ q.phase = "pageBack" /\ q.head = Sync!head /\ q.once = r.once
    BY <1>0 DEF Pasts, RepairOf
  <2>3. DOMAIN f = P /\ f = [x \in DOMAIN f |-> f[x]] BY DEF Sync!Restrict
  <2>4. r.event.seq \in DOMAIN rev BY <1>0 DEF Pasts, RepairOf, EventOf
  <2> HIDE DEF q, f, P
  <2>5. ASSUME r.event.rev = 1, r.event.seq \notin deleted PROVE Brings(q)
    <3> DEFINE s == r.event.seq
    <3>1. r.from \in Nat /\ r.from < s /\ (r.once => r.from = s - 1)
      BY <2>1, <2>5 DEF AllBrought, Hinted, Brings
    <3>2. s \in Nat /\ s > r.from /\ s <= Sync!head /\ (r.once => s = r.from + 1) BY <1>0, <2>4, <3>1
    <3>3. s \in P \/ (s # r.from + 1 /\ \A t \in P : t < s) BY <1>0, <2>4, <2>5, <3>1, <3>2, PageIs DEF P
    <3> QED BY <2>2, <2>3, <3>2, <3>3 DEF Brings
  <2>6. \A p \in N : /\ p.event = r.event /\ p.item = r.item
                     /\ r.event.rev = 1 /\ r.event.seq \notin deleted => Brings(p)
    BY <2>2, <2>5
  <2> HIDE DEF N
  <2> QED BY <2>1, <2>6, RepairGoesOn
<1>10. ASSUME NEW r \in repairs, Sync!PageLands(r) PROVE AllBrought'
  <2> DEFINE last == Sync!Max(DOMAIN r.got)
             s == r.event.seq
  <2>1. r.phase = "pageBack" /\ UNCHANGED <<rev, deleted, hints, skipped>> BY <1>10 DEF Sync!PageLands
  <2>2. CASE r.item = NoCache \/ (~r.once /\ r.got = <<>>)
    <3>1. Sync!Finish(r) /\ Sync!Invalidate /\ UNCHANGED cache BY <1>10, <2>2 DEF Sync!PageLands
    <3>2. list'.phase # "idle" BY <3>1, ReloadsAny
    <3> QED BY <1>b, <2>1, <3>1, <3>2
  <2>3. CASE r.item # NoCache /\ ~(~r.once /\ r.got = <<>>)
    <3>1. /\ cache' = Sync!Merged(cache, r.got, r.head) /\ UNCHANGED list
          /\ IF ~r.once /\ last < r.event.head /\ last < r.head THEN Sync!PageFrom(r, last, FALSE) ELSE Sync!Finish(r)
      BY <1>10, <2>3 DEF Sync!PageLands
    <3>2. PastOf(r.got, rev) /\ r.head \in 0 .. HeadOf(rev) /\ cache # NoCache
      BY <1>0, <2>3 DEF Pasts, RepairOf, AllBrought, Loaded
    <3>3. cache' # NoCache /\ DOMAIN cache'.msgs = DOMAIN r.got \union DOMAIN cache.msgs
      BY <1>0, <3>1, <3>2, MergedHolds
    <3>4. DOMAIN r.got \subseteq 0 .. HeadOf(rev) BY <1>0, <3>2 DEF PastOf
    <3>5. r.event.rev = 1 => r.event.head = s BY DEF AllBrought, Hinted
    <3>6. ASSUME r.event.rev = 1, s \notin deleted, s \notin DOMAIN r.got, DOMAIN r.got # {}
          PROVE  ~r.once /\ last < r.event.head /\ last < r.head /\ last \in Nat
      <4>1. ~r.once /\ s <= r.head /\ \A t \in DOMAIN r.got : t < s
        BY <2>1, <3>6 DEF AllBrought, Hinted, Brings
      <4>2. last \in DOMAIN r.got BY <1>0, <3>4, <3>6, MaxIs
      <4>3. last \in Nat
        <5>1. \A x \in 0 .. HeadOf(rev) : x \in Nat OBVIOUS
        <5> QED BY Zenon, <3>4, <4>2, <5>1
      <4>4. s \in Nat /\ r.head \in Nat BY <1>0, <3>2 DEF Pasts, RepairOf, EventOf
      <4> HIDE DEF last
      <4> QED BY <3>5, <3>6, <4>1, <4>2, <4>3, <4>4
    <3>7. ASSUME r.event.rev = 1, s \notin deleted PROVE s \in DOMAIN r.got \/ DOMAIN r.got # {}
      <4>1. /\ r.once => s \in DOMAIN r.got
            /\ r.got = [x \in DOMAIN r.got |-> r.got[x]]
        BY <2>1, <3>7 DEF AllBrought, Hinted, Brings
      <4>2. CASE ~r.once
        <5>1. r.got # <<>> BY <2>3, <4>2
        <5>2. DOMAIN r.got = {} => r.got = <<>> BY <4>1
        <5> QED BY <5>1, <5>2
      <4> QED BY <4>1, <4>2
    <3>8. CASE ~r.once /\ last < r.event.head /\ last < r.head
      <4>1. ASSUME r.event.rev = 1, s \notin deleted PROVE last \in Nat /\ last < s
        <5>1. CASE s \in DOMAIN r.got
          <6>1. s <= last BY <1>0, <3>4, <5>1, MaxIs
          <6>2. last \in DOMAIN r.got BY <1>0, <3>4, <5>1, MaxIs
          <6>3. \A x \in 0 .. HeadOf(rev) : x \in Int OBVIOUS
          <6>4. last \in Int /\ s \in Int BY Zenon, <3>4, <5>1, <6>2, <6>3
          <6> HIDE DEF last
          <6> QED BY <3>5, <3>8, <4>1, <6>1, <6>4
        <5>2. CASE s \notin DOMAIN r.got BY <3>5, <3>6, <3>7, <4>1, <5>2
        <5> QED BY <5>1, <5>2
      <4>2. PICK once : once = FALSE /\ Sync!PageFrom(r, last, once) BY <3>1, <3>8
      <4> HIDE DEF last
      <4> QED BY <1>0, <2>1, <3>1, <3>3, <4>1, <4>2, PageGoesOn
    <3>9. CASE ~(~r.once /\ last < r.event.head /\ last < r.head)
      <4>1. Sync!Finish(r) BY <3>1, <3>9
      <4>2. r.event.rev = 1 /\ s \notin deleted => Has(cache', s)
        <5>1. r.event.rev = 1 /\ s \notin deleted => s \in DOMAIN r.got BY <3>6, <3>7, <3>9
        <5> QED BY <3>3, <5>1 DEF Has
      <4> QED BY <1>b, <2>1, <3>1, <3>3, <4>1, <4>2
    <3> QED BY <3>8, <3>9
  <2> QED BY <2>2, <2>3
<1>11. ASSUME NEW r \in repairs, Sync!PageFails(r) PROVE AllBrought'
  <2>1. /\ Sync!Finish(r) /\ UNCHANGED <<rev, deleted, hints, cache, list>>
        /\ skipped' = IF r.event.rev = 1 THEN skipped \union {r.event.seq} ELSE skipped
    BY <1>11 DEF Sync!PageFails, Sync!IsAppend
  <2> QED BY <1>b, <2>1
<1>12. CASE Sync!ListServed
  <2>1. list'.phase = "served" /\ list'.data = Sync!Snapshot /\ UNCHANGED <<rev, deleted, hints, cache, repairs, skipped>>
    BY <1>12 DEF Sync!ListServed
  <2>2. Loaded' BY <1>0, <2>1, SnapshotIs DEF AllBrought, Loaded
  <2>3. Hinted'
    <3>1. \A p : Brings(p)' <=> Brings(p) BY DEF Brings
    <3> QED BY <2>1, <3>1 DEF AllBrought, Hinted
  <2>4. \A s \in DOMAIN rev' \ deleted' : Coming(s)' BY <2>1 DEF Coming
  <2> QED BY <2>2, <2>3, <2>4 DEF AllBrought
\* What an older answer leaves out is under repair, or the history has it.
<1>13. CASE Sync!ListLands
  <2>1. /\ list.phase = "served" /\ cache' = list.data /\ list'.phase = "idle"
        /\ UNCHANGED <<rev, deleted, hints, repairs>>
        /\ skipped' = {s \in DOMAIN rev \ DOMAIN list.data.msgs : s \in skipped \/ ~Sync!UnderRepair(s)}
    BY <1>13 DEF Sync!ListLands, Sync!Idle
  <2>2. cache' # NoCache BY <2>1 DEF AllBrought, Loaded
  <2>3. Loaded' BY <2>1, <2>2 DEF Loaded
  <2>4. Hinted'
    <3>1. \A p : Brings(p)' <=> Brings(p) BY DEF Brings
    <3> QED BY <2>1, <3>1 DEF AllBrought, Hinted
  <2>5. ASSUME NEW s \in DOMAIN rev \ deleted PROVE Coming(s)'
    <3>1. CASE s \in DOMAIN list.data.msgs BY <2>1, <2>2, <3>1 DEF Coming, Has
    <3>2. CASE s \notin DOMAIN list.data.msgs /\ ~Sync!UnderRepair(s) BY <2>1, <3>2 DEF Coming
    <3>3. CASE Sync!UnderRepair(s)
      <4>1. \/ \E e \in hints : e.rev = 1 /\ e.seq = s
            \/ \E r \in repairs : r.event.rev = 1 /\ r.event.seq = s /\ ~Has(r.item, s)
        BY <3>3 DEF Sync!UnderRepair, Sync!IsAppend, Has
      <4> QED BY <2>1, <4>1 DEF Coming, Has
    <3> QED BY <3>1, <3>2, <3>3
  <2> QED BY <2>1, <2>3, <2>4, <2>5 DEF AllBrought
<1>14. CASE Sync!Poll
  <2>1. Sync!Invalidate /\ UNCHANGED <<rev, deleted, hints, cache, repairs, skipped>>
    BY <1>14 DEF Sync!Poll, Sync!Invalidate
  <2> QED BY <2>1, NothingMoves
<1>15. CASE Sync!Touch \/ Sync!RecoverWithGap
  <2>1. Sync!Invalidate /\ hints' \subseteq hints /\ UNCHANGED <<rev, deleted, cache, repairs, skipped>>
    BY <1>15 DEF Sync!Touch, Sync!RecoverWithGap
  <2>2. list'.phase # "idle" BY <2>1, ReloadsAny
  <2> QED BY <2>1, <2>2, NothingMoves
<1>16. CASE Sync!Drop \/ Sync!Recover \/ UNCHANGED Sync!vars
  <2>1. UNCHANGED <<rev, deleted, hints, cache, repairs, list, skipped>>
    BY <1>16 DEF Sync!Drop, Sync!Recover, Sync!vars
  <2> QED BY <2>1, NothingMoves
<1> QED
  BY <1>1, <1>2, <1>3, <1>4, <1>5, <1>6, <1>7, <1>8, <1>9, <1>10, <1>11, <1>12, <1>13, <1>14, <1>15, <1>16
  DEF Sync!Next, Sync!RepairStep

\* When all is quiet every message is rendered, in any order of hints, repairs,
\* refetches, failures, lost connections, gaps and deletions, before the list is
\* loaded and after - but for those an older answer of the list left out after
\* their repair, and those whose repair failed on a page.
THEOREM NothingElseIsLost == ClientsSpec => []NoOtherMessageLost
<1>1. Sync!Init => AllBrought BY AllBroughtInit
<1>2. SyncInv /\ AllBrought /\ [Sync!Next]_(Sync!vars) => AllBrought' BY AllBroughtNext, SyncConstants
<1>3. AllBrought => NoOtherMessageLost
  <2> SUFFICES ASSUME AllBrought, hints = {}, repairs = {}, list.phase = "idle",
                      NEW s \in DOMAIN rev, s \notin deleted, s \notin skipped
               PROVE  cache # NoCache /\ s \in DOMAIN cache.msgs
    BY DEF NoOtherMessageLost, Sync!NoOtherMessageLost, Sync!Settled, Sync!Rendered
  <2> QED BY DEF AllBrought, Coming, Has
<1> QED BY <1>1, <1>2, <1>3, ClientsSync, SyncInvariant, PTL DEF Sync!Spec

-----------------------------------------------------------------------------
(* The agent's outbox: its queues.                                         *)

States == [q : Seq(Reports), gaps : SUBSET Reports]

\* p holds events of q, in the order of q.
Within(p, q) ==
  /\ \A i \in DOMAIN p : \E k \in DOMAIN q : p[i] = q[k]
  /\ \A i, j \in DOMAIN p : i < j => \E k, l \in DOMAIN q : k < l /\ p[i] = q[k] /\ p[j] = q[l]

LEMMA SameCardinality == \A S : Agent!Cardinality(S) = Cardinality(S)
  BY Zenon DEF Agent!Cardinality, Cardinality, Agent!IsFiniteSet, IsFiniteSet

\* The place of a position among others grows with it, and there is one of each.
LEMMA Places ==
  ASSUME NEW n \in Nat, NEW S, S \subseteq 1 .. n
  PROVE  /\ Cardinality(S) \in 0 .. n
         /\ \A i, j \in S : i < j => Cardinality({x \in S : x <= i}) < Cardinality({x \in S : x <= j})
         /\ \A k \in 1 .. Cardinality(S) : \E i \in S : Cardinality({x \in S : x <= i}) = k
<1> DEFINE Upto(i) == {x \in S : x <= i}
           f == [i \in S |-> Cardinality(Upto(i))]
           m == Cardinality(S)
<1>1. IsFiniteSet(1 .. n) /\ Cardinality(1 .. n) = n BY FS_Interval
<1>2. IsFiniteSet(S) /\ m \in Nat /\ m <= n BY <1>1, FS_Subset, FS_CardinalityType
<1>3. \A i \in S : /\ IsFiniteSet(Upto(i)) /\ Cardinality(Upto(i)) \in Nat
                   /\ Cardinality(Upto(i)) <= m /\ Cardinality(Upto(i)) # 0
  <2> TAKE i \in S
  <2>1. Upto(i) \subseteq S /\ i \in Upto(i) OBVIOUS
  <2> HIDE DEF Upto
  <2>2. IsFiniteSet(Upto(i)) /\ Cardinality(Upto(i)) <= m BY <1>2, <2>1, FS_Subset
  <2>3. Cardinality(Upto(i)) \in Nat BY <2>2, FS_CardinalityType
  <2>4. Cardinality(Upto(i)) # 0 BY <2>1, <2>2, FS_EmptySet
  <2> QED BY <2>2, <2>3, <2>4
<1>4. ASSUME NEW i \in S, NEW j \in S, i < j PROVE Cardinality(Upto(i)) < Cardinality(Upto(j))
  <2>0. i \in Int /\ j \in Int /\ \A x \in S : x \in Int OBVIOUS
  <2>a. i < j BY <1>4
  <2>b. \A x \in Upto(i) : x \in S /\ x <= j BY <2>0, <2>a
  <2>c. j \in S /\ j <= j /\ ~(j <= i) BY <2>0, <2>a
  <2>1. Upto(i) \union {j} \subseteq Upto(j) /\ j \notin Upto(i) BY <2>b, <2>c
  <2>2. IsFiniteSet(Upto(i)) /\ IsFiniteSet(Upto(j)) /\ Cardinality(Upto(i)) \in Nat /\ Cardinality(Upto(j)) \in Nat
    BY <1>3
  <2> HIDE DEF Upto
  <2>3. Cardinality(Upto(i) \union {j}) = Cardinality(Upto(i)) + 1 BY <2>1, <2>2, FS_AddElement
  <2>4. Cardinality(Upto(i) \union {j}) <= Cardinality(Upto(j)) BY <2>1, <2>2, FS_Subset
  <2> QED BY <2>2, <2>3, <2>4
<1>5. f \in [S -> 1 .. m] BY <1>2, <1>3
<1>6. \A i, j \in S : f[i] = f[j] => i = j
  <2> SUFFICES ASSUME NEW i \in S, NEW j \in S, i # j PROVE f[i] # f[j] OBVIOUS
  <2>1. i \in Int /\ j \in Int OBVIOUS
  <2>2. i < j \/ j < i BY <2>1
  <2>3. Cardinality(Upto(i)) \in Nat /\ Cardinality(Upto(j)) \in Nat BY <1>3
  <2> HIDE DEF Upto
  <2>4. Cardinality(Upto(i)) # Cardinality(Upto(j)) BY <1>4, <2>2, <2>3
  <2> QED BY <2>4
<1>7. IsFiniteSet(1 .. m) /\ Cardinality(1 .. m) = m BY <1>2, FS_Interval
<1> HIDE DEF f, m
<1>8. f \in Injection(S, 1 .. m) BY <1>5, <1>6 DEF Injection, IsInjective
<1>9. f \in Surjection(S, 1 .. m) BY <1>7, <1>8, FS_Injection DEF m
<1>10. \A k \in 1 .. m : \E i \in S : f[i] = k BY <1>9 DEF Surjection
<1>11. \A i \in S : f[i] = Cardinality(Upto(i)) BY DEF f
<1> QED BY <1>2, <1>4, <1>10, <1>11 DEF m

LEMMA KeptIs ==
  ASSUME NEW q \in Seq(Reports)
  PROVE  /\ Agent!Kept(q) \in Seq(Reports) /\ Len(Agent!Kept(q)) <= Len(q)
         /\ Within(Agent!Kept(q), q)
         /\ \A i \in DOMAIN q : q[i] \in old \/ \E k \in DOMAIN Agent!Kept(q) : Agent!Kept(q)[k] = q[i]
         /\ \A k \in DOMAIN Agent!Kept(q) : Agent!Kept(q)[k] \notin old
<1> DEFINE left == {i \in DOMAIN q : q[i] \notin old}
           m == Cardinality(left)
           Place(i) == Cardinality({j \in left : j <= i})
           Nth(k) == CHOOSE i \in left : Place(i) = k
           p == [k \in 1 .. m |-> q[Nth(k)]]
<1>1. DOMAIN q = 1 .. Len(q) /\ Len(q) \in Nat /\ \A i \in DOMAIN q : q[i] \in Reports OBVIOUS
<1>2. left \subseteq 1 .. Len(q) BY <1>1
<1>3. Agent!Kept(q) = p
  BY Zenon DEF Agent!Kept, Agent!Cardinality, Cardinality, Agent!IsFiniteSet, IsFiniteSet
<1>a. \A i \in left : i \in Int BY <1>2
<1>4. \A i \in left : i \in DOMAIN q /\ q[i] \notin old OBVIOUS
<1>5. \A i \in DOMAIN q : q[i] \in old \/ i \in left OBVIOUS
<1> HIDE DEF left
<1>6. m \in 0 .. Len(q) /\ \A i, j \in left : i < j => Place(i) < Place(j) BY <1>1, <1>2, Places
<1>7. \A k \in 1 .. m : \E i \in left : Place(i) = k BY <1>1, <1>2, Places
<1> HIDE DEF Place, m
<1>8. \A k \in 1 .. m : Nth(k) \in left /\ Place(Nth(k)) = k BY <1>7
<1> HIDE DEF Nth
<1>9. p \in Seq(Reports) /\ Len(p) = m /\ DOMAIN p = 1 .. m BY <1>1, <1>4, <1>6, <1>8
<1>10. \A k \in 1 .. m : p[k] = q[Nth(k)] OBVIOUS
<1> HIDE DEF p
<1>11. \A k, l \in 1 .. m : k < l => Nth(k) < Nth(l)
  <2> SUFFICES ASSUME NEW k \in 1 .. m, NEW l \in 1 .. m, k < l, ~(Nth(k) < Nth(l)) PROVE FALSE
    OBVIOUS
  <2>1. /\ Nth(k) \in left /\ Nth(l) \in left /\ Place(Nth(k)) = k /\ Place(Nth(l)) = l
        /\ Nth(k) \in Int /\ Nth(l) \in Int
    BY <1>a, <1>8
  <2>2. Nth(k) = Nth(l) \/ Nth(l) < Nth(k) BY <2>1
  <2>3. k \in Int /\ l \in Int OBVIOUS
  <2> QED BY <1>6, <2>1, <2>2, <2>3
<1>12. Within(p, q)
  <2>1. \A i \in DOMAIN p : Nth(i) \in DOMAIN q /\ p[i] = q[Nth(i)] BY <1>4, <1>8, <1>9, <1>10
  <2>2. \A i, j \in DOMAIN p : i < j => Nth(i) < Nth(j) BY <1>9, <1>11
  <2> QED BY <2>1, <2>2 DEF Within
<1>13. \A i \in left : Place(i) \in 1 .. m /\ Nth(Place(i)) = i
  <2> TAKE i \in left
  <2>1. Place(i) \in 1 .. m
    <3>1. IsFiniteSet(1 .. Len(q)) BY <1>1, FS_Interval
    <3>2. IsFiniteSet(left) BY <1>2, <3>1, FS_Subset
    <3>3. i \in {j \in left : j <= i} /\ {j \in left : j <= i} \subseteq left BY <1>2
    <3>4. IsFiniteSet({j \in left : j <= i}) /\ Cardinality({j \in left : j <= i}) <= Cardinality(left)
      BY <3>2, <3>3, FS_Subset
    <3>5. Cardinality({j \in left : j <= i}) \in Nat /\ Cardinality({j \in left : j <= i}) # 0
      BY <3>3, <3>4, FS_CardinalityType, FS_EmptySet
    <3> QED BY <1>6, <3>4, <3>5 DEF Place, m
  <2>2. Nth(Place(i)) \in left /\ Place(Nth(Place(i))) = Place(i) BY <1>8, <2>1
  <2>3. i \in Int /\ Nth(Place(i)) \in Int BY <1>a, <2>2
  <2>4. i < Nth(Place(i)) \/ Nth(Place(i)) < i \/ i = Nth(Place(i)) BY <2>3
  <2>5. Place(i) \in Int BY <2>1
  <2> QED BY <1>6, <2>1, <2>2, <2>4, <2>5
<1>14. \A i \in left : \E k \in DOMAIN p : p[k] = q[i] BY <1>9, <1>10, <1>13
<1>15. \A k \in DOMAIN p : p[k] \notin old BY <1>4, <1>8, <1>9, <1>10
<1>16. Len(p) <= Len(q) BY <1>1, <1>6, <1>9
<1> QED BY <1>3, <1>5, <1>9, <1>12, <1>14, <1>15, <1>16

\* What a saved state holds of the checkpoints answered "queued" (w) beside those
\* the server has accepted (a): all others, in the order they were queued.
Precedes(d, e, w) == \E i, j \in DOMAIN w : i < j /\ w[i] = d /\ w[j] = e
Stored(s, w, a) ==
  /\ Agent!ToSet(w) \subseteq Agent!Events(s) \union a \union s.gaps
  /\ Agent!Events(s) \subseteq Agent!ToSet(w)
  /\ \A i, j \in DOMAIN s.q : i < j => ~Precedes(s.q[j], s.q[i], w)

\* The same of a state that is about to be saved with c as its newest.
Storing(s, c, w, a) ==
  /\ Agent!ToSet(w) \union {c} \subseteq Agent!Events(s) \union a \union s.gaps
  /\ Agent!Events(s) \subseteq Agent!ToSet(w) \union {c}
  /\ \A i, j \in DOMAIN s.q : i < j => ~Precedes(s.q[j], s.q[i], w) /\ s.q[i] # c

LEMMA ToSetIs == \A q : Agent!ToSet(q) = {q[i] : i \in DOMAIN q}
  BY DEF Agent!ToSet

LEMMA PrunedIs ==
  ASSUME NEW s \in States
  PROVE  /\ Agent!Pruned(s) \in States /\ Len(Agent!Pruned(s).q) <= Len(s.q)
         /\ Within(Agent!Pruned(s).q, s.q)
         /\ Agent!Events(Agent!Pruned(s)) \subseteq Agent!Events(s)
         /\ Agent!Events(s) \union s.gaps \subseteq Agent!Events(Agent!Pruned(s)) \union Agent!Pruned(s).gaps
<1> DEFINE k == Agent!Kept(s.q)
           p == Agent!Pruned(s)
<1>1. s.q \in Seq(Reports) /\ s.gaps \in SUBSET Reports /\ Agent!Events(s) = {s.q[i] : i \in DOMAIN s.q}
  BY ToSetIs DEF States, Agent!Events
<1>2. /\ k \in Seq(Reports) /\ Len(k) <= Len(s.q) /\ Within(k, s.q)
      /\ \A i \in DOMAIN s.q : s.q[i] \in old \/ \E j \in DOMAIN k : k[j] = s.q[i]
  BY <1>1, KeptIs
<1>3. p.q = k /\ p.gaps = s.gaps \union (Agent!Events(s) \cap old) /\ p = [q |-> p.q, gaps |-> p.gaps]
  BY DEF Agent!Pruned
<1>4. Agent!Events(p) = {k[i] : i \in DOMAIN k} BY <1>3, ToSetIs DEF Agent!Events
<1> HIDE DEF k, p
<1>5. \A i \in DOMAIN s.q : s.q[i] \in Reports BY <1>1
<1>6. p.gaps \in SUBSET Reports BY <1>1, <1>3, <1>5
<1>7. p \in States BY <1>2, <1>3, <1>6 DEF States
<1>8. Agent!Events(p) \subseteq Agent!Events(s) BY <1>1, <1>2, <1>4 DEF Within
<1>9. Agent!Events(s) \union s.gaps \subseteq Agent!Events(p) \union p.gaps BY <1>1, <1>2, <1>3, <1>4
<1> QED BY <1>2, <1>3, <1>7, <1>8, <1>9 DEF p

LEMMA ShiftedIs ==
  ASSUME NEW s \in States
  PROVE  /\ Agent!Shifted(s) \in States /\ Len(Agent!Shifted(s).q) <= Len(s.q)
         /\ Within(Agent!Shifted(s).q, s.q) /\ Agent!Shifted(s).gaps = s.gaps
         /\ Agent!Events(Agent!Shifted(s)) \subseteq Agent!Events(s)
         /\ s.q # <<>> => Agent!Events(s) \subseteq Agent!Events(Agent!Shifted(s)) \union {Head(s.q)}
<1> DEFINE p == Agent!Shifted(s)
<1>1. s.q \in Seq(Reports) /\ s.gaps \in SUBSET Reports BY DEF States
<1>2. CASE s.q = <<>>
  <2>1. p = s BY <1>2 DEF Agent!Shifted
  <2>2. Within(s.q, s.q) BY DEF Within
  <2> HIDE DEF p
  <2>3. Len(s.q) \in Nat BY <1>1
  <2> QED BY <1>2, <2>1, <2>2, <2>3 DEF p
<1>3. CASE s.q # <<>>
  <2> DEFINE t == Tail(s.q)
  <2>1. /\ t \in Seq(Reports) /\ Len(t) = Len(s.q) - 1 /\ Len(s.q) \in Nat /\ Len(s.q) >= 1
        /\ DOMAIN s.q = 1 .. Len(s.q) /\ DOMAIN t = 1 .. Len(s.q) - 1
        /\ \A i \in DOMAIN t : t[i] = s.q[i + 1]
        /\ Head(s.q) = s.q[1]
    BY <1>1, <1>3
  <2>2. p = [s EXCEPT !.q = t] BY <1>3 DEF Agent!Shifted
  <2> HIDE DEF t
  <2>3. p \in States /\ p.q = t /\ p.gaps = s.gaps BY <1>1, <2>1, <2>2 DEF States
  <2> HIDE DEF p
  <2>4. \A i \in DOMAIN t : i + 1 \in DOMAIN s.q /\ t[i] = s.q[i + 1] BY <2>1
  <2>5. \A i \in DOMAIN s.q : i = 1 \/ \E j \in DOMAIN t : t[j] = s.q[i]
    <3> SUFFICES ASSUME NEW i \in DOMAIN s.q, i # 1 PROVE \E j \in DOMAIN t : t[j] = s.q[i] OBVIOUS
    <3>1. i - 1 \in DOMAIN t /\ (i - 1) + 1 = i BY <2>1
    <3> QED BY <2>4, <3>1
  <2>6. Within(t, s.q)
    <3>1. \A i, j \in DOMAIN t : i < j => i + 1 < j + 1 BY <2>1
    <3> QED BY <2>4, <3>1 DEF Within
  <2>7. Agent!Events(s) = {s.q[i] : i \in DOMAIN s.q} /\ Agent!Events(p) = {t[i] : i \in DOMAIN t}
    BY <2>3, ToSetIs DEF Agent!Events
  <2>8. Agent!Events(p) \subseteq Agent!Events(s) BY <2>4, <2>7
  <2>9. Agent!Events(s) \subseteq Agent!Events(p) \union {Head(s.q)} BY <2>1, <2>5, <2>7
  <2>10. Len(t) <= Len(s.q) BY <2>1
  <2> QED BY <2>3, <2>6, <2>8, <2>9, <2>10 DEF p
<1> QED BY <1>2, <1>3

LEMMA EnqueuedIs ==
  ASSUME NEW s \in States, NEW e \in Reports, Len(s.q) <= MaxEvents, Agent!AgentOutboxAssumption
  PROVE  /\ Agent!Enqueued(s, e) \in States /\ Len(Agent!Enqueued(s, e).q) <= MaxEvents
         /\ Within(Agent!Enqueued(s, e).q, Append(Agent!Pruned(s).q, e))
         /\ Agent!Events(Agent!Enqueued(s, e)) \subseteq Agent!Events(s) \union {e}
         /\ Agent!Events(s) \union s.gaps \union {e}
              \subseteq Agent!Events(Agent!Enqueued(s, e)) \union Agent!Enqueued(s, e).gaps
<1> DEFINE p == Agent!Pruned(s)
           q == Append(p.q, e)
           n == Agent!Enqueued(s, e)
           m == [p EXCEPT !.q = q]
<1>0. MaxEvents \in Nat \ {0} BY DEF Agent!AgentOutboxAssumption
<1>1. /\ p \in States /\ Len(p.q) <= Len(s.q)
      /\ Agent!Events(p) \subseteq Agent!Events(s)
      /\ Agent!Events(s) \union s.gaps \subseteq Agent!Events(p) \union p.gaps
  BY PrunedIs
<1>2. n = IF Len(q) > MaxEvents THEN [q |-> Tail(q), gaps |-> p.gaps \union {Head(q)}] ELSE m
  BY DEF Agent!Enqueued
<1>a. s.q \in Seq(Reports) /\ Len(s.q) \in Nat BY DEF States
<1> HIDE DEF p, n
<1>3. /\ p.q \in Seq(Reports) /\ p.gaps \in SUBSET Reports /\ Agent!Events(p) = {p.q[i] : i \in DOMAIN p.q}
  BY <1>1, ToSetIs DEF States, Agent!Events
<1>4. /\ q \in Seq(Reports) /\ Len(q) = Len(p.q) + 1 /\ Len(p.q) \in Nat /\ Len(q) >= 1 /\ q # <<>>
      /\ DOMAIN q = 1 .. Len(q) /\ DOMAIN p.q = 1 .. Len(p.q)
      /\ \A i \in DOMAIN p.q : q[i] = p.q[i]
      /\ q[Len(q)] = e
  BY <1>3
<1>5. m \in States /\ m.q = q /\ m.gaps = p.gaps BY <1>1, <1>4 DEF States
<1> HIDE DEF q, m
<1>6. Agent!ToSet(q) = Agent!Events(p) \union {e}
  <2>1. \A i \in DOMAIN q : i = Len(q) \/ i \in DOMAIN p.q BY <1>4
  <2>2. \A i \in DOMAIN p.q : i \in DOMAIN q BY <1>4
  <2>3. Len(q) \in DOMAIN q BY <1>4
  <2> QED BY <1>3, <1>4, <2>1, <2>2, <2>3, ToSetIs
<1>7. CASE Len(q) > MaxEvents
  <2>0. n = [q |-> Tail(q), gaps |-> p.gaps \union {Head(q)}] BY <1>2, <1>7
  <2> DEFINE t == Tail(q)
  <2>1. /\ t \in Seq(Reports) /\ Len(t) = Len(q) - 1
        /\ DOMAIN t = 1 .. Len(q) - 1
        /\ \A i \in DOMAIN t : t[i] = q[i + 1]
        /\ Head(q) = q[1] /\ q[1] \in Reports
    BY <1>4
  <2>2. n.q = t /\ n.gaps = p.gaps \union {Head(q)} BY <2>0
  <2>3. n \in States BY <1>3, <2>0, <2>1 DEF States
  <2> HIDE DEF t
  <2>4. \A i \in DOMAIN t : i + 1 \in DOMAIN q /\ t[i] = q[i + 1] BY <1>4, <2>1
  <2>5. \A i \in DOMAIN q : i = 1 \/ \E j \in DOMAIN t : t[j] = q[i]
    <3> SUFFICES ASSUME NEW i \in DOMAIN q, i # 1 PROVE \E j \in DOMAIN t : t[j] = q[i] OBVIOUS
    <3>1. i - 1 \in DOMAIN t /\ (i - 1) + 1 = i BY <1>4, <2>1
    <3> QED BY <2>4, <3>1
  <2>6. Within(t, q)
    <3>1. \A i, j \in DOMAIN t : i < j => i + 1 < j + 1 BY <2>1
    <3> QED BY <2>4, <3>1 DEF Within
  <2>7. Agent!Events(n) = {t[i] : i \in DOMAIN t} /\ Agent!ToSet(q) = {q[i] : i \in DOMAIN q}
    BY <2>2, ToSetIs DEF Agent!Events
  <2>8. Agent!Events(n) \subseteq Agent!ToSet(q) /\ Agent!ToSet(q) \subseteq Agent!Events(n) \union {Head(q)}
    BY <2>1, <2>4, <2>5, <2>7
  <2>9. Len(t) <= MaxEvents BY <1>0, <1>1, <1>4, <1>a, <2>1
  <2> QED BY <1>1, <1>6, <2>2, <2>3, <2>6, <2>8, <2>9 DEF p, q, n
<1>8. CASE ~(Len(q) > MaxEvents)
  <2>1. n = m BY <1>2, <1>8
  <2>2. Agent!Events(n) = Agent!ToSet(q) BY <1>5, <2>1 DEF Agent!Events
  <2>3. Within(q, q) BY DEF Within
  <2>4. Len(q) <= MaxEvents BY <1>0, <1>4, <1>8
  <2>5. /\ n \in States /\ n.q = q /\ n.gaps = p.gaps BY <1>5, <2>1
  <2> QED BY <1>1, <1>6, <2>2, <2>3, <2>4, <2>5 DEF p, q, n
<1> QED BY <1>7, <1>8

LEMMA StoredStays ==
  ASSUME NEW s, NEW t, NEW w, NEW a, NEW b, Stored(s, w, a), Within(t.q, s.q),
         Agent!Events(t) \subseteq Agent!Events(s),
         Agent!Events(s) \union s.gaps \subseteq Agent!Events(t) \union t.gaps \union b,
         a \subseteq b
  PROVE  Stored(t, w, b)
<1>1. /\ Agent!ToSet(w) \subseteq Agent!Events(t) \union b \union t.gaps
      /\ Agent!Events(t) \subseteq Agent!ToSet(w)
  BY DEF Stored
<1>2. ASSUME NEW i \in DOMAIN t.q, NEW j \in DOMAIN t.q, i < j PROVE ~Precedes(t.q[j], t.q[i], w)
  <2>1. PICK k \in DOMAIN s.q, l \in DOMAIN s.q : k < l /\ t.q[i] = s.q[k] /\ t.q[j] = s.q[l]
    BY <1>2 DEF Within
  <2>2. ~Precedes(s.q[l], s.q[k], w) BY <2>1 DEF Stored
  <2> QED BY <2>1, <2>2
<1> QED BY <1>1, <1>2 DEF Stored

LEMMA EnqueuedIsStoring ==
  ASSUME NEW s \in States, NEW c \in Reports, Len(s.q) <= MaxEvents, Agent!AgentOutboxAssumption,
         NEW w, NEW a, Stored(s, w, a), c \notin Agent!ToSet(w)
  PROVE  Storing(Agent!Enqueued(s, c), c, w, a)
<1> DEFINE p == Agent!Pruned(s)
           q == Append(p.q, c)
           n == Agent!Enqueued(s, c)
<1>1. /\ Within(n.q, q) /\ Agent!Events(n) \subseteq Agent!Events(s) \union {c}
      /\ Agent!Events(s) \union s.gaps \union {c} \subseteq Agent!Events(n) \union n.gaps
  BY EnqueuedIs
<1>2. p \in States /\ Within(p.q, s.q) /\ Agent!Events(p) \subseteq Agent!Events(s) BY PrunedIs
<1> HIDE DEF p, n
<1>3. p.q \in Seq(Reports) /\ Agent!Events(p) = {p.q[i] : i \in DOMAIN p.q}
  BY <1>2, ToSetIs DEF States, Agent!Events
<1>4. /\ DOMAIN q = 1 .. Len(p.q) + 1 /\ DOMAIN p.q = 1 .. Len(p.q) /\ Len(p.q) \in Nat
      /\ \A k \in DOMAIN p.q : q[k] = p.q[k]
      /\ q[Len(p.q) + 1] = c
  BY <1>3
<1> HIDE DEF q
<1>5. /\ Agent!ToSet(w) \union {c} \subseteq Agent!Events(n) \union a \union n.gaps
      /\ Agent!Events(n) \subseteq Agent!ToSet(w) \union {c}
  BY <1>1 DEF Stored
<1>6. ASSUME NEW k \in DOMAIN q, NEW l \in DOMAIN q, k < l PROVE q[k] # c /\ ~Precedes(q[l], q[k], w)
  <2>1. k \in DOMAIN p.q /\ q[k] = p.q[k] BY <1>4, <1>6
  <2>2. q[k] # c BY <1>2, <1>3, <2>1 DEF Stored
  <2>3. CASE l \in DOMAIN p.q
    <3>1. PICK x \in DOMAIN s.q, y \in DOMAIN s.q : x < y /\ p.q[k] = s.q[x] /\ p.q[l] = s.q[y]
      BY <1>2, <1>6, <2>1, <2>3 DEF Within
    <3>2. q[k] = s.q[x] /\ q[l] = s.q[y] BY <1>4, <2>1, <2>3, <3>1
    <3> QED BY <2>2, <3>1, <3>2 DEF Stored
  <2>4. CASE l \notin DOMAIN p.q
    <3>1. q[l] = c BY <1>4, <2>4
    <3>2. ~Precedes(c, q[k], w) BY ToSetIs DEF Precedes
    <3> QED BY <2>2, <3>1, <3>2
  <2> QED BY <2>3, <2>4
<1>7. ASSUME NEW i \in DOMAIN n.q, NEW j \in DOMAIN n.q, i < j PROVE n.q[i] # c /\ ~Precedes(n.q[j], n.q[i], w)
  <2>1. PICK k \in DOMAIN q, l \in DOMAIN q : k < l /\ n.q[i] = q[k] /\ n.q[j] = q[l]
    BY <1>1, <1>7 DEF Within
  <2> QED BY <1>6, <2>1
<1>8. Storing(n, c, w, a) BY <1>5, <1>7 DEF Storing
<1> QED BY <1>8 DEF n

LEMMA StoringIsStored ==
  ASSUME NEW s, NEW c \in Reports, NEW w \in Seq(Reports), NEW a, Storing(s, c, w, a)
  PROVE  Stored(s, Append(w, c), a) /\ Agent!ToSet(Append(w, c)) = Agent!ToSet(w) \union {c}
<1> DEFINE x == Append(w, c)
<1>1. /\ DOMAIN x = 1 .. Len(w) + 1 /\ DOMAIN w = 1 .. Len(w) /\ Len(w) \in Nat
      /\ \A k \in DOMAIN w : x[k] = w[k]
      /\ x[Len(w) + 1] = c
  OBVIOUS
<1> HIDE DEF x
<1>2. Agent!ToSet(x) = Agent!ToSet(w) \union {c}
  <2>1. \A k \in DOMAIN x : k = Len(w) + 1 \/ k \in DOMAIN w BY <1>1
  <2>2. Len(w) + 1 \in DOMAIN x /\ \A k \in DOMAIN w : k \in DOMAIN x BY <1>1
  <2> QED BY <1>1, <2>1, <2>2, ToSetIs
<1>3. ASSUME NEW i \in DOMAIN s.q, NEW j \in DOMAIN s.q, i < j PROVE ~Precedes(s.q[j], s.q[i], x)
  <2>1. ~Precedes(s.q[j], s.q[i], w) /\ s.q[i] # c BY <1>3 DEF Storing
  <2> SUFFICES ASSUME NEW k \in DOMAIN x, NEW l \in DOMAIN x, k < l, x[k] = s.q[j], x[l] = s.q[i] PROVE FALSE
    BY DEF Precedes
  <2>2. l # Len(w) + 1 BY <1>1, <2>1
  <2>3. k \in DOMAIN w /\ l \in DOMAIN w BY <1>1, <2>2
  <2> QED BY <1>1, <2>1, <2>3 DEF Precedes
<1>4. Stored(s, x, a) BY <1>2, <1>3 DEF Stored, Storing
<1> QED BY <1>2, <1>4 DEF x

-----------------------------------------------------------------------------
(* The agent's outbox: its types.                                          *)

Labels ==
  Agent!Saving \union Agent!Writing \union Agent!Over
    \union {"peek", "sending", "sent", "size", "own", "ownSent"}

AgentT ==
  /\ file \in States \union {Torn} /\ (file # Torn => Len(file.q) <= MaxEvents)
  /\ pc \in [Calls -> Labels] /\ cur \in [Calls -> Calls]
  /\ buffer \in [Calls -> States] /\ \A c \in Calls : Len(buffer[c].q) <= MaxEvents
  /\ accepted \subseteq Reports \ Rejected
  /\ queued \in Seq(Reports) /\ old \subseteq Agent!ToSet(queued)
  /\ \A c \in Calls : pc[c] \in {"sending", "sent"} => cur[c] \in Reports
  /\ \A c \in Calls : pc[c] \in {"own", "ownSent", "queueing", "queueWrite"} => c \in Reports

LEMMA GotoIs ==
  ASSUME AgentT, NEW c \in Calls, NEW label \in Labels, Agent!Goto(c, label)
  PROVE  /\ pc' \in [Calls -> Labels] /\ pc'[c] = label
         /\ \A d \in Calls : d # c => pc'[d] = pc[d]
  BY DEF AgentT, Agent!Goto

LEMMA ToSaveIs ==
  ASSUME AgentT, NEW c \in Calls, NEW label \in Labels, NEW s \in States, Len(s.q) <= MaxEvents,
         Agent!ToSave(c, label, s)
  PROVE  /\ pc' \in [Calls -> Labels] /\ pc'[c] = label
         /\ \A d \in Calls : d # c => pc'[d] = pc[d]
         /\ buffer' \in [Calls -> States] /\ buffer'[c] = s
         /\ \A d \in Calls : Len(buffer'[d].q) <= MaxEvents
<1>1. Agent!Goto(c, label) /\ buffer' = [buffer EXCEPT ![c] = s] BY DEF Agent!ToSave
<1>2. buffer' \in [Calls -> States] /\ buffer'[c] = s /\ \A d \in Calls : d # c => buffer'[d] = buffer[d]
  BY <1>1 DEF AgentT
<1>3. \A d \in Calls : Len(buffer'[d].q) <= MaxEvents BY <1>2 DEF AgentT
<1> QED BY <1>1, <1>2, <1>3, GotoIs

\* The head of a queue is a report.
LEMMA SendFirstIs ==
  ASSUME AgentT, NEW c \in Calls, NEW s \in States, Agent!SendFirst(c, s), Agent!AgentOutboxAssumption
  PROVE  /\ pc' \in [Calls -> Labels] /\ pc'[c] \in {"size", "sending"}
         /\ \A d \in Calls : d # c => pc'[d] = pc[d] /\ cur'[d] = cur[d]
         /\ cur' \in [Calls -> Calls]
         /\ pc'[c] = "sending" => s.q # <<>> /\ cur'[c] = Head(s.q) /\ cur'[c] \in Reports
<1>1. CASE s.q = <<>>
  <2>1. Agent!Goto(c, "size") /\ UNCHANGED cur BY <1>1 DEF Agent!SendFirst
  <2>2. "size" \in Labels BY DEF Labels
  <2> QED BY <2>1, <2>2, GotoIs DEF AgentT
<1>2. CASE s.q # <<>>
  <2>1. Agent!Goto(c, "sending") /\ cur' = [cur EXCEPT ![c] = Head(s.q)] BY <1>2 DEF Agent!SendFirst
  <2>2. "sending" \in Labels BY DEF Labels
  <2>3. Head(s.q) \in Reports /\ Head(s.q) \in Calls
    <3>1. s.q \in Seq(Reports) BY DEF States
    <3> QED BY <1>2, <3>1 DEF Agent!AgentOutboxAssumption
  <2>4. cur' \in [Calls -> Calls] /\ cur'[c] = Head(s.q) /\ \A d \in Calls : d # c => cur'[d] = cur[d]
    BY <2>1, <2>3 DEF AgentT
  <2> QED BY <1>2, <2>1, <2>2, <2>3, <2>4, GotoIs
<1> QED BY <1>1, <1>2

LEMMA AgentTInit == ASSUME Agent!Init, Agent!AgentOutboxAssumption PROVE AgentT
<1> DEFINE empty == [q |-> <<>>, gaps |-> {}]
<1>1. empty \in States /\ empty.q = <<>> /\ Len(<<>>) = 0 BY DEF States
<1>2. 0 <= MaxEvents BY DEF Agent!AgentOutboxAssumption
<1>3. file = empty /\ buffer = [c \in Calls |-> empty] /\ Agent!Empty = empty BY DEF Agent!Init, Agent!Empty
<1> HIDE DEF empty
<1>4. "idle" \in Labels BY DEF Labels, Agent!Over
<1>5. pc \in [Calls -> Labels] /\ \A c \in Calls : pc[c] = "idle" BY <1>4 DEF Agent!Init
<1>6. queued \in Seq(Reports) /\ old = {} /\ accepted = {} BY DEF Agent!Init
<1>7. cur \in [Calls -> Calls] BY DEF Agent!Init
<1> QED BY <1>1, <1>2, <1>3, <1>5, <1>6, <1>7 DEF AgentT

LEMMA AgentTNext ==
  ASSUME AgentT, [Agent!Next]_(Agent!vars), Agent!AgentOutboxAssumption
  PROVE  AgentT'
<1> USE DEF Agent!calls
<1>0. /\ Reports \subseteq Calls /\ Torn \notin States /\ MaxEvents \in Nat
  BY DEF Agent!AgentOutboxAssumption, States
<1>a. file # Torn => file \in States /\ Len(file.q) <= MaxEvents BY DEF AgentT
\* A call goes on, and what it goes on to do is done by those that may.
<1>b. ASSUME NEW c \in Calls, NEW label \in Labels, Agent!Goto(c, label),
             UNCHANGED <<file, cur, buffer, old, queued>>, accepted' \subseteq Reports \ Rejected,
             label = "sent" => pc[c] = "sending",
             label # "sending", label \in {"own", "ownSent", "queueing", "queueWrite"} => c \in Reports
      PROVE  AgentT'
  <2>1. pc' \in [Calls -> Labels] /\ pc'[c] = label /\ \A d \in Calls : d # c => pc'[d] = pc[d]
    BY <1>b, GotoIs
  <2>2. \A d \in Calls : pc'[d] \in {"sending", "sent"} => cur'[d] \in Reports BY <1>b, <2>1 DEF AgentT
  <2>3. \A d \in Calls : pc'[d] \in {"own", "ownSent", "queueing", "queueWrite"} => d \in Reports
    BY <1>b, <2>1 DEF AgentT
  <2> QED BY <1>b, <2>1, <2>2, <2>3 DEF AgentT
<1>1. ASSUME NEW c \in Calls, Agent!Begin(c) PROVE AgentT'
  <2>1. Agent!Goto(c, "peek") /\ UNCHANGED <<file, cur, buffer, accepted, old, queued>> BY <1>1 DEF Agent!Begin
  <2>2. "peek" \in Labels BY DEF Labels
  <2>3. accepted' \subseteq Reports \ Rejected BY <2>1 DEF AgentT
  <2> QED BY <1>b, <2>1, <2>2, <2>3
\* A call is about to save.
<1>c. ASSUME NEW c \in Calls, NEW label \in {"pruning", "shifting", "queueing"}, NEW s \in States,
             Len(s.q) <= MaxEvents, Agent!ToSave(c, label, s), UNCHANGED <<file, cur, accepted, old, queued>>,
             label = "queueing" => c \in Reports
      PROVE  AgentT'
  <2>0. label \in Labels BY DEF Labels, Agent!Saving
  <2>1. /\ pc' \in [Calls -> Labels] /\ pc'[c] = label /\ \A d \in Calls : d # c => pc'[d] = pc[d]
        /\ buffer' \in [Calls -> States] /\ \A d \in Calls : Len(buffer'[d].q) <= MaxEvents
    BY <1>c, <2>0, ToSaveIs
  <2>2. \A d \in Calls : pc'[d] \in {"sending", "sent"} => cur'[d] \in Reports BY <1>c, <2>1 DEF AgentT
  <2>3. \A d \in Calls : pc'[d] \in {"own", "ownSent", "queueing", "queueWrite"} => d \in Reports
    BY <1>c, <2>1 DEF AgentT
  <2> QED BY <1>c, <2>1, <2>2, <2>3 DEF AgentT
\* The flush takes the next event, which is in a state of its own.
<1>d. ASSUME NEW c \in Calls, NEW s \in States, Agent!SendFirst(c, s), Len(s.q) <= MaxEvents,
             file' = s, UNCHANGED <<buffer, accepted, old, queued>>
      PROVE  AgentT'
  <2>1. /\ pc' \in [Calls -> Labels] /\ pc'[c] \in {"size", "sending"} /\ cur' \in [Calls -> Calls]
        /\ \A d \in Calls : d # c => pc'[d] = pc[d] /\ cur'[d] = cur[d]
        /\ pc'[c] = "sending" => cur'[c] \in Reports
    BY <1>d, SendFirstIs
  <2>2. \A d \in Calls : pc'[d] \in {"sending", "sent"} => cur'[d] \in Reports BY <2>1 DEF AgentT
  <2>3. \A d \in Calls : pc'[d] \in {"own", "ownSent", "queueing", "queueWrite"} => d \in Reports
    BY <2>1 DEF AgentT
  <2> QED BY <1>d, <2>1, <2>2, <2>3 DEF AgentT
<1>2. ASSUME NEW c \in Calls, Agent!Peek(c) PROVE AgentT'
  <2>0. UNCHANGED <<file, accepted, old, queued>> /\ accepted' \subseteq Reports \ Rejected
    BY <1>2 DEF Agent!Peek, AgentT
  <2>1. CASE file = Torn
    <3>1. Agent!Goto(c, "failed") /\ UNCHANGED <<cur, buffer>> BY <1>2, <2>1 DEF Agent!Peek
    <3>2. "failed" \in Labels BY DEF Labels, Agent!Over
    <3> QED BY <1>b, <2>0, <3>1, <3>2
  <2>2. CASE file # Torn /\ Agent!Pruned(file) = file
    <3>1. Agent!SendFirst(c, file) /\ UNCHANGED buffer BY <1>2, <2>2 DEF Agent!Peek
    <3> QED BY <1>a, <1>d, <2>0, <2>2, <3>1
  <2>3. CASE file # Torn /\ Agent!Pruned(file) # file
    <3>1. Agent!ToSave(c, "pruning", Agent!Pruned(file)) /\ UNCHANGED cur BY <1>2, <2>3 DEF Agent!Peek
    <3>2. Agent!Pruned(file) \in States /\ Len(Agent!Pruned(file).q) <= Len(file.q) BY <1>a, <2>3, PrunedIs
    <3>3. Len(Agent!Pruned(file).q) <= MaxEvents
      <4>1. Len(file.q) \in Nat /\ Len(Agent!Pruned(file).q) \in Nat BY <1>a, <2>3, <3>2 DEF States
      <4> QED BY <1>0, <1>a, <2>3, <3>2, <4>1
    <3> QED BY <1>c, <2>0, <3>1, <3>2, <3>3
  <2> QED BY <2>1, <2>2, <2>3
<1>3. ASSUME NEW c \in Calls, Agent!Accept(c) PROVE AgentT'
  <2>0. UNCHANGED <<file, cur, buffer, old, queued>> BY <1>3 DEF Agent!Accept
  <2>1. CASE pc[c] = "sending" /\ cur[c] \notin Rejected /\ accepted' = accepted \union {cur[c]} /\ Agent!Goto(c, "sent")
    <3>1. "sent" \in Labels /\ accepted' \subseteq Reports \ Rejected BY <2>1 DEF Labels, AgentT
    <3> QED BY <1>b, <2>0, <2>1, <3>1
  <2>2. CASE pc[c] = "own" /\ c \notin Rejected /\ accepted' = accepted \union {c} /\ Agent!Goto(c, "ownSent")
    <3>1. "ownSent" \in Labels /\ c \in Reports /\ accepted' \subseteq Reports \ Rejected BY <2>2 DEF Labels, AgentT
    <3> QED BY <1>b, <2>0, <2>2, <3>1
  <2> QED BY <1>3, <2>1, <2>2 DEF Agent!Accept, Agent!ServerAccepts
<1>4. ASSUME NEW c \in Calls, Agent!HeadSent(c) PROVE AgentT'
  <2>0. UNCHANGED <<file, cur, accepted, old, queued>> /\ accepted' \subseteq Reports \ Rejected
    BY <1>4 DEF Agent!HeadSent, AgentT
  <2>1. CASE file = Torn
    <3>1. Agent!Goto(c, "size") /\ UNCHANGED buffer BY <1>4, <2>1 DEF Agent!HeadSent
    <3>2. "size" \in Labels BY DEF Labels
    <3> QED BY <1>b, <2>0, <3>1, <3>2
  <2>2. CASE file # Torn
    <3>1. Agent!ToSave(c, "shifting", Agent!Shifted(file)) BY <1>4, <2>2 DEF Agent!HeadSent
    <3>2. Agent!Shifted(file) \in States /\ Len(Agent!Shifted(file).q) <= Len(file.q) BY <1>a, <2>2, ShiftedIs
    <3>3. Len(Agent!Shifted(file).q) <= MaxEvents
      <4>1. Len(file.q) \in Nat /\ Len(Agent!Shifted(file).q) \in Nat BY <1>a, <2>2, <3>2 DEF States
      <4> QED BY <1>0, <1>a, <2>2, <3>2, <4>1
    <3> QED BY <1>c, <2>0, <3>1, <3>2, <3>3
  <2> QED BY <2>1, <2>2
<1>5. ASSUME NEW c \in Calls, Agent!OwnSent(c) \/ Agent!HeadFails(c) PROVE AgentT'
  <2>1. /\ Agent!Goto(c, "done") \/ Agent!Goto(c, "size")
        /\ UNCHANGED <<file, cur, buffer, accepted, old, queued>>
    BY <1>5 DEF Agent!OwnSent, Agent!HeadFails
  <2>2. "done" \in Labels /\ "size" \in Labels BY DEF Labels, Agent!Over
  <2>3. accepted' \subseteq Reports \ Rejected BY <2>1 DEF AgentT
  <2> QED BY <1>b, <2>1, <2>2, <2>3
<1>6. ASSUME NEW c \in Calls, Agent!Size(c) PROVE AgentT'
  <2> DEFINE label == IF file = Torn THEN "failed" ELSE IF c \in Reports THEN "own" ELSE "idle"
  <2>1. Agent!Goto(c, label) /\ UNCHANGED <<file, cur, buffer, accepted, old, queued>> BY <1>6 DEF Agent!Size
  <2>2. label \in Labels /\ label \notin {"sent", "sending", "ownSent", "queueing", "queueWrite"} /\ (label = "own" => c \in Reports)
    BY DEF Labels, Agent!Over
  <2>3. accepted' \subseteq Reports \ Rejected BY <2>1 DEF AgentT
  <2> HIDE DEF label
  <2> QED BY <1>b, <2>1, <2>2, <2>3
<1>7. ASSUME NEW c \in Calls, Agent!OwnFails(c) PROVE AgentT'
  <2>0. UNCHANGED <<file, cur, accepted, old, queued>> /\ accepted' \subseteq Reports \ Rejected /\ c \in Reports
    BY <1>7 DEF Agent!OwnFails, AgentT
  <2>1. CASE file = Torn
    <3>1. Agent!Goto(c, "failed") /\ UNCHANGED buffer BY <1>7, <2>1 DEF Agent!OwnFails
    <3>2. "failed" \in Labels BY DEF Labels, Agent!Over
    <3> QED BY <1>b, <2>0, <3>1, <3>2
  <2>2. CASE file # Torn
    <3>1. Agent!ToSave(c, "queueing", Agent!Enqueued(file, c)) BY <1>7, <2>2 DEF Agent!OwnFails
    <3>2. Agent!Enqueued(file, c) \in States /\ Len(Agent!Enqueued(file, c).q) <= MaxEvents
      BY <1>a, <2>0, <2>2, EnqueuedIs
    <3> QED BY <1>c, <2>0, <3>1, <3>2
  <2> QED BY <2>1, <2>2
<1>8. ASSUME NEW c \in Calls, Agent!Cut(c) PROVE AgentT'
  <2>1. /\ file' = Torn /\ UNCHANGED <<cur, buffer, accepted, old, queued>>
        /\ \/ pc[c] = "pruning" /\ Agent!Goto(c, "pruneWrite")
           \/ pc[c] = "shifting" /\ Agent!Goto(c, "shiftWrite")
           \/ pc[c] = "queueing" /\ Agent!Goto(c, "queueWrite")
    BY <1>8 DEF Agent!Cut, Agent!Saving
  <2>2. "pruneWrite" \in Labels /\ "shiftWrite" \in Labels /\ "queueWrite" \in Labels BY DEF Labels, Agent!Writing
  <2>3. /\ pc' \in [Calls -> Labels] /\ \A d \in Calls : d # c => pc'[d] = pc[d]
        /\ pc'[c] \in {"pruneWrite", "shiftWrite", "queueWrite"}
        /\ pc'[c] = "queueWrite" => pc[c] = "queueing"
    BY <2>1, <2>2, GotoIs
  <2>4. \A d \in Calls : pc'[d] \in {"sending", "sent"} => cur'[d] \in Reports BY <2>1, <2>3 DEF AgentT
  <2>5. \A d \in Calls : pc'[d] \in {"own", "ownSent", "queueing", "queueWrite"} => d \in Reports
    BY <2>3 DEF AgentT
  <2> QED BY <2>1, <2>3, <2>4, <2>5 DEF AgentT
<1>9. ASSUME NEW c \in Calls, Agent!Write(c) PROVE AgentT'
  <2>0. file' = buffer[c] /\ UNCHANGED <<buffer, accepted, old>> /\ buffer[c] \in States /\ Len(buffer[c].q) <= MaxEvents
    BY <1>9 DEF Agent!Write, AgentT
  <2>1. CASE pc[c] = "pruneWrite" /\ Agent!SendFirst(c, buffer[c]) /\ UNCHANGED queued
    BY <1>d, <2>0, <2>1
  <2>2. ASSUME NEW label \in {"peek", "done"}, Agent!Goto(c, label), queued' \in Seq(Reports),
               Agent!ToSet(queued) \subseteq Agent!ToSet(queued'), UNCHANGED cur
        PROVE  AgentT'
    <3>1. label \in Labels BY DEF Labels, Agent!Over
    <3>2. pc' \in [Calls -> Labels] /\ pc'[c] = label /\ \A d \in Calls : d # c => pc'[d] = pc[d]
      BY <2>2, <3>1, GotoIs
    <3>3. \A d \in Calls : pc'[d] \in {"sending", "sent"} => cur'[d] \in Reports BY <2>2, <3>2 DEF AgentT
    <3>4. \A d \in Calls : pc'[d] \in {"own", "ownSent", "queueing", "queueWrite"} => d \in Reports
      BY <3>2 DEF AgentT
    <3>5. old' \subseteq Agent!ToSet(queued') BY <2>0, <2>2 DEF AgentT
    <3> QED BY <2>0, <2>2, <3>2, <3>3, <3>4, <3>5, ToSetIs DEF AgentT
  <2>3. CASE pc[c] = "shiftWrite" /\ Agent!Goto(c, "peek") /\ UNCHANGED <<cur, queued>>
    BY <2>2, <2>3 DEF AgentT
  <2>4. CASE pc[c] = "queueWrite" /\ Agent!Goto(c, "done") /\ queued' = Append(queued, c) /\ UNCHANGED cur
    <3>1. c \in Reports /\ queued \in Seq(Reports) BY <2>4 DEF AgentT
    <3>2. queued' \in Seq(Reports) BY <2>4, <3>1
    <3>3. \A k \in DOMAIN queued : k \in DOMAIN Append(queued, c) /\ Append(queued, c)[k] = queued[k] BY <3>1
    <3>4. Agent!ToSet(queued) \subseteq Agent!ToSet(Append(queued, c)) BY <3>3, ToSetIs
    <3> QED BY <2>2, <2>4, <3>2, <3>4
  <2> QED BY <1>9, <2>1, <2>3, <2>4 DEF Agent!Write
<1>10. ASSUME NEW e \in Calls, Agent!Expire(e) PROVE AgentT'
  <2>1. UNCHANGED <<file, pc, cur, buffer, accepted, queued>> /\ old' = old \union {e} /\ e \in Agent!ToSet(queued)
    BY <1>10 DEF Agent!Expire
  <2>2. old' \subseteq Agent!ToSet(queued) BY <2>1 DEF AgentT
  <2>3. Agent!ToSet(queued') = Agent!ToSet(queued) BY <2>1
  <2> QED BY <2>1, <2>2, <2>3 DEF AgentT
<1>11. ASSUME NEW c \in Calls, Agent!Kill(c) PROVE AgentT'
  <2>1. UNCHANGED <<file, cur, buffer, accepted, old, queued>> BY <1>11 DEF Agent!Kill
  <2>2. "dead" \in Labels /\ "idle" \in Labels BY DEF Labels, Agent!Over
  <2>3. pc' \in [Calls -> Labels] /\ \A d \in Calls : pc'[d] = pc[d] \/ pc'[d] \in {"dead", "idle"}
    BY <1>11, <2>2 DEF Agent!Kill, AgentT
  <2>4. \A d \in Calls : pc'[d] \in {"sending", "sent"} => cur'[d] \in Reports BY <2>1, <2>3 DEF AgentT
  <2>5. \A d \in Calls : pc'[d] \in {"own", "ownSent", "queueing", "queueWrite"} => d \in Reports
    BY <2>3 DEF AgentT
  <2> QED BY <2>1, <2>3, <2>4, <2>5 DEF AgentT
<1>12. CASE UNCHANGED Agent!vars BY <1>12 DEF Agent!vars, AgentT
<1> QED
  BY <1>1, <1>2, <1>3, <1>4, <1>5, <1>6, <1>7, <1>8, <1>9, <1>10, <1>11, <1>12 DEF Agent!Next, Agent!Step

\* The outbox in the composition behaves as it does alone.
LEMMA ClientsAreAgents == ClientsSpec => Agent!Init /\ [][Agent!Next]_(Agent!vars)
<1>1. ClientsInit => Agent!Init BY DEF ClientsInit
<1>2. [ClientsNext]_clientsVars => [Agent!Next]_(Agent!vars)
  BY DEF ClientsNext, clientsVars, agentVars, Agent!vars, Agent!calls
<1> QED BY <1>1, <1>2, PTL DEF ClientsSpec

LEMMA AgentTInvariant == ClientsSpec => []AgentT
<1>1. Agent!Init => AgentT BY AgentTInit, AgentConstants
<1>2. AgentT /\ [Agent!Next]_(Agent!vars) => AgentT' BY AgentTNext, AgentConstants
<1> QED BY <1>1, <1>2, ClientsAreAgents, PTL

InFile == Agent!Saving \union Agent!Writing
Process == [c \in Calls |-> IF c \in Elsewhere THEN 2 ELSE 1]

\* The types of the history.
AgentHistory == stolen \subseteq Reports /\ raced \in BOOLEAN

LEMMA LoadsIs ==
  ASSUME NEW c \in Calls, Agent!Loads(c)
  PROVE  /\ raced => raced'
         /\ ~raced' => \A d \in Calls : Process[d] # Process[c] => pc[d] \notin InFile
         /\ raced \in BOOLEAN => raced' \in BOOLEAN
<1>1. raced' = (raced \/ \E d \in Calls : Process[d] # Process[c] /\ pc[d] \in InFile)
  BY Zenon DEF Agent!Loads, Process, InFile
<1> QED BY <1>1, Zenon

LEMMA AgentHistoryNext ==
  ASSUME AgentT, AgentHistory, [Agent!Next]_(Agent!vars)
  PROVE  AgentHistory'
<1>1. ASSUME NEW c \in Calls, Agent!Loads(c) PROVE raced' \in BOOLEAN BY <1>1, LoadsIs DEF AgentHistory
<1>2. ASSUME UNCHANGED raced PROVE raced' \in BOOLEAN BY <1>2 DEF AgentHistory
<1>3. ASSUME UNCHANGED stolen PROVE stolen' \subseteq Reports BY <1>3 DEF AgentHistory
<1>4. ASSUME NEW c \in Calls, Agent!HeadSent(c) PROVE AgentHistory'
  <2>1. Agent!Loads(c) BY <1>4 DEF Agent!HeadSent
  <2>2. CASE file = Torn BY <1>1, <1>3, <1>4, <2>1, <2>2 DEF Agent!HeadSent, AgentHistory
  <2>3. CASE file # Torn
    <3>1. file.q \in Seq(Reports) BY <2>3 DEF AgentT, States
    <3>2. Agent!Events(file) \subseteq Reports BY <3>1, ToSetIs DEF Agent!Events
    <3>3. stolen' \subseteq stolen \union Agent!Events(file) BY <1>4, <2>3 DEF Agent!HeadSent
    <3> QED BY <1>1, <2>1, <3>2, <3>3 DEF AgentHistory
  <2> QED BY <2>2, <2>3
<1>5. ASSUME NEW c \in Calls, Agent!Step(c), ~Agent!HeadSent(c) PROVE AgentHistory'
  <2>1. (Agent!Loads(c) \/ UNCHANGED raced) /\ UNCHANGED stolen
    BY <1>5 DEF Agent!Step, Agent!Begin, Agent!Peek, Agent!Accept, Agent!Size, Agent!OwnSent, Agent!Cut,
                Agent!Write
  <2> QED BY <1>1, <1>2, <1>3, <2>1 DEF AgentHistory
<1>6. ASSUME NEW c \in Calls, Agent!HeadFails(c) \/ Agent!OwnFails(c) \/ Agent!Expire(c) \/ Agent!Kill(c)
      PROVE  AgentHistory'
  <2>1. (Agent!Loads(c) \/ UNCHANGED raced) /\ UNCHANGED stolen
    BY <1>6 DEF Agent!HeadFails, Agent!OwnFails, Agent!Expire, Agent!Kill
  <2> QED BY <1>1, <1>2, <1>3, <2>1 DEF AgentHistory
<1>7. CASE UNCHANGED Agent!vars BY <1>2, <1>3, <1>7 DEF Agent!vars, AgentHistory
<1> QED BY <1>4, <1>5, <1>6, <1>7 DEF Agent!Next

LEMMA AgentHistoryInvariant == ClientsSpec => []AgentHistory
<1>1. Agent!Init => AgentHistory BY DEF Agent!Init, AgentHistory
<1> QED BY <1>1, AgentHistoryNext, AgentTInvariant, ClientsAreAgents, PTL

\* The outbox file never holds more than the limit, in any of the processes'
\* interleavings, and every call is where a call can be.
THEOREM AgentIsTyped == ClientsSpec => []Agent!AgentTypeOK
<1>1. AgentT /\ AgentHistory => Agent!AgentTypeOK
  <2> SUFFICES ASSUME AgentT, AgentHistory PROVE Agent!AgentTypeOK OBVIOUS
  <2>1. \A q \in Seq(Reports) : Agent!ToSet(q) \subseteq Reports BY ToSetIs
  <2>2. file # Torn => Agent!Events(file) \subseteq Reports
    BY <2>1 DEF AgentT, States, Agent!Events
  <2>3. Agent!ToSet(queued) \subseteq Reports BY <2>1 DEF AgentT
  <2>4. pc \in [Calls -> Labels] BY DEF AgentT
  <2> QED BY <2>2, <2>3, <2>4 DEF AgentT, AgentHistory, Agent!AgentTypeOK, Labels
<1> QED BY <1>1, AgentTInvariant, AgentHistoryInvariant, PTL

LEMMA ClientsCoordinate == ClientsSpec => Spec
<1>1. ClientsInit => Init BY DEF ClientsInit
<1>2. [ClientsNext]_clientsVars => [Next]_vars BY DEF ClientsNext, clientsVars, vars
<1> QED BY <1>1, <1>2, PTL DEF ClientsSpec, Spec

\* Every variable of the clients ranges over what it can hold.
THEOREM ClientsAreTyped == ClientsSpec => []ClientsTypeOK
<1>1. TypeOK /\ Sync!SyncTypeOK /\ Agent!AgentTypeOK /\ Preview!PreviewTypeOK => ClientsTypeOK
  BY DEF ClientsTypeOK
<1> QED BY <1>1, ClientsCoordinate, TypeCorrect, SyncIsTyped, AgentIsTyped, PreviewsAreTyped, PTL

-----------------------------------------------------------------------------
(* The agent's outbox when calls overlap.                                  *)

Inside == InFile \union {"size"}

\* A process does one thing to the file at a time.
OneInside ==
  \A c, d \in Calls : c = d \/ Process[c] # Process[d] \/ pc[c] \notin Inside \/ pc[d] \notin Inside

\* What is behind the queue: taken by the server, or stolen.
Past == accepted \union stolen

\* Whatever is saved next keeps d accounted: it is the file, or about to be.
Settled(d) ==
  /\ file # Torn => d \in file.gaps \union Past
  /\ \A e \in Calls : pc[e] \in InFile => d \in buffer[e].gaps \union Past

\* What a call is to save, and what it sends: nothing queued before it is left.
Saves(c) ==
  /\ pc[c] \in {"pruning", "shifting", "pruneWrite", "shiftWrite"} => Stored(buffer[c], queued, Past)
  /\ pc[c] \in {"queueing", "queueWrite"} => Storing(buffer[c], c, queued, Past)
  /\ pc[c] \in Agent!Saving => file # Torn
Sends(c) ==
  /\ pc[c] \in {"sending", "sent"} =>
       /\ cur[c] \in Agent!ToSet(queued)
       /\ \A d : Precedes(d, cur[c], queued) => Settled(d)
  /\ pc[c] = "sent" => cur[c] \in accepted

Ledger ==
  /\ \A c, d \in Calls : c = d \/ pc[c] \notin InFile \/ pc[d] \notin InFile
  /\ file # Torn => Stored(file, queued, Past)
  /\ \A c \in Calls : Saves(c) /\ Sends(c)
  /\ \A c \in Calls : pc[c] = "failed" => file = Torn /\ \A d \in Calls : pc[d] \notin InFile
  /\ \A c \in Calls : c \in Agent!ToSet(queued) => pc[c] = "done"
  /\ \A c : ~Precedes(c, c, queued)

LEMMA RunsIs ==
  ASSUME NEW c \in Calls, Agent!Runs(c)
  PROVE  \A d \in Calls : d # c /\ Process[d] = Process[c] => pc[d] \notin Inside
  BY Zenon DEF Agent!Runs, Process, Inside, InFile

\* Nobody else is at the file while a call loads it, until processes race.
LEMMA LoadsAlone ==
  ASSUME NEW c \in Calls, Agent!Loads(c), ~raced',
         \A d \in Calls : d # c /\ Process[d] = Process[c] => pc[d] \notin Inside
  PROVE  \A d \in Calls : d # c => pc[d] \notin InFile
<1>1. \A d \in Calls : Process[d] # Process[c] => pc[d] \notin InFile BY LoadsIs
<1> QED BY <1>1 DEF Inside

\* A race stays one.
LEMMA RacedStays == ASSUME [Agent!Next]_(Agent!vars) PROVE raced => raced'
<1>1. ASSUME NEW c \in Calls, Agent!Loads(c) PROVE raced => raced' BY <1>1, LoadsIs
<1>2. CASE UNCHANGED raced BY <1>2
<1>3. ASSUME NEW c \in Calls, Agent!Step(c) PROVE raced => raced'
  <2>1. Agent!Loads(c) \/ UNCHANGED raced
    BY <1>3 DEF Agent!Step, Agent!Begin, Agent!Peek, Agent!Accept, Agent!HeadSent, Agent!Size, Agent!OwnSent,
                Agent!Cut, Agent!Write
  <2> QED BY <1>1, <1>2, <2>1
<1>4. ASSUME NEW c \in Calls, Agent!HeadFails(c) \/ Agent!OwnFails(c) \/ Agent!Expire(c) \/ Agent!Kill(c)
      PROVE  raced => raced'
  <2>1. Agent!Loads(c) \/ UNCHANGED raced
    BY <1>4 DEF Agent!HeadFails, Agent!OwnFails, Agent!Expire, Agent!Kill
  <2> QED BY <1>1, <1>2, <2>1
<1>5. CASE UNCHANGED Agent!vars BY <1>2, <1>5 DEF Agent!vars
<1> QED BY <1>3, <1>4, <1>5 DEF Agent!Next

LEMMA OneInsideNext ==
  ASSUME AgentT, OneInside, [Agent!Next]_(Agent!vars)
  PROVE  OneInside'
<1> USE DEF Agent!calls
\* A call moves within the file, or out of it, or finds its process outside.
<1>a. ASSUME NEW c \in Calls, NEW label \in Labels, Agent!Goto(c, label),
             \/ label \notin Inside
             \/ pc[c] \in Inside
             \/ \A d \in Calls : d # c /\ Process[d] = Process[c] => pc[d] \notin Inside
      PROVE  OneInside'
  <2>1. pc'[c] = label /\ \A d \in Calls : d # c => pc'[d] = pc[d] BY <1>a, GotoIs
  <2> QED BY <1>a, <2>1 DEF OneInside
<1>b. ASSUME NEW c \in Calls, Agent!Runs(c), NEW label \in Labels, Agent!Goto(c, label) PROVE OneInside'
  BY <1>a, <1>b, RunsIs
<1>c. /\ \A l \in Agent!Saving \union Agent!Writing \union {"size"} : l \in Inside
      /\ "own" \notin Inside /\ "idle" \notin Inside /\ "failed" \notin Inside
  BY DEF Inside, InFile, Agent!Saving, Agent!Writing
<1>1. ASSUME NEW c \in Calls, Agent!Begin(c) \/ Agent!Peek(c) PROVE OneInside'
  <2>1. PICK label \in {"peek", "failed", "size", "sending", "pruning"} : Agent!Goto(c, label) /\ Agent!Runs(c)
    BY <1>1 DEF Agent!Begin, Agent!Peek, Agent!SendFirst, Agent!ToSave
  <2>2. label \in Labels BY DEF Labels, Agent!Saving, Agent!Over
  <2> QED BY <1>b, <2>1, <2>2
<1>2. ASSUME NEW c \in Calls, Agent!Accept(c) PROVE OneInside'
  <2>1. PICK label \in {"sent", "ownSent"} : Agent!Goto(c, label)
    BY <1>2 DEF Agent!Accept, Agent!ServerAccepts
  <2>2. label \in Labels /\ label \notin Inside BY DEF Labels, Inside, InFile, Agent!Saving, Agent!Writing
  <2> QED BY <1>a, <2>1, <2>2
<1>3. ASSUME NEW c \in Calls, Agent!HeadSent(c) \/ Agent!OwnSent(c) \/ Agent!HeadFails(c) \/ Agent!OwnFails(c)
      PROVE  OneInside'
  <2>1. PICK label \in {"size", "shifting", "done", "failed", "queueing"} : Agent!Goto(c, label) /\ Agent!Runs(c)
    BY <1>3 DEF Agent!HeadSent, Agent!OwnSent, Agent!HeadFails, Agent!OwnFails, Agent!ToSave
  <2>2. label \in Labels BY DEF Labels, Agent!Saving, Agent!Over
  <2> QED BY <1>b, <2>1, <2>2
<1>4. ASSUME NEW c \in Calls, Agent!Size(c) \/ Agent!Cut(c) \/ Agent!Write(c) PROVE OneInside'
  <2>1. PICK label \in {"failed", "own", "idle", "size", "sending", "peek", "done"} \union Agent!Writing :
          Agent!Goto(c, label)
    BY <1>4 DEF Agent!Size, Agent!Cut, Agent!Saving, Agent!Write, Agent!SendFirst, Agent!Writing
  <2>2. label \in Labels BY DEF Labels, Agent!Over
  <2>3. pc[c] \in Inside BY <1>4, <1>c DEF Agent!Size, Agent!Cut, Agent!Write
  <2> QED BY <1>a, <2>1, <2>2, <2>3
<1>5. ASSUME NEW c \in Calls, Agent!Kill(c) PROVE OneInside'
  <2>1. \A d \in Calls : pc'[d] = pc[d] \/ pc'[d] \in {"dead", "idle"} BY <1>5 DEF Agent!Kill
  <2>2. "dead" \notin Inside /\ "idle" \notin Inside BY DEF Inside, InFile, Agent!Saving, Agent!Writing
  <2>3. \A d \in Calls : pc'[d] \in Inside => pc[d] \in Inside BY <2>1, <2>2
  <2> QED BY <2>3 DEF OneInside
<1>6. ASSUME NEW c \in Calls, Agent!Expire(c) PROVE OneInside' BY <1>6 DEF Agent!Expire, OneInside
<1>7. CASE UNCHANGED Agent!vars BY <1>7 DEF Agent!vars, OneInside
<1> QED BY <1>1, <1>2, <1>3, <1>4, <1>5, <1>6, <1>7 DEF Agent!Next, Agent!Step

LEMMA OneInsideInvariant == ClientsSpec => []OneInside
<1>1. Agent!Init => OneInside
  BY DEF Agent!Init, OneInside, Inside, InFile, Agent!Saving, Agent!Writing
<1> QED BY <1>1, OneInsideNext, AgentTInvariant, ClientsAreAgents, PTL

LEMMA LedgerInit == ASSUME Agent!Init PROVE Ledger
<1>1. queued = <<>> /\ file.q = <<>> /\ \A c \in Calls : pc[c] = "idle"
  BY DEF Agent!Init, Agent!Empty
<1>2. Agent!ToSet(<<>>) = {} BY ToSetIs
<1>3. \A c, d : ~Precedes(c, d, <<>>) BY DEF Precedes
<1>4. Agent!Events(file) = {} BY <1>1, <1>2 DEF Agent!Events
<1>5. Stored(file, queued, Past) BY <1>1, <1>2, <1>3, <1>4 DEF Stored
<1>6. \A c \in Calls : Saves(c) /\ Sends(c) BY <1>1 DEF Saves, Sends, Agent!Saving
<1>7. \A c \in Calls : pc[c] \notin InFile BY <1>1 DEF InFile, Agent!Saving, Agent!Writing
<1> QED BY <1>1, <1>2, <1>3, <1>5, <1>6, <1>7 DEF Ledger

\* What is stored stays so while more is taken by the server, or stolen.
LEMMA StoredGrows ==
  ASSUME NEW s, NEW c, NEW w, NEW a, NEW b, a \subseteq b
  PROVE  (Stored(s, w, a) => Stored(s, w, b)) /\ (Storing(s, c, w, a) => Storing(s, c, w, b))
  BY DEF Stored, Storing

\* A call goes on, and leaves the file.
LEMMA CallGoes ==
  ASSUME AgentT, Ledger, NEW c \in Calls, NEW label \in Labels \ InFile, Agent!Goto(c, label),
         pc[c] \notin InFile, pc[c] # "done", UNCHANGED <<file, buffer, queued>>,
         \A d \in Calls : d # c => cur'[d] = cur[d],
         accepted \subseteq accepted', stolen \subseteq stolen', Sends(c)',
         label = "failed" => file = Torn /\ \A d \in Calls : d # c => pc[d] \notin InFile
  PROVE  Ledger'
<1>1. pc'[c] = label /\ pc'[c] \notin InFile /\ \A d \in Calls : d # c => pc'[d] = pc[d] BY GotoIs
<1>2. Past \subseteq Past' BY DEF Past
<1>3. \A d, e \in Calls : d = e \/ pc'[d] \notin InFile \/ pc'[e] \notin InFile BY <1>1 DEF Ledger
<1>4. file' # Torn => Stored(file', queued', Past') BY <1>2, StoredGrows DEF Ledger
<1>5. \A d \in Calls : Saves(d)'
  <2>1. Saves(c)' BY <1>1 DEF Saves, InFile, Agent!Saving, Agent!Writing
  <2>2. ASSUME NEW d \in Calls, d # c PROVE Saves(d)'
    <3>1. Saves(d) /\ pc'[d] = pc[d] BY <1>1, <2>2 DEF Ledger
    <3> QED BY <1>2, <3>1, StoredGrows DEF Saves
  <2> QED BY <2>1, <2>2
<1>6. \A d : Settled(d) => Settled(d)' BY <1>1, <1>2 DEF Settled
<1>7. ASSUME NEW d \in Calls, d # c PROVE Sends(d)'
  <2>1. Sends(d) /\ pc'[d] = pc[d] /\ cur'[d] = cur[d] BY <1>1, <1>7 DEF Ledger
  <2> QED BY <1>6, <2>1 DEF Sends
<1>8. ASSUME NEW d \in Calls, pc'[d] = "failed" PROVE file' = Torn /\ \A e \in Calls : pc'[e] \notin InFile
  <2>1. CASE d = c BY <1>1, <1>8, <2>1
  <2>2. CASE d # c
    <3>1. file = Torn /\ \A e \in Calls : pc[e] \notin InFile BY <1>1, <1>8, <2>2 DEF Ledger
    <3> QED BY <1>1, <3>1
  <2> QED BY <2>1, <2>2
<1>9. \A d \in Calls : d \in Agent!ToSet(queued') => pc'[d] = "done" BY <1>1 DEF Ledger
<1>10. \A d : ~Precedes(d, d, queued') BY DEF Ledger
<1> QED BY <1>3, <1>4, <1>5, <1>7, <1>8, <1>9, <1>10 DEF Ledger

\* A call has loaded the file, and is about to save.
LEMMA CallLoads ==
  ASSUME AgentT, Ledger, NEW c \in Calls, NEW label \in Agent!Saving, NEW s \in States,
         Len(s.q) <= MaxEvents, Agent!ToSave(c, label, s), pc[c] # "done", file # Torn,
         \A d \in Calls : d # c => pc[d] \notin InFile,
         UNCHANGED <<file, cur, queued, accepted>>, stolen \subseteq stolen', file.gaps \subseteq s.gaps,
         label # "queueing" => Stored(s, queued, Past'),
         label = "queueing" => Storing(s, c, queued, Past')
  PROVE  Ledger'
<1>0. label \in Labels /\ label \in InFile /\ label \notin {"sending", "sent", "failed", "pruneWrite", "shiftWrite", "queueWrite"}
  BY DEF Labels, InFile, Agent!Saving
<1>1. pc'[c] = label /\ buffer'[c] = s /\ \A d \in Calls : d # c => pc'[d] = pc[d] BY <1>0, ToSaveIs
<1>2. Past \subseteq Past' BY DEF Past
<1>3. \A d, e \in Calls : d = e \/ pc'[d] \notin InFile \/ pc'[e] \notin InFile BY <1>1
<1>4. file' # Torn => Stored(file', queued', Past') BY <1>2, StoredGrows DEF Ledger
<1>5. \A d \in Calls : Saves(d)'
  <2>1. Saves(c)' BY <1>0, <1>1 DEF Saves, Agent!Saving
  <2>2. \A d \in Calls : d # c => Saves(d)' BY <1>1 DEF Saves, InFile, Agent!Saving, Agent!Writing
  <2> QED BY <2>1, <2>2
<1>6. ASSUME NEW d, Settled(d) PROVE Settled(d)'
  <2>1. d \in file.gaps \union Past BY <1>6 DEF Settled
  <2> QED BY <1>1, <1>2, <2>1 DEF Settled
<1>7. ASSUME NEW d \in Calls PROVE Sends(d)'
  <2>1. CASE d = c BY <1>0, <1>1, <2>1 DEF Sends
  <2>2. CASE d # c
    <3>1. Sends(d) /\ pc'[d] = pc[d] BY <1>1, <2>2 DEF Ledger
    <3> QED BY <1>6, <3>1 DEF Sends
  <2> QED BY <2>1, <2>2
<1>8. \A d \in Calls : pc'[d] # "failed" BY <1>0, <1>1 DEF Ledger
<1>9. \A d \in Calls : d \in Agent!ToSet(queued') => pc'[d] = "done" BY <1>1 DEF Ledger
<1>10. \A d : ~Precedes(d, d, queued') BY DEF Ledger
<1> QED BY <1>3, <1>4, <1>5, <1>7, <1>8, <1>9, <1>10 DEF Ledger

\* A call has saved: the file is what it had made of it.
LEMMA CallSaves ==
  ASSUME AgentT, Ledger, NEW c \in Calls, pc[c] \in Agent!Writing, file' = buffer[c], buffer[c] # Torn,
         pc'[c] \notin InFile \union {"failed"},
         \A d \in Calls : d # c => pc'[d] = pc[d] /\ cur'[d] = cur[d],
         UNCHANGED <<buffer, accepted, stolen>>,
         Stored(buffer[c], queued', Past), Sends(c)',
         Agent!ToSet(queued) \subseteq Agent!ToSet(queued'),
         \A d : \A e \in Agent!ToSet(queued) : Precedes(d, e, queued') => Precedes(d, e, queued),
         \A d \in Calls : d \in Agent!ToSet(queued') => pc'[d] = "done",
         \A d : ~Precedes(d, d, queued')
  PROVE  Ledger'
<1>1. pc[c] \in InFile BY DEF InFile
<1>2. \A d \in Calls : d # c => pc[d] \notin InFile BY <1>1 DEF Ledger
<1>3. \A d \in Calls : pc'[d] \notin InFile BY <1>2
<1>4. UNCHANGED Past BY DEF Past
<1>5. \A d \in Calls : Saves(d)' BY <1>3 DEF Saves, InFile, Agent!Saving, Agent!Writing
<1>6. \A d : Settled(d) => Settled(d)' BY <1>1, <1>3, <1>4 DEF Settled
<1>7. ASSUME NEW d \in Calls, d # c PROVE Sends(d)'
  <2>1. Sends(d) /\ pc'[d] = pc[d] /\ cur'[d] = cur[d] BY <1>7 DEF Ledger
  <2> QED BY <1>6, <2>1 DEF Sends
<1>8. \A d \in Calls : pc'[d] # "failed" BY <1>1 DEF Ledger
<1> QED BY <1>3, <1>4, <1>5, <1>7, <1>8 DEF Ledger

\* The head of a stored queue: whatever was queued before it is behind the queue.
LEMMA HeadIsNext ==
  ASSUME NEW s \in States, NEW w, NEW a, Stored(s, w, a), s.q # <<>>, \A d : ~Precedes(d, d, w)
  PROVE  /\ Head(s.q) \in Agent!ToSet(w) /\ Head(s.q) \in Agent!Events(s)
         /\ \A d : Precedes(d, Head(s.q), w) => d \in s.gaps \union a
<1>1. /\ 1 \in DOMAIN s.q /\ Head(s.q) = s.q[1] /\ \A j \in DOMAIN s.q : j = 1 \/ 1 < j
      /\ Agent!Events(s) = {s.q[i] : i \in DOMAIN s.q}
  <2>1. s.q \in Seq(Reports) BY DEF States
  <2> QED BY <2>1, ToSetIs DEF Agent!Events
<1>2. Head(s.q) \in Agent!Events(s) BY <1>1
<1>3. ASSUME NEW d, Precedes(d, Head(s.q), w), d \notin s.gaps \union a PROVE FALSE
  <2>1. d \in Agent!ToSet(w) BY <1>3, ToSetIs DEF Precedes
  <2>2. d \in Agent!Events(s) BY <1>3, <2>1 DEF Stored
  <2>3. PICK j \in DOMAIN s.q : s.q[j] = d BY <1>1, <2>2
  <2>4. CASE j = 1 BY <1>1, <1>3, <2>3, <2>4
  <2>5. CASE 1 < j BY <1>1, <1>3, <2>3, <2>5 DEF Stored
  <2> QED BY <1>1, <2>4, <2>5
<1> QED BY <1>2, <1>3 DEF Stored
LEMMA LedgerNext ==
  ASSUME AgentT, OneInside, Ledger, ~raced', [Agent!Next]_(Agent!vars), Agent!AgentOutboxAssumption
  PROVE  Ledger'
<1> USE DEF Agent!calls
<1>a. file # Torn => file \in States /\ Len(file.q) <= MaxEvents /\ Stored(file, queued, Past)
  BY DEF AgentT, Ledger
<1>b. \A c \in Calls : pc[c] # "done" => c \notin Agent!ToSet(queued) BY DEF Ledger
\* Whoever loads the file, or is at its end, is alone with it.
<1>c. ASSUME NEW c \in Calls, Agent!Loads(c), Agent!Runs(c) \/ pc[c] = "size"
      PROVE  \A d \in Calls : d # c => pc[d] \notin InFile
  <2>1. \A d \in Calls : d # c /\ Process[d] = Process[c] => pc[d] \notin Inside
    BY <1>c, RunsIs DEF OneInside, Inside
  <2> QED BY <1>c, <2>1, LoadsAlone
\* A call sends the head of the file, which it has saved or found as it is.
<1>d. ASSUME NEW c \in Calls, NEW s \in States, Agent!SendFirst(c, s), file' = s, Stored(s, queued, Past),
             UNCHANGED <<buffer, accepted, stolen, queued>>, pc[c] # "done",
             \A d \in Calls : d # c => pc[d] \notin InFile
      PROVE  /\ Sends(c)' /\ pc'[c] \in {"size", "sending"}
             /\ \A d \in Calls : d # c => pc'[d] = pc[d] /\ cur'[d] = cur[d]
  <2>1. /\ pc'[c] \in {"size", "sending"} /\ (\A d \in Calls : d # c => pc'[d] = pc[d] /\ cur'[d] = cur[d])
        /\ pc'[c] = "sending" => s.q # <<>> /\ cur'[c] = Head(s.q)
    BY <1>d, SendFirstIs
  <2>2. UNCHANGED Past BY <1>d DEF Past
  <2>3. \A d \in Calls : pc'[d] \notin InFile BY <1>d, <2>1 DEF InFile, Agent!Saving, Agent!Writing
  <2>4. \A d : ~Precedes(d, d, queued) BY DEF Ledger
  <2>5. CASE pc'[c] = "sending"
    <3>1. /\ cur'[c] \in Agent!ToSet(queued)
          /\ \A d : Precedes(d, cur'[c], queued) => d \in s.gaps \union Past
      BY <1>d, <2>1, <2>4, <2>5, HeadIsNext
    <3>2. \A d : d \in s.gaps \union Past => Settled(d)' BY <1>d, <2>2, <2>3 DEF Settled
    <3> QED BY <1>d, <2>1, <2>5, <3>1, <3>2 DEF Sends
  <2>6. CASE pc'[c] = "size" BY <2>1, <2>6 DEF Sends
  <2> QED BY <2>1, <2>5, <2>6
<1>e. /\ \A l \in {"peek", "failed", "size", "sending", "sent", "own", "ownSent", "idle", "done"} :
             l \in Labels \ InFile
      /\ "pruning" \in Agent!Saving /\ "shifting" \in Agent!Saving /\ "queueing" \in Agent!Saving
  BY DEF Labels, InFile, Agent!Saving, Agent!Writing, Agent!Over
<1>1. ASSUME NEW c \in Calls, Agent!Begin(c) PROVE Ledger'
  <2>1. /\ pc[c] = "idle" /\ Agent!Goto(c, "peek")
        /\ UNCHANGED <<file, cur, buffer, queued, accepted, stolen>>
    BY <1>1 DEF Agent!Begin
  <2>2. pc'[c] = "peek" BY <1>e, <2>1, GotoIs
  <2>3. Sends(c)' BY <2>2 DEF Sends
  <2> QED BY <1>e, <2>1, <2>3, CallGoes
<1>2. ASSUME NEW c \in Calls, Agent!Peek(c) PROVE Ledger'
  <2>0. UNCHANGED <<file, accepted, queued, stolen>> /\ pc[c] = "peek" /\ Agent!Loads(c) /\ Agent!Runs(c)
    BY <1>2 DEF Agent!Peek
  <2>a. \A d \in Calls : d # c => pc[d] \notin InFile BY <1>c, <2>0
  <2>1. CASE file = Torn
    <3>1. Agent!Goto(c, "failed") /\ UNCHANGED <<cur, buffer>> BY <1>2, <2>1 DEF Agent!Peek
    <3>2. pc'[c] = "failed" BY <1>e, <3>1, GotoIs
    <3>3. Sends(c)' BY <3>2 DEF Sends
    <3> QED BY <1>e, <2>0, <2>1, <2>a, <3>1, <3>3, CallGoes
  <2>2. CASE file # Torn /\ Agent!Pruned(file) = file
    <3>1. Agent!SendFirst(c, file) /\ UNCHANGED buffer BY <1>2, <2>2 DEF Agent!Peek
    <3>2. /\ Sends(c)' /\ pc'[c] \in {"size", "sending"}
          /\ \A d \in Calls : d # c => pc'[d] = pc[d] /\ cur'[d] = cur[d]
      BY <1>a, <1>d, <2>0, <2>2, <2>a, <3>1
    <3>3. PICK label \in {"size", "sending"} : Agent!Goto(c, label) BY <3>1 DEF Agent!SendFirst
    <3> QED BY <1>e, <2>0, <3>1, <3>2, <3>3, CallGoes
  <2>3. CASE file # Torn /\ Agent!Pruned(file) # file
    <3> DEFINE p == Agent!Pruned(file)
    <3>1. Agent!ToSave(c, "pruning", p) /\ UNCHANGED cur BY <1>2, <2>3 DEF Agent!Peek
    <3>2. /\ p \in States /\ Len(p.q) <= Len(file.q) /\ Within(p.q, file.q)
          /\ Agent!Events(p) \subseteq Agent!Events(file)
          /\ Agent!Events(file) \union file.gaps \subseteq Agent!Events(p) \union p.gaps
      BY <1>a, <2>3, PrunedIs
    <3>3. p.gaps = file.gaps \union (Agent!Events(file) \cap old) BY DEF Agent!Pruned
    <3> HIDE DEF p
    <3>4. Past' = Past BY <2>0 DEF Past
    <3>5. Stored(p, queued, Past) BY <1>a, <2>3, <3>2, StoredStays
    <3>6. Len(file.q) \in Nat /\ Len(p.q) \in Nat /\ MaxEvents \in Nat
      BY <1>a, <2>3, <3>2 DEF States, Agent!AgentOutboxAssumption
    <3>7. Len(p.q) <= MaxEvents BY <1>a, <2>3, <3>2, <3>6
    <3>8. file.gaps \subseteq p.gaps BY <3>3
    <3> QED BY <1>e, <2>0, <2>3, <2>a, <3>1, <3>2, <3>4, <3>5, <3>7, <3>8, CallLoads
  <2> QED BY <2>1, <2>2, <2>3
<1>3. ASSUME NEW c \in Calls, Agent!Accept(c) PROVE Ledger'
  <2>0. UNCHANGED <<file, cur, buffer, queued, stolen>> BY <1>3 DEF Agent!Accept
  <2>1. CASE pc[c] = "sending" /\ accepted' = accepted \union {cur[c]} /\ Agent!Goto(c, "sent")
    <3>1. pc'[c] = "sent" /\ \A d \in Calls : d # c => pc'[d] = pc[d] BY <1>e, <2>1, GotoIs
    <3>2. pc[c] \notin InFile /\ pc'[c] \notin InFile BY <2>1, <3>1, <1>e DEF InFile, Agent!Saving, Agent!Writing
    <3>3. \A d : Settled(d) => Settled(d)' BY <2>0, <2>1, <3>1, <3>2 DEF Settled, Past
    <3>4. Sends(c) BY DEF Ledger
    <3>5. Sends(c)' BY <2>0, <2>1, <3>1, <3>3, <3>4 DEF Sends
    <3> QED BY <1>e, <2>0, <2>1, <3>2, <3>5, CallGoes
  <2>2. CASE pc[c] = "own" /\ accepted' = accepted \union {c} /\ Agent!Goto(c, "ownSent")
    <3>1. pc'[c] = "ownSent" BY <1>e, <2>2, GotoIs
    <3>2. Sends(c)' BY <3>1 DEF Sends
    <3>3. pc[c] \notin InFile BY <1>e, <2>2
    <3> QED BY <1>e, <2>0, <2>2, <3>2, <3>3, CallGoes
  <2> QED BY <1>3, <2>1, <2>2 DEF Agent!Accept, Agent!ServerAccepts
<1>4. ASSUME NEW c \in Calls, Agent!HeadSent(c) PROVE Ledger'
  <2>0. UNCHANGED <<file, cur, accepted, queued>> /\ pc[c] = "sent" /\ Agent!Loads(c) /\ Agent!Runs(c)
    BY <1>4 DEF Agent!HeadSent
  <2>a. \A d \in Calls : d # c => pc[d] \notin InFile BY <1>c, <2>0
  <2>1. CASE file = Torn
    <3>1. Agent!Goto(c, "size") /\ UNCHANGED <<buffer, stolen>> BY <1>4, <2>1 DEF Agent!HeadSent
    <3>2. pc'[c] = "size" BY <1>e, <3>1, GotoIs
    <3>3. Sends(c)' BY <3>2 DEF Sends
    <3> QED BY <1>e, <2>0, <3>1, <3>3, CallGoes
  <2>2. CASE file # Torn
    <3> DEFINE p == Agent!Shifted(file)
    <3>1. /\ Agent!ToSave(c, "shifting", p)
          /\ stolen' = stolen \union {e \in Agent!Events(file) : e = Head(file.q) /\ e # cur[c]}
      BY <1>4, <2>2 DEF Agent!HeadSent
    <3>2. /\ p \in States /\ Len(p.q) <= Len(file.q) /\ Within(p.q, file.q) /\ p.gaps = file.gaps
          /\ Agent!Events(p) \subseteq Agent!Events(file)
          /\ file.q # <<>> => Agent!Events(file) \subseteq Agent!Events(p) \union {Head(file.q)}
      BY <1>a, <2>2, ShiftedIs
    <3>3. file.q = <<>> => p = file BY DEF Agent!Shifted
    <3> HIDE DEF p
    <3>4. Past \subseteq Past' BY <2>0, <3>1 DEF Past
    \* What the shift takes off was delivered by this call, or is stolen.
    <3>5. Agent!Events(file) \union file.gaps \subseteq Agent!Events(p) \union p.gaps \union Past'
      <4>1. CASE file.q = <<>> BY <3>3, <4>1
      <4>2. CASE file.q # <<>>
        <5>1. cur[c] \in accepted BY <2>0 DEF Ledger, Sends
        <5>2. Head(file.q) \in Agent!Events(file) => Head(file.q) \in Past' BY <2>0, <3>1, <5>1 DEF Past
        <5> QED BY <3>2, <4>2, <5>2
      <4> QED BY <4>1, <4>2
    <3>6. Stored(p, queued, Past') BY <1>a, <2>2, <3>2, <3>4, <3>5, StoredStays
    <3>7. Len(file.q) \in Nat /\ Len(p.q) \in Nat /\ MaxEvents \in Nat
      BY <1>a, <2>2, <3>2 DEF States, Agent!AgentOutboxAssumption
    <3>8. Len(p.q) <= MaxEvents BY <1>a, <2>2, <3>2, <3>7
    <3> QED BY <1>e, <2>0, <2>2, <2>a, <3>1, <3>2, <3>6, <3>8, CallLoads
  <2> QED BY <2>1, <2>2
<1>5. ASSUME NEW c \in Calls, Agent!OwnSent(c) \/ Agent!HeadFails(c) PROVE Ledger'
  <2>1. PICK label \in {"done", "size"} :
          /\ Agent!Goto(c, label) /\ pc[c] \in {"ownSent", "sending", "sent"}
          /\ UNCHANGED <<file, cur, buffer, accepted, stolen, queued>>
    BY <1>5 DEF Agent!OwnSent, Agent!HeadFails
  <2>2. pc'[c] = label BY <1>e, <2>1, GotoIs
  <2>3. Sends(c)' BY <2>1, <2>2 DEF Sends
  <2> QED BY <1>e, <2>1, <2>3, CallGoes
<1>6. ASSUME NEW c \in Calls, Agent!Size(c) PROVE Ledger'
  <2>1. PICK label \in {"failed", "own", "idle"} :
          /\ Agent!Goto(c, label) /\ (label = "failed" => file = Torn)
          /\ pc[c] = "size" /\ Agent!Loads(c)
          /\ UNCHANGED <<file, cur, buffer, accepted, stolen, queued>>
    BY <1>6 DEF Agent!Size
  <2>2. pc'[c] = label BY <1>e, <2>1, GotoIs
  <2>3. Sends(c)' BY <2>1, <2>2 DEF Sends
  <2>4. \A d \in Calls : d # c => pc[d] \notin InFile BY <1>c, <2>1
  <2> QED BY <1>e, <2>1, <2>3, <2>4, CallGoes
<1>7. ASSUME NEW c \in Calls, Agent!OwnFails(c) PROVE Ledger'
  <2>0. /\ UNCHANGED <<file, cur, accepted, stolen, queued>> /\ pc[c] \in {"own", "ownSent"} /\ c \in Reports
        /\ Agent!Loads(c) /\ Agent!Runs(c)
    BY <1>7 DEF Agent!OwnFails, AgentT
  <2>a. \A d \in Calls : d # c => pc[d] \notin InFile BY <1>c, <2>0
  <2>1. CASE file = Torn
    <3>1. Agent!Goto(c, "failed") /\ UNCHANGED buffer BY <1>7, <2>1 DEF Agent!OwnFails
    <3>2. pc'[c] = "failed" BY <1>e, <3>1, GotoIs
    <3>3. Sends(c)' BY <3>2 DEF Sends
    <3> QED BY <1>e, <2>0, <2>1, <2>a, <3>1, <3>3, CallGoes
  <2>2. CASE file # Torn
    <3> DEFINE n == Agent!Enqueued(file, c)
    <3>1. Agent!ToSave(c, "queueing", n) BY <1>7, <2>2 DEF Agent!OwnFails
    <3>2. n \in States /\ Len(n.q) <= MaxEvents BY <1>a, <2>0, <2>2, EnqueuedIs
    <3>3. Storing(n, c, queued, Past) BY <1>a, <1>b, <2>0, <2>2, EnqueuedIsStoring
    <3>4. file.gaps \subseteq n.gaps BY Zenon DEF Agent!Enqueued, Agent!Pruned
    <3> HIDE DEF n
    <3>5. Past' = Past BY <2>0 DEF Past
    <3> QED BY <1>e, <2>0, <2>2, <2>a, <3>1, <3>2, <3>3, <3>4, <3>5, CallLoads
  <2> QED BY <2>1, <2>2
<1>8. ASSUME NEW c \in Calls, Agent!Cut(c) PROVE Ledger'
  <2>1. PICK label \in Agent!Writing :
          /\ file' = Torn /\ UNCHANGED <<cur, buffer, accepted, stolen, queued>> /\ Agent!Goto(c, label)
          /\ \/ pc[c] = "pruning" /\ label = "pruneWrite"
             \/ pc[c] = "shifting" /\ label = "shiftWrite"
             \/ pc[c] = "queueing" /\ label = "queueWrite"
    BY <1>8 DEF Agent!Cut, Agent!Saving, Agent!Writing
  <2>2. label \in Labels BY DEF Labels
  <2>3. pc'[c] = label /\ \A d \in Calls : d # c => pc'[d] = pc[d] BY <2>1, <2>2, GotoIs
  <2>4. pc[c] \in InFile /\ file # Torn BY <2>1 DEF Agent!Saving, InFile, Ledger, Saves
  <2>5. \A d \in Calls : d # c => pc[d] \notin InFile BY <2>4 DEF Ledger
  <2>6. UNCHANGED Past BY <2>1 DEF Past
  <2>7. Saves(c) BY DEF Ledger
  <2>8. Saves(c)' BY <2>1, <2>3, <2>6, <2>7 DEF Saves, Agent!Saving, Agent!Writing
  <2>9. \A d \in Calls : d # c => Saves(d)' BY <2>3, <2>5 DEF Saves, InFile, Agent!Saving, Agent!Writing
  <2>10. \A d : Settled(d) => Settled(d)' BY <2>1, <2>3, <2>4, <2>6 DEF Settled
  <2>11. ASSUME NEW d \in Calls PROVE Sends(d)'
    <3>1. CASE d = c BY <2>3, <3>1 DEF Sends, Agent!Writing
    <3>2. CASE d # c
      <4>1. Sends(d) /\ pc'[d] = pc[d] BY <2>3, <3>2 DEF Ledger
      <4> QED BY <2>1, <2>10, <4>1 DEF Sends
    <3> QED BY <3>1, <3>2
  <2>12. \A d \in Calls : pc'[d] # "failed" BY <2>3, <2>4 DEF Ledger, Agent!Writing
  <2>13. \A d, e \in Calls : d = e \/ pc'[d] \notin InFile \/ pc'[e] \notin InFile BY <2>3, <2>5
  <2>14. \A d \in Calls : d \in Agent!ToSet(queued') => pc'[d] = "done"
    BY <2>1, <2>3 DEF Ledger
  <2>15. \A d : ~Precedes(d, d, queued') BY <2>1 DEF Ledger
  <2> QED BY <2>1, <2>8, <2>9, <2>11, <2>12, <2>13, <2>14, <2>15 DEF Ledger
<1>9. ASSUME NEW c \in Calls, Agent!Write(c) PROVE Ledger'
  <2>0. /\ file' = buffer[c] /\ UNCHANGED <<buffer, accepted, stolen>> /\ buffer[c] \in States
        /\ pc[c] \in Agent!Writing /\ pc[c] \in InFile
    BY <1>9 DEF Agent!Write, AgentT, InFile
  <2>a. \A d \in Calls : d # c => pc[d] \notin InFile BY <2>0 DEF Ledger
  <2>b. UNCHANGED Past BY <2>0 DEF Past
  <2>c. buffer[c] # Torn BY <2>0 DEF States, Agent!AgentOutboxAssumption
  <2>d. Saves(c) BY DEF Ledger
  <2>e. ASSUME UNCHANGED queued
        PROVE  /\ Agent!ToSet(queued) \subseteq Agent!ToSet(queued')
               /\ \A d : \A e \in Agent!ToSet(queued) : Precedes(d, e, queued') => Precedes(d, e, queued)
               /\ \A d \in Calls : d \in Agent!ToSet(queued') => pc[d] = "done"
               /\ \A d : ~Precedes(d, d, queued')
    BY <2>e DEF Ledger
  <2>1. CASE pc[c] = "pruneWrite" /\ Agent!SendFirst(c, buffer[c]) /\ UNCHANGED queued
    <3>1. Stored(buffer[c], queued, Past) BY <2>1, <2>d DEF Saves
    <3>2. /\ Sends(c)' /\ pc'[c] \in {"size", "sending"}
          /\ \A d \in Calls : d # c => pc'[d] = pc[d] /\ cur'[d] = cur[d]
      BY <1>d, <2>0, <2>1, <2>a, <3>1
    <3>3. pc'[c] \notin InFile \union {"failed"} BY <1>e, <3>2
    <3>4. \A d \in Calls : d \in Agent!ToSet(queued') => pc'[d] = "done" BY <2>1, <2>e, <3>2
    <3> QED BY <2>0, <2>1, <2>c, <2>e, <3>1, <3>2, <3>3, <3>4, CallSaves
  <2>2. CASE pc[c] = "shiftWrite" /\ Agent!Goto(c, "peek") /\ UNCHANGED <<cur, queued>>
    <3>1. Stored(buffer[c], queued, Past) BY <2>2, <2>d DEF Saves
    <3>2. pc'[c] = "peek" /\ \A d \in Calls : d # c => pc'[d] = pc[d] BY <1>e, <2>2, GotoIs
    <3>3. Sends(c)' /\ pc'[c] \notin InFile \union {"failed"} BY <1>e, <3>2 DEF Sends
    <3>4. \A d \in Calls : d \in Agent!ToSet(queued') => pc'[d] = "done" BY <2>2, <2>e, <3>2
    <3> QED BY <2>0, <2>2, <2>c, <2>e, <3>1, <3>2, <3>3, <3>4, CallSaves
  <2>3. CASE pc[c] = "queueWrite" /\ Agent!Goto(c, "done") /\ queued' = Append(queued, c) /\ UNCHANGED cur
    <3>0. c \in Reports /\ queued \in Seq(Reports) /\ c \notin Agent!ToSet(queued) BY <1>b, <2>3 DEF AgentT
    <3>1. Storing(buffer[c], c, queued, Past) BY <2>3, <2>d DEF Saves
    <3> DEFINE x == Append(queued, c)
    <3>2. Stored(buffer[c], x, Past) /\ Agent!ToSet(x) = Agent!ToSet(queued) \union {c}
      BY <3>0, <3>1, StoringIsStored
    <3>3. pc'[c] = "done" /\ \A d \in Calls : d # c => pc'[d] = pc[d] BY <1>e, <2>3, GotoIs
    <3>4. Sends(c)' /\ pc'[c] \notin InFile \union {"failed"} BY <1>e, <3>3 DEF Sends
    <3>5. \A d \in Calls : d \in Agent!ToSet(x) => pc'[d] = "done" BY <3>2, <3>3 DEF Ledger
    <3>6. /\ DOMAIN x = 1 .. Len(queued) + 1 /\ DOMAIN queued = 1 .. Len(queued)
          /\ Len(queued) \in Nat /\ x[Len(queued) + 1] = c
          /\ \A k \in DOMAIN queued : x[k] = queued[k]
      BY <3>0
    <3> HIDE DEF x
    <3>7. \A k \in DOMAIN queued : queued[k] # c BY <3>0, ToSetIs
    \* Only the last of the longer queue is new, and nothing comes after it.
    <3>8. ASSUME NEW d, NEW e \in Agent!ToSet(queued), Precedes(d, e, x) PROVE Precedes(d, e, queued)
      <4>1. PICK k \in DOMAIN x, l \in DOMAIN x : k < l /\ x[k] = d /\ x[l] = e BY <3>8 DEF Precedes
      <4>2. l # Len(queued) + 1 BY <3>0, <3>6, <4>1
      <4>3. k \in DOMAIN queued /\ l \in DOMAIN queued BY <3>6, <4>1, <4>2
      <4> QED BY <3>6, <4>1, <4>3 DEF Precedes
    <3>9. ASSUME NEW d, Precedes(d, d, x) PROVE FALSE
      <4>1. PICK k \in DOMAIN x, l \in DOMAIN x : k < l /\ x[k] = d /\ x[l] = d BY <3>9 DEF Precedes
      <4>2. k \in DOMAIN queued /\ x[k] = queued[k] BY <3>6, <4>1
      <4>3. d \in Agent!ToSet(queued) BY <4>1, <4>2, ToSetIs
      <4>4. Precedes(d, d, queued) BY <3>8, <3>9, <4>3
      <4> QED BY <4>4 DEF Ledger
    <3>10. queued' = x BY <2>3 DEF x
    <3> QED BY <2>0, <2>3, <2>c, <3>2, <3>3, <3>4, <3>5, <3>8, <3>9, <3>10, CallSaves
  <2> QED BY <1>9, <2>1, <2>2, <2>3 DEF Agent!Write
<1>10. ASSUME NEW e \in Calls, Agent!Expire(e) PROVE Ledger'
  <2>1. UNCHANGED <<file, pc, cur, buffer, accepted, stolen, queued>> BY <1>10 DEF Agent!Expire
  <2> QED BY <2>1 DEF Ledger, Saves, Sends, Settled, Past
\* The file stays as the process leaves it, and the others go on.
<1>11. ASSUME NEW c \in Calls, Agent!Kill(c) PROVE Ledger'
  <2>1. UNCHANGED <<file, cur, buffer, accepted, stolen, queued>> BY <1>11 DEF Agent!Kill
  <2>2. \A d \in Calls : pc'[d] = pc[d] \/ (pc'[d] \in {"dead", "idle"} /\ pc[d] \notin Agent!Over)
    BY <1>11 DEF Agent!Kill
  <2>3. UNCHANGED Past BY <2>1 DEF Past
  <2>4. \A d \in Calls : /\ pc'[d] \in InFile => pc'[d] = pc[d]
                         /\ pc'[d] = "failed" => pc[d] = "failed"
                         /\ pc[d] = "done" => pc'[d] = "done"
    BY <2>2 DEF InFile, Agent!Saving, Agent!Writing, Agent!Over
  <2>5. \A d : Settled(d) => Settled(d)' BY <2>1, <2>3, <2>4 DEF Settled
  <2>6. ASSUME NEW d \in Calls PROVE Saves(d)' /\ Sends(d)'
    <3>1. Saves(d) /\ Sends(d) BY DEF Ledger
    <3>2. CASE pc'[d] = pc[d] BY <2>1, <2>3, <2>5, <3>1, <3>2 DEF Saves, Sends
    <3>3. CASE pc'[d] \in {"dead", "idle"} BY <3>3 DEF Saves, Sends, Agent!Saving
    <3> QED BY <2>2, <3>2, <3>3
  <2> QED BY <2>1, <2>3, <2>4, <2>6 DEF Ledger
<1>12. CASE UNCHANGED Agent!vars BY <1>12 DEF Agent!vars, Ledger, Saves, Sends, Settled, Past
<1> QED
  BY <1>1, <1>2, <1>3, <1>4, <1>5, <1>6, <1>7, <1>8, <1>9, <1>10, <1>11, <1>12 DEF Agent!Next, Agent!Step

\* The ledger is kept until processes race for the file.
Kept == ~raced => Ledger

LEMMA KeptInvariant == ClientsSpec => []Kept
<1>1. Agent!Init => Kept BY LedgerInit DEF Kept
<1>2. AgentT /\ OneInside /\ Kept /\ [Agent!Next]_(Agent!vars) => Kept'
  <2> SUFFICES ASSUME AgentT, OneInside, Kept, [Agent!Next]_(Agent!vars), ~raced' PROVE Ledger'
    BY DEF Kept
  <2>1. ~raced BY RacedStays
  <2>2. Ledger BY <2>1 DEF Kept
  <2> QED BY <2>2, LedgerNext, AgentConstants
<1> QED BY <1>1, <1>2, AgentTInvariant, OneInsideInvariant, ClientsAreAgents, PTL

\* However many calls overlap, in however many processes, a checkpoint answered
\* "queued" is in the file, taken by the server, counted by a gap marker or
\* stolen by a shift that was for another, and a report fails only on a torn
\* file: until a process loads the file while another saves it.
THEOREM ReportsAreKept == ClientsSpec => []ReportsAreTrue
<1>1. Kept => ReportsAreTrue
  <2> SUFFICES ASSUME Kept, ~raced
               PROVE  /\ file # Torn =>
                           Agent!ToSet(queued)
                             \subseteq Agent!Events(file) \union accepted \union file.gaps \union stolen
                      /\ \A c \in Reports : pc[c] = "failed" => file = Torn
    BY DEF ReportsAreTrue, Agent!ReportsAreTrue
  <2>1. Reports \subseteq Calls BY AgentConstants DEF Agent!AgentOutboxAssumption
  <2>2. Ledger BY DEF Kept
  <2> QED BY <2>1, <2>2 DEF Ledger, Stored, Past
<1> QED BY <1>1, KeptInvariant, PTL

\* And no flush delivers a checkpoint before those that were queued earlier,
\* however many flushes overlap, but for those that a shift has stolen.
THEOREM FlushesInOrder == ClientsSpec => FlushIsFIFO
<1>1. Kept /\ [Agent!Next]_(Agent!vars) =>
        [\A c \in Calls :
           pc[c] = "sending" /\ pc'[c] = "sent" /\ file # Torn /\ ~raced =>
             \A d \in Reports : Agent!Before(d, cur[c]) => d \in accepted \union Agent!Gaps \union stolen]_(Agent!vars)
  <2> SUFFICES ASSUME Kept, NEW c \in Calls, pc[c] = "sending", file # Torn, ~raced, NEW d \in Reports,
                      Agent!Before(d, cur[c])
               PROVE  d \in accepted \union Agent!Gaps \union stolen
    OBVIOUS
  <2>1. Precedes(d, cur[c], queued) BY DEF Agent!Before, Precedes
  <2>2. Sends(c) BY DEF Kept, Ledger
  <2>3. d \in file.gaps \union Past BY <2>1, <2>2 DEF Sends, Settled
  <2> QED BY <2>3 DEF Past, Agent!Gaps
<1> QED BY <1>1, KeptInvariant, ClientsAreAgents, PTL DEF FlushIsFIFO, Agent!FlushIsFIFO
================================================================================
