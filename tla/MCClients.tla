------------------------------ MODULE MCClients ------------------------------
(***************************************************************************)
(* Instances of the clients' modules for TLC to check in one run: the      *)
(* coordinator of the web client's connection, the sync of one Thread's    *)
(* cache, the link previews that a message is shown with, and the outbox   *)
(* of the coding agent, whose calls run in its MCP process or, Elsewhere,  *)
(* in one of the command line.  The models share no state: a behaviour is  *)
(* one of one of them (`part` says of which) while the others rest as they *)
(* started.                                                                *)
(***************************************************************************)
EXTENDS RealtimeCoordinator

CONSTANTS
  NoCache, StartLoaded, PageLimit, MaxMessages, MaxRevision, MaxDeletes, MaxFaults, MaxDrops, MaxTouches,
  Calls, Reports, Terminal, Rejected, Elsewhere, Torn, MaxEvents, MaxRequestFailures, MaxKills,
  Links, NoMessage, MaxPreviewAttempts, MaxTroubles

VARIABLES
  part,
  rev, deleted, hints, cache, repairs, list, live, degraded, faults, drops, touches, skipped,
  file, pc, cur, buffer, accepted, old, queued, stolen, raced, requestFailures, kills,
  message, previewCache, unreachable, row, queue, attempt, at, urls, todo, found, troubles

Sync == INSTANCE ConversationSync
Agent == INSTANCE AgentOutbox WITH
  ProcessOf <- [c \in Calls |-> IF c \in Elsewhere THEN 2 ELSE 1],
  MaxFailures <- MaxRequestFailures, failures <- requestFailures
Preview == INSTANCE LinkPreviews WITH
  MaxAttempts <- MaxPreviewAttempts, cache <- previewCache

ASSUME SyncConstants == Sync!SyncAssumption
ASSUME AgentConstants == Agent!AgentOutboxAssumption
ASSUME PreviewConstants == Preview!PreviewAssumption

syncVars == <<rev, deleted, hints, cache, repairs, list, live, degraded, faults, drops, touches, skipped>>
agentVars == <<file, pc, cur, buffer, accepted, old, queued, stolen, raced, requestFailures, kills>>
previewVars ==
  <<message, previewCache, unreachable, row, queue, attempt, at, urls, todo, found, troubles>>
clientsVars == <<part, vars, syncVars, agentVars, previewVars>>

ClientsInit ==
  /\ part \in {"coordinator", "sync", "agent", "preview"}
  /\ Init /\ (part # "coordinator" => online)
  /\ Sync!Init /\ Agent!Init
  /\ Preview!Init /\ (part # "preview" => unreachable = {} /\ previewCache = {})

ClientsNext ==
  /\ UNCHANGED part
  /\ \/ part = "coordinator" /\ Next /\ UNCHANGED <<syncVars, agentVars, previewVars>>
     \/ part = "sync" /\ Sync!Next /\ UNCHANGED <<vars, agentVars, previewVars>>
     \/ part = "agent" /\ Agent!Next /\ UNCHANGED <<vars, syncVars, previewVars>>
     \/ part = "preview" /\ Preview!Next /\ UNCHANGED <<vars, syncVars, agentVars>>

ClientsSpec == ClientsInit /\ [][ClientsNext]_clientsVars

Of(p, A) == part = p /\ A

\* The fairness of every module.
ClientsFairness ==
  /\ WF_vars(Of("coordinator", SessionOk)) /\ WF_vars(Of("coordinator", RetryFires))
  /\ \A c \in Clients : WF_vars(Of("coordinator", Connected(c)))
  /\ \A v \in Views : WF_vars(Of("coordinator", Answer(v))) /\ WF_vars(Of("coordinator", Rerun(v)))
  /\ WF_syncVars(Of("sync", \E e \in hints : Sync!HandleHint(e)))
  /\ WF_syncVars(Of("sync", \E r \in repairs : Sync!RepairStep(r)))
  /\ WF_syncVars(Of("sync", Sync!ListServed)) /\ WF_syncVars(Of("sync", Sync!ListLands))
  /\ WF_syncVars(Of("sync", Sync!Poll)) /\ WF_syncVars(Of("sync", Sync!Recover \/ Sync!RecoverWithGap))
  /\ \A c \in Calls :
       /\ WF_agentVars(Of("agent", Agent!Step(c)))
       /\ c \in Rejected => WF_agentVars(Of("agent", Agent!Expire(c)))
       /\ WF_agentVars(Of("agent", \/ cur[c] \in Rejected /\ Agent!HeadFails(c)
                                   \/ c \in Rejected /\ Agent!OwnFails(c)))
  /\ WF_previewVars(Of("preview", Preview!Dispatch)) /\ WF_previewVars(Of("preview", Preview!Handle))

ClientsFairSpec == ClientsSpec /\ ClientsFairness

-----------------------------------------------------------------------------
\* The properties of the instances, stated there.
CacheIsPast == Sync!CacheIsPast
NoOtherMessageLost == Sync!NoOtherMessageLost
EventuallyRendered == Sync!EventuallyRendered
ReportsAreTrue == Agent!ReportsAreTrue
FlushIsFIFO == Agent!FlushIsFIFO
EventuallyAccounted == Agent!EventuallyAccounted
ImplementsPromise == Preview!ImplementsPromise

\* The type invariants of the modules.
ClientsTypeOK == TypeOK /\ Sync!SyncTypeOK /\ Agent!AgentTypeOK /\ Preview!PreviewTypeOK

\* EventuallyLive of RealtimeCoordinator, when that is the part that moves.
EventuallyLiveAgain == part = "coordinator" => EventuallyLive
=============================================================================
