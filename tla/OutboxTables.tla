--------------------------- MODULE OutboxTables ---------------------------
(***************************************************************************)
(* The two PostgreSQL tables behind every asynchronous effect of the       *)
(* server: outbox (one row per operation) and outbox_publications (one row *)
(* per realtime channel of a conversation.changed operation).  The module  *)
(* holds their state, the transactions that write a row and the passage of *)
(* time on available_at; the dispatchers of the worker extend it.          *)
(*                                                                         *)
(* available_at is abstracted to "now or earlier" (the item is in ready)   *)
(* or "later" (a lease or a back-off is running); a lease may end at any   *)
(* moment, also while the dispatcher that took it is still at work.        *)
(***************************************************************************)
EXTENDS Naturals, FiniteSets

CONSTANTS
  Ops,         \* operation ids
  Channels,    \* Centrifugo channels of conversations
  NoChannel,   \* the "channel" of a row that has no publications
  ChannelsOf,  \* the channels of an operation
  KindOf       \* what the operation's topic is to the dispatchers

\* message, metadata: conversation.changed, with and without a new message;
\* domain: any other topic meant for clients; reservedJob, exposedJob: a job
\* reference whose topic the realtime dispatcher excludes, or does not.
Kinds == {"message", "metadata", "domain", "reservedJob", "exposedJob"}

IsConversation(op) == KindOf[op] \in {"message", "metadata"}
IsJob(op) == KindOf[op] \in {"reservedJob", "exposedJob"}

ASSUME OutboxAssumption ==
  /\ NoChannel \notin Channels
  /\ ChannelsOf \in [Ops -> SUBSET Channels]
  /\ KindOf \in [Ops -> Kinds]
  /\ \A op \in Ops : ChannelsOf[op] # {} <=> IsConversation(op)

\* What a dispatcher claims: a publication, or a row without publications.
PublicationsOf(op) == {op} \X ChannelsOf[op]
ItemsOf(op) == IF IsConversation(op) THEN PublicationsOf(op)
                                     ELSE {<<op, NoChannel>>}
Items == UNION {ItemsOf(op) : op \in Ops}

VARIABLES
  committed,  \* operations whose rows a transaction has inserted
  pubDone,    \* publications with completed_at set
  rowDone,    \* outbox rows with completed_at set
  ready       \* items whose available_at has been reached

tableVars == <<committed, pubDone, rowDone, ready>>

TablesInit == committed = {} /\ pubDone = {} /\ rowDone = {} /\ ready = {}

ItemDone(i) == IF i[2] = NoChannel THEN i[1] \in rowDone ELSE i \in pubDone

\* Items a claim may take: not completed and available.
Claimable == {i \in ready : i[1] \in committed /\ ~ItemDone(i)}

\* A domain transaction inserts the row and its publications together; the
\* same operation recorded again conflicts and inserts nothing.
Record(op) ==
  /\ op \notin committed
  /\ committed' = committed \union {op}
  /\ ready' = ready \union ItemsOf(op)
  /\ UNCHANGED <<pubDone, rowDone>>

\* now() passes available_at.
BecomesAvailable(i) ==
  /\ i[1] \in committed /\ ~ItemDone(i) /\ i \notin ready
  /\ ready' = ready \union {i}
  /\ UNCHANGED <<committed, pubDone, rowDone>>

TablesTypeOK ==
  /\ committed \subseteq Ops
  /\ pubDone \subseteq Items
  /\ rowDone \subseteq Ops
  /\ ready \subseteq Items
===========================================================================
