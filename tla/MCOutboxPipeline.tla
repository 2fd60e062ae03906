-------------------------- MODULE MCOutboxPipeline --------------------------
(***************************************************************************)
(* Instances of OutboxPipeline: a message with two channels (the thread    *)
(* and one user), a metadata change with one, a domain row, and two job    *)
(* references: one of a topic the realtime dispatcher excludes, one of a   *)
(* topic it does not.                                                      *)
(***************************************************************************)
EXTENDS OutboxPipeline

CONSTANTS msg, meta, dom, standIn, intero, thread, user

MCChannelsOf ==
  [op \in Ops |-> CASE op = msg -> {thread, user}
                    [] op = meta -> {thread}
                    [] op \in {dom, standIn, intero} -> {}]
MCKindOf ==
  [op \in Ops |-> CASE op = msg -> "message"
                    [] op = meta -> "metadata"
                    [] op = dom -> "domain"
                    [] op = standIn -> "reservedJob"
                    [] op = intero -> "exposedJob"]
MCServedBy == [d \in JobDispatchers |-> {op \in Ops : IsJob(op)}]
=============================================================================
