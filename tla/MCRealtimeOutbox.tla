------------------------- MODULE MCRealtimeOutbox -------------------------
(***************************************************************************)
(* Instances of RealtimeOutbox: a message with two channels (the thread    *)
(* and one user), a metadata change with one, a domain row without         *)
(* publications.                                                           *)
(***************************************************************************)
EXTENDS RealtimeOutbox, TLC

CONSTANTS msg, meta, dom, thread, user

MCChannelsOf ==
  [op \in Ops |-> CASE op = msg -> {thread, user}
                    [] op = meta -> {thread}
                    [] op = dom -> {}]
MCKindOf ==
  [op \in Ops |-> CASE op = msg -> "message"
                    [] op = meta -> "metadata"
                    [] op = dom -> "domain"]
\* The dispatchers are alike; sound for safety properties.
DispatcherSymmetry == Permutations(Dispatchers)
===========================================================================
