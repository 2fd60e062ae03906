---------------------------- MODULE AtLeastOnce ----------------------------
(***************************************************************************)
(* What a transactional outbox promises: an item that a transaction has    *)
(* committed is handed to the receiver at least once, and is acknowledged  *)
(* (never looked at again) only after that.  Duplicates are allowed, loss  *)
(* is not.  The realtime dispatcher of the worker implements this, with    *)
(* Centrifugo as the receiver.                                             *)
(***************************************************************************)
CONSTANT Item

VARIABLES
  sent,        \* items committed to the outbox
  delivered,   \* items the receiver has accepted at least once
  acked        \* items the outbox will not offer again

vars == <<sent, delivered, acked>>

Init == sent = {} /\ delivered = {} /\ acked = {}

\* One transaction commits any number of items.
Send == /\ sent' \in SUBSET Item
        /\ sent \subseteq sent'
        /\ UNCHANGED <<delivered, acked>>

\* A delivery; delivering an item again is a stutter.
Deliver(i) == /\ i \in sent
              /\ delivered' = delivered \union {i}
              /\ UNCHANGED <<sent, acked>>

Ack(i) == /\ i \in delivered
          /\ acked' = acked \union {i}
          /\ UNCHANGED <<sent, delivered>>

Next == Send \/ \E i \in Item : Deliver(i) \/ Ack(i)

Spec == Init /\ [][Next]_vars
============================================================================
