---------------------------- MODULE AtLeastOnce ----------------------------
(***************************************************************************)
(* What NatsStreamManager.subscribe_to_shard promises its caller, without  *)
(* batches, acks and restarts: every message of the shard is handed to the *)
(* callback until a call returned for it and it is settled; then the       *)
(* callback never sees it again.  Messages come in the order of the shard, *)
(* and come again only for a cause: an ack wait that ran out.              *)
(*                                                                         *)
(* ShardConsumer implements it, and Delivery builds on it: once for the    *)
(* snapshotter, once for the gateway.                                      *)
(***************************************************************************)
EXTENDS Naturals

CONSTANT MaxPublished  \* bound: messages published to the shard

VARIABLES
    published,  \* messages of the shard so far
    times,      \* how many calls of the callback returned, per message
    settled,    \* the messages that will not be handed over again
    expiries,   \* ack waits that ran out, per message
    missed      \* messages whose callback raised or that a crash took away

record == <<times, settled, expiries, missed>>
vars   == <<published, record>>

Msgs == 1..MaxPublished

Fresh ==
    /\ times = [m \in Msgs |-> 0]
    /\ settled = {}
    /\ expiries = [m \in Msgs |-> 0]
    /\ missed = {}

Init == published = 0 /\ Fresh

Publish ==
    /\ published < MaxPublished
    /\ published' = published + 1
    /\ UNCHANGED record

(* A bug the properties must notice: messages in any order. *)
UnorderedTurn(m) ==
    /\ m <= published
    /\ m \notin settled
    /\ times[m] <= expiries[m]
    /\ m \in missed => expiries[m] > 0

(* The callback is called for m: all that is older had its turn, and if m  *)
(* had one, an ack wait ran out since.                                     *)
Turn(m) ==
    /\ m <= published
    /\ m \notin settled
    /\ \A k \in Msgs : k < m => times[k] > 0 \/ k \in missed
    /\ times[m] <= expiries[m]
    /\ m \in missed => expiries[m] > 0

(* It returns. *)
HandOver(m) ==
    /\ Turn(m)
    /\ times' = [times EXCEPT ![m] = @ + 1]
    /\ UNCHANGED <<published, settled, expiries, missed>>

(* It raises for m, or a crash takes the messages of S, delivered or in    *)
(* the middle of the callback, from the loop.                              *)
Miss(S) ==
    /\ \A m \in S : m <= published /\ m \notin settled
    /\ missed' = missed \cup S
    /\ UNCHANGED <<published, times, settled, expiries>>

(* A message the callback returned for is settled. *)
Settle(m) ==
    /\ times[m] > 0
    /\ settled' = settled \cup {m}
    /\ UNCHANGED <<published, times, expiries, missed>>

Expire(m) ==
    /\ m <= published
    /\ m \notin settled
    /\ expiries' = [expiries EXCEPT ![m] = @ + 1]
    /\ UNCHANGED <<published, times, settled, missed>>

Next ==
    \/ Publish
    \/ \E m \in Msgs : HandOver(m) \/ Settle(m) \/ Expire(m)
    \/ \E S \in SUBSET Msgs : Miss(S)

Spec == Init /\ [][Next]_vars

=============================================================================
