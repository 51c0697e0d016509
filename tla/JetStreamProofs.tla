-------------------------- MODULE JetStreamProofs --------------------------
(***************************************************************************)
(* What the operators of JetStream do to the record of a consumer, for     *)
(* every stream and every batch size: the lemmas that the proofs about the *)
(* services share.                                                         *)
(***************************************************************************)
EXTENDS JetStream, TLAPS

(* The three fields after each operator. *)
LEMMA NewConsumerFacts ==
    /\ NewConsumer.pending = {}
    /\ NewConsumer.due = {}
    /\ NewConsumer.acked = {}
    /\ \A S : NewConsumer \in Consumers(S)
  BY DEF NewConsumer, Consumers

LEMMA AckFacts ==
    ASSUME NEW S, NEW c \in Consumers(S), NEW m \in S
    PROVE  /\ AckMessage(c, m) \in Consumers(S)
           /\ AckMessage(c, m).pending = c.pending \ {m}
           /\ AckMessage(c, m).due = c.due \ {m}
           /\ AckMessage(c, m).acked = c.acked \cup {m}
  BY DEF AckMessage, Consumers

LEMMA ExpireFacts ==
    ASSUME NEW S, NEW c \in Consumers(S), NEW m \in S
    PROVE  /\ Expire(c, m) \in Consumers(S)
           /\ Expire(c, m).pending = c.pending \ {m}
           /\ Expire(c, m).due = c.due \cup {m}
           /\ Expire(c, m).acked = c.acked
  BY DEF Expire, Consumers

(* A fetch takes messages that are not pending or acknowledged, of the new *)
(* ones the oldest, and marks them pending.                                *)
LEMMA DeliverFacts ==
    ASSUME NEW n \in Nat, NEW size \in Nat, NEW c \in Consumers(1..n),
           NEW B \in Batches(c, n, size)
    PROVE  /\ B # {} /\ B \subseteq 1..n
           /\ B \cap c.pending = {} /\ B \cap c.acked = {}
           /\ \A m \in B \ c.due, k \in 1..n :
                k < m /\ k \notin c.pending /\ k \notin c.acked => k \in B
           /\ Deliver(c, B) \in Consumers(1..n)
           /\ Deliver(c, B).pending = c.pending \cup B
           /\ Deliver(c, B).due = c.due \ B
           /\ Deliver(c, B).acked = c.acked
  <1>1. /\ B # {} /\ B \subseteq 1..n
        /\ B \cap c.pending = {} /\ B \cap c.acked = {}
        /\ \A m \in B \ c.due, k \in 1..n :
             k < m /\ k \notin c.pending /\ k \notin c.acked => k \in B
    BY DEF Batches, Available
  <1> QED
    BY <1>1 DEF Deliver, Consumers

-----------------------------------------------------------------------------
(* The order of deliveries.                                                *)

(* Everything the server ever delivered to the consumer. *)
DeliveredTo(c) == c.pending \cup c.due \cup c.acked

(* It has no gaps. *)
IsPrefix(c) == \A m \in DeliveredTo(c), k \in Nat \ {0} :
                    k < m => k \in DeliveredTo(c)

(* It keeps none, and what a fetch delivers for the first time is beyond   *)
(* it.                                                                     *)
LEMMA DeliveryOrder ==
    ASSUME NEW n \in Nat, NEW size \in Nat, NEW c \in Consumers(1..n), IsPrefix(c),
           NEW B \in Batches(c, n, size)
    PROVE  /\ DeliveredTo(Deliver(c, B)) = DeliveredTo(c) \cup B
           /\ IsPrefix(Deliver(c, B))
           /\ \A m \in B \ c.due, k \in DeliveredTo(c) : k < m
  <1>1. /\ B \subseteq 1..n
        /\ B \cap c.pending = {} /\ B \cap c.acked = {}
        /\ \A m \in B \ c.due, k \in 1..n :
             k < m /\ k \notin c.pending /\ k \notin c.acked => k \in B
    BY DeliverFacts
  <1>2. DeliveredTo(Deliver(c, B)) = DeliveredTo(c) \cup B
    BY DeliverFacts DEF DeliveredTo
  <1>3. DeliveredTo(c) \subseteq 1..n
    BY DEF DeliveredTo, Consumers
  <1>4. \A m \in B \ c.due : m \notin DeliveredTo(c)
    BY <1>1 DEF DeliveredTo
  <1>5. ASSUME NEW m \in B \ c.due, NEW k \in DeliveredTo(c)
        PROVE  k < m
    <2>1. m \in 1..n /\ k \in 1..n
      BY <1>1, <1>3
    <2>2. ~(m < k) /\ m # k
      BY <1>4, <2>1 DEF IsPrefix
    <2> QED
      BY <2>1, <2>2
  <1>6. ASSUME NEW m \in DeliveredTo(c) \cup B, NEW k \in Nat \ {0}, k < m
        PROVE  k \in DeliveredTo(c) \cup B
    <2>1. CASE m \in DeliveredTo(c)
      BY <1>6, <2>1 DEF IsPrefix
    <2>2. CASE m \in B \ c.due
      <3>1. k \in 1..n
        BY <1>1, <1>6, <2>2
      <3> QED
        BY <1>1, <1>6, <2>2, <3>1 DEF DeliveredTo
    <2>3. c.due \subseteq DeliveredTo(c)
      BY DEF DeliveredTo
    <2> QED
      BY <2>1, <2>2, <2>3
  <1> QED
    BY <1>2, <1>5, <1>6 DEF IsPrefix

(* An ack or an ack wait moves a delivered message within the record.      *)
LEMMA DeliveredStays ==
    ASSUME NEW S, NEW c \in Consumers(S), NEW m \in DeliveredTo(c)
    PROVE  /\ m \in S
           /\ DeliveredTo(AckMessage(c, m)) = DeliveredTo(c)
           /\ DeliveredTo(Expire(c, m)) = DeliveredTo(c)
  <1>1. m \in S
    BY DEF DeliveredTo, Consumers
  <1> QED
    BY <1>1, AckFacts, ExpireFacts DEF DeliveredTo

(* The loop over a batch comes to a message that was delivered again, or   *)
(* to the oldest of the others when no such message is left.               *)
LEMMA NextFacts ==
    ASSUME NEW batch, NEW again, NEW m \in NextOf(batch, again)
    PROVE  /\ m \in batch
           /\ \A k \in batch : m \in again \/ (k \notin again /\ m <= k)
  BY DEF NextOf

=============================================================================
