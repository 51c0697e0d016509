------------------------ MODULE ShardConsumerProofs ------------------------
(***************************************************************************)
(* Proofs about ShardConsumer for every number of messages, batch size and *)
(* number of faults: its types, that a message is handled again only after *)
(* an ack wait ran out, that it overtakes an older one only if that one    *)
(* was missed, and that the loop implements AtLeastOnce.                   *)
(***************************************************************************)
EXTENDS ShardConsumer, JetStreamProofs, TLAPS

(* Everything the server ever delivered to the consumer. *)
Delivered == con.pending \cup con.due \cup con.acked

(* A message of the batch the callback has not returned for. *)
Todo(m) == m \in batch /\ m # acking

-----------------------------------------------------------------------------
(* The loop comes to a message of the batch, with no ack under way. *)
LEMMA CurrentFacts ==
    ASSUME TypeOK, NEW m, Current(m)
    PROVE  m \in batch /\ m \in 1..published /\ acking = NoMsg
  BY DEF Current, NextOf, TypeOK

(* A fetch takes into the batch messages that are not pending or           *)
(* acknowledged, of the new ones the oldest, and marks them pending.       *)
LEMMA FetchFacts ==
    ASSUME TypeOK, Fetch
    PROVE  /\ batch = {} /\ batch' # {}
           /\ batch' \subseteq 1..published
           /\ batch' \cap con.pending = {}
           /\ batch' \cap con.acked = {}
           /\ \A m \in batch' \ con.due, k \in 1..published :
                k < m /\ k \notin con.pending /\ k \notin con.acked => k \in batch'
           /\ again' = batch' \cap con.due
           /\ con' \in Consumers(1..published)
           /\ con'.pending = con.pending \cup batch'
           /\ con'.due = con.due \ batch'
           /\ con'.acked = con.acked
  <1> PICK B \in Batches(con, published, BatchSize) :
             con' = Deliver(con, B) /\ batch' = B /\ again' = B \cap con.due
    BY DEF Fetch
  <1>1. con \in Consumers(1..published) /\ published \in Nat /\ BatchSize \in Nat
    BY ConsumerAssumption DEF TypeOK
  <1> QED
    BY <1>1, DeliverFacts DEF Fetch

(* An ack, and an ack wait that runs out, on the server's record. *)
LEMMA AckEffect ==
    ASSUME TypeOK, NEW m \in Msgs, Ack(m)
    PROVE  /\ m \in 1..published
           /\ con' \in Consumers(1..published)
           /\ con'.pending = con.pending \ {m}
           /\ con'.due = con.due \ {m}
           /\ con'.acked = con.acked \cup {m}
  <1>1. m \in 1..published
    BY ConsumerAssumption DEF Ack, TypeOK, NoMsg, Msgs
  <1> QED
    BY <1>1, AckFacts DEF Ack, TypeOK

LEMMA ExpireEffect ==
    ASSUME TypeOK, NEW m \in Msgs, AckTimeout(m)
    PROVE  /\ m \in con.pending
           /\ m \in 1..published
           /\ con' \in Consumers(1..published)
           /\ con'.pending = con.pending \ {m}
           /\ con'.due = con.due \cup {m}
           /\ con'.acked = con.acked
  <1>1. m \in con.pending /\ m \in 1..published
    BY DEF AckTimeout, TypeOK, Consumers
  <1> QED
    BY <1>1, ExpireFacts DEF AckTimeout, TypeOK

-----------------------------------------------------------------------------
(* Type correctness, with the disjointness of the server's record. *)
THEOREM TypeCorrect == Spec => []TypeOK
  <1>1. Init => TypeOK
    <2> SUFFICES ASSUME Init PROVE TypeOK
      OBVIOUS
    <2>1. con \in Consumers(1..published)
      BY NewConsumerFacts DEF Init
    <2>2. con.pending = {} /\ con.due = {} /\ con.acked = {}
      BY NewConsumerFacts DEF Init
    <2>3. published \in 0..MaxPublished /\ faults \in 0..MaxFaults
      BY ConsumerAssumption DEF Init
    <2>4. up \in BOOLEAN /\ acking = NoMsg /\ again = {}
      BY DEF Init
    <2>5. handled \in [Msgs -> Nat] /\ expiries \in [Msgs -> Nat]
      BY DEF Init
    <2> QED
      BY <2>1, <2>2, <2>3, <2>4, <2>5 DEF Init, TypeOK
  <1>2. TypeOK /\ [Next]_vars => TypeOK'
    <2> SUFFICES ASSUME TypeOK, [Next]_vars
                 PROVE  TypeOK'
      OBVIOUS
    <2> USE ConsumerAssumption
    <2>1. CASE Publish
      <3>1. published' = published + 1 /\ published' \in 0..MaxPublished
        BY <2>1 DEF Publish, TypeOK
      <3>2. 1..published \subseteq 1..published'
        BY <3>1 DEF TypeOK
      <3>3. Consumers(1..published) \subseteq Consumers(1..published')
        BY <3>2 DEF Consumers
      <3> QED
        BY <2>1, <3>1, <3>2, <3>3 DEF Publish, TypeOK
    <2>2. CASE Fetch
      BY <2>2, FetchFacts DEF Fetch, TypeOK
    <2>3. ASSUME NEW m \in Msgs, Handle(m)
          PROVE  TypeOK'
      <3>1. m \in batch
        BY <2>3, CurrentFacts DEF Handle
      <3>2. acking' = m /\ batch' = batch /\ handled' \in [Msgs -> Nat]
        BY <2>3 DEF Handle, TypeOK
      <3> QED
        BY <2>3, <3>1, <3>2 DEF Handle, TypeOK
    <2>4. ASSUME NEW m \in Msgs, Fail(m)
          PROVE  TypeOK'
      <3>1. acking = NoMsg /\ m \in 1..published
        BY <2>4, CurrentFacts DEF Fail
      <3>2. faults' \in 0..MaxFaults
        BY <2>4 DEF Fail, Fault, TypeOK
      <3> QED
        BY <2>4, <3>1, <3>2 DEF Fail, TypeOK
    <2>5. ASSUME NEW m \in Msgs, Ack(m)
          PROVE  TypeOK'
      BY <2>5, AckEffect DEF Ack, TypeOK
    <2>6. ASSUME NEW m \in Msgs, LoseAck(m)
          PROVE  TypeOK'
      <3>1. faults' \in 0..MaxFaults
        BY <2>6 DEF LoseAck, Fault, TypeOK
      <3>2. acking' = NoMsg /\ batch' \subseteq batch
        BY <2>6 DEF LoseAck
      <3> QED
        BY <2>6, <3>1, <3>2 DEF LoseAck, TypeOK
    <2>7. ASSUME NEW m \in Msgs, AckTimeout(m)
          PROVE  TypeOK'
      <3>1. expiries' \in [Msgs -> Nat]
        BY <2>7 DEF AckTimeout, TypeOK
      <3>2. /\ con' \in Consumers(1..published)
            /\ con'.pending \cap con'.due = {}
            /\ (con'.pending \cup con'.due) \cap con'.acked = {}
        BY <2>7, ExpireEffect DEF TypeOK
      <3> QED
        BY <2>7, <3>1, <3>2 DEF AckTimeout, TypeOK
    <2>8. CASE Crash
      <3>1. faults' \in 0..MaxFaults
        BY <2>8 DEF Crash, Fault, TypeOK
      <3>2. /\ up' \in BOOLEAN /\ acking' = NoMsg
            /\ batch' = {} /\ again' = {}
        BY <2>8 DEF Crash
      <3> QED
        BY <2>8, <3>1, <3>2 DEF Crash, TypeOK
    <2>9. CASE Restart
      BY <2>9 DEF Restart, TypeOK
    <2>10. CASE UNCHANGED vars
      BY <2>10 DEF vars, TypeOK
    <2> QED
      BY <2>1, <2>2, <2>3, <2>4, <2>5, <2>6, <2>7, <2>8, <2>9, <2>10 DEF Next
  <1> QED
    BY <1>1, <1>2, PTL DEF Spec

-----------------------------------------------------------------------------
(* What the loop holds is not settled, and when it is about to ack, the    *)
(* callback returned for that very message.                                *)
Holding ==
    /\ batch \cap con.acked = {}
    /\ acking # NoMsg => handled[acking] > 0

LEMMA HoldingStep ==
    ASSUME TypeOK, Holding, [Next]_vars
    PROVE  Holding'
  <1>1. CASE Publish
    BY <1>1 DEF Publish, Holding
  <1>2. CASE Fetch
    <2>1. acking = NoMsg /\ acking' = acking
      BY <1>2, FetchFacts DEF Fetch, TypeOK
    <2> QED
      BY <1>2, <2>1, FetchFacts DEF Holding
  <1>3. ASSUME NEW m \in Msgs, Handle(m)
        PROVE  Holding'
    <2>1. /\ batch' = batch /\ con' = con
          /\ handled' = [handled EXCEPT ![m] = @ + 1]
          /\ acking' = m
      BY <1>3 DEF Handle
    <2>2. handled'[m] > 0
      BY <2>1 DEF TypeOK
    <2> QED
      BY <2>1, <2>2 DEF Holding
  <1>4. ASSUME NEW m \in Msgs, Fail(m)
        PROVE  Holding'
    BY <1>4 DEF Fail, Holding
  <1>5. ASSUME NEW m \in Msgs, Ack(m)
        PROVE  Holding'
    BY <1>5, AckEffect DEF Ack, Holding
  <1>6. ASSUME NEW m \in Msgs, LoseAck(m)
        PROVE  Holding'
    BY <1>6 DEF LoseAck, Holding
  <1>7. ASSUME NEW m \in Msgs, AckTimeout(m)
        PROVE  Holding'
    BY <1>7, ExpireEffect DEF AckTimeout, Holding
  <1>8. CASE Crash
    BY <1>8 DEF Crash, Holding
  <1>9. CASE Restart
    BY <1>9 DEF Restart, Holding
  <1>10. CASE UNCHANGED vars
    BY <1>10 DEF vars, Holding
  <1> QED
    BY <1>1, <1>2, <1>3, <1>4, <1>5, <1>6, <1>7, <1>8, <1>9, <1>10 DEF Next

-----------------------------------------------------------------------------
(* Why duplicates need a cause.  A message that a fetch can deliver again, *)
(* and one the callback has yet to return for, have each spared one ack    *)
(* wait that ran out; one that is both has spared two.                     *)
Sparing ==
    /\ batch \subseteq con.pending \cup con.due
    /\ \A m \in Msgs :
        /\ handled[m] <= 1 + expiries[m]
        /\ m \notin con.pending \cup con.acked => handled[m] <= expiries[m]
        /\ Todo(m) => handled[m] <= expiries[m]
        /\ Todo(m) /\ m \notin con.pending \cup con.acked
              => handled[m] + 1 <= expiries[m]

LEMMA SparingStep ==
    ASSUME TypeOK, Sparing, [Next]_vars
    PROVE  Sparing'
  <1>0. \A m \in Msgs : handled[m] \in Nat /\ expiries[m] \in Nat
    BY DEF TypeOK
  <1>1. CASE Publish \/ Restart \/ UNCHANGED vars
    BY <1>1 DEF Publish, Restart, vars, Sparing, Todo
  <1>2. CASE Fetch
    <2>1. /\ handled' = handled /\ expiries' = expiries
          /\ con'.pending = con.pending \cup batch'
          /\ con'.acked = con.acked
          /\ batch' \cap (con.pending \cup con.acked) = {}
      BY <1>2, FetchFacts DEF Fetch
    <2>2. \A m : Todo(m)' => m \in batch'
      BY DEF Todo
    <2> QED
      BY <1>0, <2>1, <2>2 DEF Sparing
  <1>3. ASSUME NEW m \in Msgs, Handle(m)
        PROVE  Sparing'
    <2>1. /\ batch' = batch /\ con' = con /\ expiries' = expiries
          /\ handled' = [handled EXCEPT ![m] = @ + 1]
          /\ Todo(m) /\ ~Todo(m)'
      BY <1>3, CurrentFacts DEF Handle, Todo, NoMsg, Msgs
    <2>2. \A k \in Msgs : k # m => (Todo(k)' => Todo(k))
      BY <1>3, CurrentFacts DEF Handle, Todo, NoMsg, Msgs
    <2>3. handled'[m] = handled[m] + 1
      BY <2>1 DEF TypeOK
    <2>4. \A k \in Msgs : k # m => handled'[k] = handled[k]
      BY <2>1 DEF TypeOK
    <2> QED
      BY <1>0, <2>1, <2>2, <2>3, <2>4 DEF Sparing
  <1>4. ASSUME NEW m \in Msgs, Fail(m) \/ LoseAck(m)
        PROVE  Sparing'
    <2>1. /\ batch' = batch \ {m} /\ con' = con
          /\ handled' = handled /\ expiries' = expiries
          /\ acking \in {NoMsg, m} /\ acking' = NoMsg
      BY <1>4, CurrentFacts DEF Fail, LoseAck
    <2>2. \A k \in Msgs : Todo(k)' => Todo(k)
      BY <2>1 DEF Todo, NoMsg, Msgs
    <2> QED
      BY <2>1, <2>2 DEF Sparing
  <1>5. ASSUME NEW m \in Msgs, Ack(m)
        PROVE  Sparing'
    <2>1. /\ batch' = batch \ {m} /\ acking = m
          /\ handled' = handled /\ expiries' = expiries
          /\ con'.pending = con.pending \ {m}
          /\ con'.due = con.due \ {m}
          /\ con'.acked = con.acked \cup {m}
      BY <1>5, AckEffect DEF Ack
    <2>2. \A k \in Msgs : Todo(k)' => Todo(k) /\ k # m
      BY <2>1 DEF Todo
    <2> QED
      BY <2>1, <2>2 DEF Sparing
  <1>6. ASSUME NEW m \in Msgs, AckTimeout(m)
        PROVE  Sparing'
    <2>1. /\ batch' = batch /\ acking' = acking /\ handled' = handled
          /\ expiries' = [expiries EXCEPT ![m] = @ + 1]
          /\ m \in con.pending
          /\ con'.pending = con.pending \ {m}
          /\ con'.due = con.due \cup {m}
          /\ con'.acked = con.acked
      BY <1>6, ExpireEffect DEF AckTimeout
    <2>2. \A k \in Msgs : Todo(k)' <=> Todo(k)
      BY <2>1 DEF Todo
    <2>3. expiries'[m] = expiries[m] + 1
      BY <2>1 DEF TypeOK
    <2>4. \A k \in Msgs : k # m => expiries'[k] = expiries[k]
      BY <2>1 DEF TypeOK
    <2> QED
      BY <1>0, <2>1, <2>2, <2>3, <2>4 DEF Sparing
  <1>7. CASE Crash
    BY <1>7 DEF Crash, Sparing, Todo
  <1> QED
    BY <1>1, <1>2, <1>3, <1>4, <1>5, <1>6, <1>7 DEF Next

(* The callback sees a message again only because an ack wait ran out.     *)
THEOREM DuplicatesHaveCause == Spec => []DuplicatesNeedCause
  <1>1. Init => Sparing
    BY NewConsumerFacts DEF Init, Sparing, Todo
  <1>2. TypeOK /\ Sparing /\ [Next]_vars => Sparing'
    BY SparingStep
  <1>3. Sparing => DuplicatesNeedCause
    BY DEF Sparing, DuplicatesNeedCause
  <1> QED
    BY <1>1, <1>2, <1>3, TypeCorrect, PTL DEF Spec

-----------------------------------------------------------------------------
(* Why overtaking needs a cause.  What was delivered is a prefix of the    *)
(* shard; a delivered message the callback never returned for is in the    *)
(* batch, with nothing younger handled, unless it was missed; so what is   *)
(* in the batch again, and all that is older, was handled or missed.       *)
InOrder ==
    /\ batch \subseteq Delivered
    /\ \A m \in Delivered, k \in Msgs : k < m => k \in Delivered
    /\ \A m \in Msgs : handled[m] > 0 => m \in Delivered
    /\ \A m \in con.acked : handled[m] > 0
    /\ \A k \in Delivered :
        handled[k] = 0 /\ k \notin missed
          => k \in batch /\ \A m \in Msgs : k < m => handled[m] = 0
    /\ \A m \in again, k \in Msgs :
        k <= m => handled[k] > 0 \/ k \in missed

LEMMA InOrderStep ==
    ASSUME TypeOK, Holding, InOrder, [Next]_vars
    PROVE  InOrder'
  <1>0. /\ \A m \in Msgs : handled[m] \in Nat
        /\ 1..published \subseteq Msgs
        /\ Delivered \subseteq Msgs
    BY ConsumerAssumption DEF TypeOK, Delivered, Consumers, Msgs
  <1>1. CASE Publish \/ Restart \/ UNCHANGED vars
    BY <1>1 DEF Publish, Restart, vars, InOrder, Delivered
  <1>2. CASE Fetch
    <2>1. /\ handled' = handled /\ missed' = missed
          /\ batch = {} /\ batch' \subseteq 1..published
          /\ Delivered' = Delivered \cup batch'
          /\ con'.acked = con.acked
      BY <1>2, FetchFacts DEF Fetch, Delivered
    <2>2. \A m \in batch', k \in Msgs : k < m => k \in Delivered'
      <3>1. \A m \in batch', k \in Msgs : k < m => k \in 1..published
        <4> SUFFICES ASSUME NEW m \in batch', NEW k \in Msgs, k < m
                     PROVE  k \in 1..published
          OBVIOUS
        <4>1. m \in 1..published /\ published \in Nat
          BY <2>1 DEF TypeOK
        <4> QED
          BY <4>1, ConsumerAssumption DEF Msgs
      <3>2. \A m \in batch' \ con.due, k \in 1..published :
              k < m /\ k \notin con.pending /\ k \notin con.acked => k \in batch'
        BY <1>2, FetchFacts
      <3>3. \A m \in con.due, k \in Msgs : k < m => k \in Delivered
        BY DEF InOrder, Delivered
      <3> QED
        BY <2>1, <3>1, <3>2, <3>3 DEF Delivered
    <2>3. ASSUME NEW k \in Delivered', handled'[k] = 0, k \notin missed'
          PROVE  k \in batch' /\ \A m \in Msgs : k < m => handled'[m] = 0
      <3>1. k \notin Delivered
        BY <2>1, <2>3 DEF InOrder
      <3>2. k \in batch' /\ k \in Msgs
        BY <1>0, <2>1, <2>3, <3>1
      <3>3. \A m \in Msgs : k < m => m \notin Delivered
        BY <3>1, <3>2 DEF InOrder
      <3>4. \A m \in Msgs : handled[m] > 0 => m \in Delivered
        BY DEF InOrder
      <3>5. \A m \in Msgs : k < m => handled[m] = 0
        BY <1>0, <3>3, <3>4
      <3> QED
        BY <2>1, <3>2, <3>5
    <2>4. ASSUME NEW m \in again', NEW k \in Msgs, k <= m
          PROVE  handled'[k] > 0 \/ k \in missed'
      <3>1. m \in con.due /\ m \in Delivered
        BY <1>2, FetchFacts DEF Delivered
      <3>2. k \in Delivered
        BY <1>0, <2>4, <3>1 DEF InOrder, Msgs
      <3>3. handled[k] # 0 \/ k \in missed
        BY <2>1, <3>2 DEF InOrder
      <3> QED
        BY <1>0, <2>1, <3>3
    <2> QED
      BY <2>1, <2>2, <2>3, <2>4 DEF InOrder
  <1>3. ASSUME NEW m \in Msgs, Handle(m)
        PROVE  InOrder'
    <2>1. /\ batch' = batch /\ con' = con /\ missed' = missed
          /\ again' = again /\ Current(m) /\ Delivered' = Delivered
      BY <1>3 DEF Handle, Delivered
    <2>2. /\ handled'[m] > 0
          /\ \A k \in Msgs : k # m => handled'[k] = handled[k]
      BY <1>3 DEF Handle, TypeOK
    <2>3. m \in Delivered
      BY <2>1, CurrentFacts DEF InOrder
    <2>4. ASSUME NEW k \in Delivered, handled'[k] = 0, k \notin missed
          PROVE  k \in batch /\ \A n \in Msgs : k < n => handled'[n] = 0
      <3>1. k \in Msgs /\ k # m /\ handled[k] = 0
        BY <1>0, <2>2, <2>4
      <3>2. k \in batch /\ \A n \in Msgs : k < n => handled[n] = 0
        BY <2>4, <3>1 DEF InOrder
      <3>3. ~(k < m)
        <4>1. CASE m \in again
          BY <1>0, <2>4, <3>1, <4>1 DEF InOrder, Msgs
        <4>2. CASE m \notin again
          BY <2>1, <3>1, <3>2, <4>2 DEF Current, NextOf, Msgs
        <4> QED
          BY <4>1, <4>2
      <3> QED
        BY <2>2, <3>2, <3>3
    <2>5. \A k \in Msgs : handled'[k] > 0 => k \in Delivered
      BY <2>2, <2>3 DEF InOrder
    <2>6. \A k \in con.acked : handled'[k] > 0
      <3>1. con.acked \subseteq Msgs
        BY <1>0 DEF Delivered
      <3> QED
        BY <2>2, <3>1 DEF InOrder
    <2>7. /\ batch \subseteq Delivered
          /\ \A n \in Delivered, k \in Msgs : k < n => k \in Delivered
      BY DEF InOrder
    <2>8. \A n \in again, k \in Msgs : k <= n => handled'[k] > 0 \/ k \in missed
      BY <2>2 DEF InOrder
    <2> QED
      BY <2>1, <2>4, <2>5, <2>6, <2>7, <2>8 DEF InOrder
  <1>4. ASSUME NEW m \in Msgs, Fail(m)
        PROVE  InOrder'
    BY <1>4 DEF Fail, InOrder, Delivered
  <1>5. ASSUME NEW m \in Msgs, Ack(m)
        PROVE  InOrder'
    <2>1. /\ batch' = batch \ {m} /\ handled' = handled /\ missed' = missed
          /\ con'.acked = con.acked \cup {m}
          /\ again' = again
          /\ handled[m] > 0
          /\ m \in batch
      BY <1>5, AckEffect DEF Ack, Holding, TypeOK, NoMsg, Msgs
    <2>2. Delivered' = Delivered
      <3>1. m \in Delivered
        BY <2>1 DEF InOrder
      <3> QED
        BY <1>5, <3>1, AckEffect DEF Delivered
    <2> QED
      BY <1>0, <2>1, <2>2 DEF InOrder
  <1>6. ASSUME NEW m \in Msgs, LoseAck(m)
        PROVE  InOrder'
    <2>1. /\ batch' = batch \ {m} /\ handled' = handled /\ missed' = missed
          /\ again' = again /\ con' = con /\ Delivered' = Delivered
          /\ handled[m] > 0
      BY <1>6 DEF LoseAck, Delivered, Holding, NoMsg, Msgs
    <2> QED
      BY <1>0, <2>1 DEF InOrder
  <1>7. ASSUME NEW m \in Msgs, AckTimeout(m)
        PROVE  InOrder'
    <2>1. /\ batch' = batch /\ again' = again
          /\ handled' = handled /\ missed' = missed
          /\ con'.acked = con.acked
          /\ Delivered' = Delivered
      BY <1>7, ExpireEffect DEF AckTimeout, Delivered
    <2> QED
      BY <2>1 DEF InOrder
  <1>8. CASE Crash
    BY <1>8 DEF Crash, InOrder, Delivered
  <1> QED
    BY <1>1, <1>2, <1>3, <1>4, <1>5, <1>6, <1>7, <1>8 DEF Next

(* First deliveries follow the order of the shard, but for the messages a  *)
(* failed callback or a crash skipped.                                     *)
THEOREM OvertakingHasCause == Spec => []OvertakingNeedsCause
  <1>1. Init => Holding /\ InOrder
    BY NewConsumerFacts DEF Init, Holding, InOrder, Delivered
  <1>2. TypeOK /\ Holding /\ InOrder /\ [Next]_vars => Holding' /\ InOrder'
    BY HoldingStep, InOrderStep
  <1>3. TypeOK /\ InOrder => OvertakingNeedsCause
    <2> SUFFICES ASSUME TypeOK, InOrder, NEW k \in Msgs, NEW m \in Msgs,
                        k < m, handled[m] > 0, handled[k] = 0
                 PROVE  k \in missed
      BY DEF OvertakingNeedsCause
    <2>1. k \in Delivered
      BY DEF InOrder
    <2>2. handled[m] # 0
      BY DEF TypeOK
    <2> QED
      BY <2>1, <2>2 DEF InOrder
  <1> QED
    BY <1>1, <1>2, <1>3, TypeCorrect, PTL DEF Spec

-----------------------------------------------------------------------------
(* Why a missed message needs an ack wait to come again: until one runs    *)
(* out it is pending, and a fetch passes over what is pending.             *)
Waiting ==
    /\ \A m \in con.due : expiries[m] > 0
    /\ \A m \in missed : expiries[m] = 0 => m \in con.pending \ batch

LEMMA WaitingStep ==
    ASSUME TypeOK, Sparing, Waiting, [Next]_vars
    PROVE  Waiting'
  <1>0. \A m \in batch : expiries[m] = 0 => m \in con.pending
    <2>1. batch \subseteq con.pending \cup con.due
      BY DEF Sparing
    <2>2. \A m \in con.due : expiries[m] # 0
      <3>1. con.due \subseteq Msgs
        BY ConsumerAssumption DEF TypeOK, Consumers, Msgs
      <3> QED
        BY <3>1 DEF Waiting, TypeOK
    <2> QED
      BY <2>1, <2>2
  <1>1. CASE Publish \/ Restart \/ UNCHANGED vars
    BY <1>1 DEF Publish, Restart, vars, Waiting
  <1>2. CASE Fetch
    BY <1>2, FetchFacts DEF Fetch, Waiting
  <1>3. ASSUME NEW m \in Msgs, Handle(m)
        PROVE  Waiting'
    BY <1>3 DEF Handle, Waiting
  <1>4. ASSUME NEW m \in Msgs, Fail(m)
        PROVE  Waiting'
    <2>1. m \in batch
      BY <1>4, CurrentFacts DEF Fail
    <2> QED
      BY <1>0, <1>4, <2>1 DEF Fail, Waiting
  <1>5. ASSUME NEW m \in Msgs, Ack(m)
        PROVE  Waiting'
    <2>1. /\ m \in batch /\ batch' = batch \ {m}
          /\ expiries' = expiries /\ missed' = missed
          /\ con'.pending = con.pending \ {m} /\ con'.due = con.due \ {m}
      BY <1>5, AckEffect DEF Ack, TypeOK, NoMsg, Msgs
    <2> QED
      BY <2>1 DEF Waiting
  <1>6. ASSUME NEW m \in Msgs, LoseAck(m)
        PROVE  Waiting'
    BY <1>6 DEF LoseAck, Waiting
  <1>7. ASSUME NEW m \in Msgs, AckTimeout(m)
        PROVE  Waiting'
    <2>1. /\ batch' = batch /\ missed' = missed
          /\ con'.pending = con.pending \ {m} /\ con'.due = con.due \cup {m}
          /\ expiries' = [expiries EXCEPT ![m] = @ + 1]
      BY <1>7, ExpireEffect DEF AckTimeout
    <2>2. /\ expiries'[m] > 0
          /\ \A k \in Msgs : k # m => expiries'[k] = expiries[k]
      BY <2>1 DEF TypeOK
    <2>3. con.due \subseteq Msgs /\ missed \subseteq Msgs
      BY ConsumerAssumption DEF TypeOK, Consumers, Msgs
    <2> QED
      BY <2>1, <2>2, <2>3 DEF Waiting
  <1>8. CASE Crash
    BY <1>0, <1>8 DEF Crash, Waiting
  <1> QED
    BY <1>1, <1>2, <1>3, <1>4, <1>5, <1>6, <1>7, <1>8 DEF Next

(* When the loop comes to a message, it is its turn in AtLeastOnce.        *)
LEMMA TurnFacts ==
    ASSUME TypeOK, Holding, Sparing, InOrder, Waiting, NEW m \in Msgs, Current(m)
    PROVE  Promise!Turn(m)
  <1>1. m \in batch /\ m \in 1..published /\ acking = NoMsg
    BY CurrentFacts
  <1>2. m <= published /\ m \notin con.acked
    BY <1>1 DEF TypeOK, Holding
  <1>3. handled[m] <= expiries[m]
    BY <1>1 DEF Sparing, Todo, NoMsg, Msgs
  <1>4. m \in missed => expiries[m] > 0
    BY <1>1 DEF Waiting, TypeOK
  <1>5. ASSUME NEW k \in Msgs, k < m
        PROVE  handled[k] > 0 \/ k \in missed
    <2>1. CASE m \in again
      BY <1>5, <2>1 DEF InOrder, Msgs
    <2>2. CASE m \notin again
      <3>1. k \notin batch
        BY <1>5, <2>2 DEF Current, NextOf, Msgs
      <3>2. k \in Delivered
        BY <1>1, <1>5 DEF InOrder
      <3>3. handled[k] # 0 \/ k \in missed
        BY <3>1, <3>2 DEF InOrder
      <3> QED
        BY <3>3 DEF TypeOK
    <2> QED
      BY <2>1, <2>2
  <1> QED
    BY <1>2, <1>3, <1>4, <1>5 DEF Promise!Turn, Promise!Msgs, Msgs

(* The fetch loop implements the promise of subscribe_to_shard: Handle is  *)
(* HandOver, Fail and Crash are Miss, Ack is Settle, and a fetch, a lost   *)
(* ack and a restart change nothing the promise speaks of.                 *)
THEOREM Implementation == Spec => ImplementsAtLeastOnce
  <1> DEFINE Inv == Holding /\ Sparing /\ InOrder /\ Waiting
  <1> USE DEF Msgs, Promise!Msgs
  <1>1. Init => Promise!Init
    BY NewConsumerFacts DEF Init, Promise!Init, Promise!Fresh
  <1>2. Init => Inv
    BY NewConsumerFacts
      DEF Init, Holding, Sparing, Todo, InOrder, Delivered, Waiting
  <1>3. TypeOK /\ Inv /\ [Next]_vars => Inv'
    BY HoldingStep, SparingStep, InOrderStep, WaitingStep
  <1>4. TypeOK /\ Inv /\ [Next]_vars => [Promise!Next]_(Promise!vars)
    <2> SUFFICES ASSUME TypeOK, Inv, [Next]_vars
                 PROVE  [Promise!Next]_(Promise!vars)
      OBVIOUS
    <2> USE DEF Promise!vars, Promise!record
    <2>1. CASE Publish
      BY <2>1 DEF Publish, Promise!Publish, Promise!Next
    <2>2. CASE Fetch
      BY <2>2, FetchFacts DEF Fetch
    <2>3. ASSUME NEW m \in Msgs, Handle(m)
          PROVE  [Promise!Next]_(Promise!vars)
      <3>1. Promise!Turn(m)
        BY <2>3, TurnFacts DEF Handle
      <3>2. Promise!HandOver(m)
        BY <2>3, <3>1 DEF Handle, Promise!HandOver
      <3> QED
        BY <3>2 DEF Promise!Next
    <2>4. ASSUME NEW m \in Msgs, Fail(m)
          PROVE  [Promise!Next]_(Promise!vars)
      <3>1. m <= published /\ m \notin con.acked
        BY <2>4, CurrentFacts DEF Fail, TypeOK, Holding
      <3>2. Promise!Miss({m})
        BY <2>4, <3>1 DEF Fail, Promise!Miss
      <3>3. {m} \in SUBSET Msgs
        OBVIOUS
      <3> QED
        BY <3>2, <3>3 DEF Promise!Next
    <2>5. ASSUME NEW m \in Msgs, Ack(m)
          PROVE  [Promise!Next]_(Promise!vars)
      <3>1. handled[m] > 0
        BY <2>5 DEF Ack, Holding, NoMsg
      <3>2. Promise!Settle(m)
        BY <2>5, <3>1, AckEffect DEF Ack, Promise!Settle
      <3> QED
        BY <3>2 DEF Promise!Next
    <2>6. ASSUME NEW m \in Msgs, LoseAck(m)
          PROVE  [Promise!Next]_(Promise!vars)
      BY <2>6 DEF LoseAck
    <2>7. ASSUME NEW m \in Msgs, AckTimeout(m)
          PROVE  [Promise!Next]_(Promise!vars)
      <3>1. m <= published /\ m \notin con.acked
        BY <2>7, ExpireEffect DEF TypeOK
      <3>2. con'.acked = con.acked
        BY <2>7, ExpireEffect
      <3>3. Promise!Expire(m)
        BY <2>7, <3>1, <3>2 DEF AckTimeout, Promise!Expire
      <3> QED
        BY <3>3 DEF Promise!Next
    <2>8. CASE Crash
      <3>1. batch \in SUBSET Msgs
        BY ConsumerAssumption DEF TypeOK
      <3>2. \A m \in batch : m <= published /\ m \notin con.acked
        BY DEF TypeOK, Holding
      <3>3. Promise!Miss(batch)
        BY <2>8, <3>2 DEF Crash, Promise!Miss
      <3> QED
        BY <3>1, <3>3 DEF Promise!Next
    <2>9. CASE Restart
      BY <2>9 DEF Restart
    <2>10. CASE UNCHANGED vars
      BY <2>10 DEF vars
    <2> QED
      BY <2>1, <2>2, <2>3, <2>4, <2>5, <2>6, <2>7, <2>8, <2>9, <2>10 DEF Next
  <1> QED
    BY <1>1, <1>2, <1>3, <1>4, TypeCorrect, PTL
      DEF Spec, ImplementsAtLeastOnce, Promise!Spec

=============================================================================
