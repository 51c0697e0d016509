--------------------------- MODULE DeliveryProofs ---------------------------
(***************************************************************************)
(* Proofs about Delivery, for every number of ticks, ack waits and faults: *)
(* its types, that nothing falls between a client's snapshot and its       *)
(* increments, and that the increments are in the order of the shard, but  *)
(* for redeliveries.                                                       *)
(***************************************************************************)
EXTENDS Delivery, TLAPS

(* What an operator of the gateway's AtLeastOnce does to its record. *)
LEMMA TurnFacts ==
    ASSUME NEW m \in Msgs, ToClients!Turn(m)
    PROVE  /\ m <= published
           /\ \A k \in Msgs : k < m => gtimes[k] > 0 \/ k \in gmissed
           /\ gtimes[m] <= gexpiries[m]
           /\ m \in gmissed => gexpiries[m] > 0
  BY DEF ToClients!Turn, ToClients!Msgs, Msgs

LEMMA HandOverFacts ==
    ASSUME TypeOK, NEW m \in Msgs, ToClients!HandOver(m)
    PROVE  /\ ToClients!Turn(m)
           /\ published' = published
           /\ gtimes' \in [Msgs -> Nat]
           /\ gtimes'[m] > 0
           /\ \A k \in Msgs : k # m => gtimes'[k] = gtimes[k]
           /\ UNCHANGED <<gsettled, gexpiries, gmissed>>
  <1>1. gtimes' = [gtimes EXCEPT ![m] = @ + 1]
    BY DEF ToClients!HandOver
  <1> QED
    BY <1>1 DEF ToClients!HandOver, TypeOK

LEMMA MissFacts ==
    ASSUME TypeOK, NEW S \in SUBSET Msgs, ToClients!Miss(S)
    PROVE  /\ gmissed' = gmissed \cup S
           /\ UNCHANGED <<published, gtimes, gsettled, gexpiries>>
  BY DEF ToClients!Miss

LEMMA FaultFacts ==
    ASSUME TypeOK, Fault
    PROVE  faults' \in 0..MaxFaults
  BY DeliveryAssumption DEF Fault, TypeOK

(* The actions that leave the gateway and the client alone: what they      *)
(* change keeps its type.                                                  *)
StoreStep ==
    \/ \E m \in Msgs : Record(m) \/ RecordFails(m) \/ SettleRecord(m) \/ ExpireRecord(m)
    \/ SnapshotterDies

LEMMA StoreStepFacts ==
    ASSUME TypeOK, StoreStep
    PROVE  /\ UNCHANGED <<published, gvars, cvars>>
           /\ stimes' \in [Msgs -> Nat] /\ sexpiries' \in [Msgs -> Nat]
           /\ ssettled' \subseteq Msgs /\ smissed' \subseteq Msgs
           /\ row' \in 0..published
           /\ faults' \in 0..MaxFaults
  <1>0. published \in Nat /\ row \in 0..published
    BY DEF TypeOK
  <1>1. ASSUME NEW m \in Msgs, Record(m) \/ RecordFails(m)
        PROVE  /\ UNCHANGED <<published, gvars, cvars>>
               /\ stimes' \in [Msgs -> Nat] /\ sexpiries' \in [Msgs -> Nat]
               /\ ssettled' \subseteq Msgs /\ smissed' \subseteq Msgs
               /\ row' \in 0..published
               /\ faults' \in 0..MaxFaults
    <2>1. /\ stimes' = [stimes EXCEPT ![m] = @ + 1]
          /\ UNCHANGED <<published, ssettled, sexpiries, smissed>>
          /\ m <= published
      BY <1>1 DEF Record, RecordFails, ToStore!HandOver, ToStore!Turn
    <2>2. row' \in {row, m} /\ faults' \in 0..MaxFaults
      BY <1>1, FaultFacts DEF Record, RecordFails, TypeOK
    <2>3. UNCHANGED <<gvars, cvars>>
      BY <1>1 DEF Record, RecordFails
    <2> QED
      BY <1>0, <2>1, <2>2, <2>3 DEF TypeOK, Msgs
  <1>2. ASSUME NEW m \in Msgs, SettleRecord(m)
        PROVE  /\ UNCHANGED <<published, gvars, cvars, stimes, sexpiries, smissed, row, faults>>
               /\ ssettled' \subseteq Msgs
    <2>1. ToStore!Settle(m) /\ UNCHANGED <<row, gvars, cvars, faults>>
      BY <1>2 DEF SettleRecord
    <2> QED
      BY <2>1 DEF ToStore!Settle, TypeOK
  <1>3. ASSUME NEW m \in Msgs, ExpireRecord(m)
        PROVE  /\ UNCHANGED <<published, gvars, cvars, stimes, ssettled, smissed, row>>
               /\ sexpiries' \in [Msgs -> Nat]
               /\ faults' \in 0..MaxFaults
    <2>1. /\ UNCHANGED <<published, gvars, cvars, stimes, ssettled, smissed, row>>
          /\ sexpiries' = [sexpiries EXCEPT ![m] = @ + 1]
      BY <1>3 DEF ExpireRecord, ToStore!Expire
    <2>2. faults' \in 0..MaxFaults
      BY <1>3, FaultFacts DEF ExpireRecord
    <2> QED
      BY <2>1, <2>2 DEF TypeOK
  <1>4. ASSUME SnapshotterDies
        PROVE  /\ UNCHANGED <<published, gvars, cvars, stimes, ssettled, sexpiries>>
               /\ smissed' \subseteq Msgs
               /\ row' \in 0..published
               /\ faults' \in 0..MaxFaults
    <2>1. PICK S \in SUBSET Msgs :
            /\ ToStore!Miss(S)
            /\ row' \in {row} \cup {m \in S : ToStore!Turn(m)}
      BY <1>4 DEF SnapshotterDies
    <2>2. row' \in 0..published
      BY <1>0, <2>1 DEF ToStore!Turn, Msgs
    <2>3. /\ UNCHANGED <<published, stimes, ssettled, sexpiries>>
          /\ smissed' \subseteq Msgs
      BY <2>1 DEF ToStore!Miss, TypeOK
    <2>4. faults' \in 0..MaxFaults /\ UNCHANGED <<gvars, cvars>>
      BY <1>4, FaultFacts DEF SnapshotterDies
    <2> QED
      BY <2>2, <2>3, <2>4
  <1> QED
    BY <1>1, <1>2, <1>3, <1>4 DEF StoreStep, TypeOK

(* No tick changes its number. *)
LEMMA NumbersStay ==
    ASSUME [Next]_vars
    PROVE  seq' = seq
  BY DEF Next, vars, Publish, Record, RecordFails, SettleRecord, ExpireRecord,
         SnapshotterDies, Broadcast, BroadcastRaises, SettleBroadcast,
         ExpireBroadcast, GatewayDies, PodReplaced, Subscribe, ReadSnapshot,
         SendSnapshot, Leave

-----------------------------------------------------------------------------
(* Every step keeps the types. *)
LEMMA TypeStays ==
    ASSUME TypeOK, [Next]_vars
    PROVE  TypeOK'
  <1>0. published \in Nat
    BY DEF TypeOK
  <1>n. seq' \in [Msgs -> Nat]
    BY NumbersStay DEF TypeOK
  <1>1. CASE Publish
    <2>1. /\ published' = published + 1 /\ published' \in 0..MaxPublished
          /\ UNCHANGED <<stimes, ssettled, sexpiries, smissed, row, gvars, cvars, faults>>
      BY <1>1, DeliveryAssumption
        DEF Publish, ToStore!Publish, ToClients!Publish, ToStore!record,
            ToClients!record, gvars, TypeOK
    <2>2. 1..published \subseteq 1..published' /\ 0..published \subseteq 0..published'
      BY <1>0, <2>1
    <2>3. \A m \in Msgs : gtimes[m] > 0 => m <= published'
      BY <1>0, <2>1 DEF TypeOK, Msgs
    <2> QED
      BY <1>n, <2>1, <2>2, <2>3 DEF TypeOK, gvars, cvars
  <1>2. CASE StoreStep
    BY <1>2, <1>n, StoreStepFacts DEF TypeOK, gvars, cvars
  <1>3. ASSUME NEW m \in Msgs, Broadcast(m)
        PROVE  TypeOK'
    <2>1. /\ ToClients!HandOver(m)
          /\ Send(m) \/ Withhold(m) \/ Ignore
          /\ UNCHANGED <<svars, faults>>
      BY <1>3 DEF Broadcast
    <2>2. m \in 1..published
      BY <1>0, <2>1, HandOverFacts, TurnFacts DEF Msgs
    <2>3. /\ phase' = phase /\ snapshot' = snapshot /\ before' = before
          /\ got' \subseteq 1..published /\ last' \in got' \cup {0}
          /\ withheld' \subseteq 1..published
      BY <2>1, <2>2 DEF Send, Withhold, Ignore, cvars, TypeOK
    <2>4. /\ published' = published /\ gtimes' \in [Msgs -> Nat]
          /\ UNCHANGED <<gsettled, gexpiries, gmissed>>
          /\ \A k \in Msgs : gtimes'[k] > 0 => k <= published
      BY <1>0, <2>1, <2>2, HandOverFacts DEF TypeOK
    <2> QED
      BY <1>n, <2>1, <2>3, <2>4 DEF TypeOK, svars
  <1>4. ASSUME NEW m \in Msgs, BroadcastRaises(m)
        PROVE  TypeOK'
    <2>1. /\ ToClients!Turn(m) /\ ToClients!Miss({m})
          /\ Send(m) \/ UNCHANGED cvars
          /\ UNCHANGED svars
          /\ faults' \in 0..MaxFaults
      BY <1>4, FaultFacts DEF BroadcastRaises
    <2>2. m \in 1..published
      BY <1>0, <2>1, TurnFacts DEF Msgs
    <2>3. /\ phase' = phase /\ snapshot' = snapshot /\ before' = before
          /\ got' \subseteq 1..published /\ last' \in got' \cup {0}
          /\ withheld' = withheld
      BY <2>1, <2>2 DEF Send, cvars, TypeOK
    <2>4. /\ UNCHANGED <<published, gtimes, gsettled, gexpiries>>
          /\ gmissed' \subseteq Msgs
      BY <2>1, MissFacts DEF TypeOK
    <2> QED
      BY <1>n, <2>1, <2>3, <2>4 DEF TypeOK, svars
  <1>5. ASSUME NEW m \in Msgs, SettleBroadcast(m) \/ ExpireBroadcast(m)
        PROVE  TypeOK'
    <2>1. /\ UNCHANGED <<published, gtimes, gmissed, svars, cvars, faults>>
          /\ \/ gsettled' = gsettled \cup {m} /\ gexpiries' = gexpiries
             \/ gsettled' = gsettled /\ gexpiries' = [gexpiries EXCEPT ![m] = @ + 1]
      BY <1>5 DEF SettleBroadcast, ExpireBroadcast, ToClients!Settle, ToClients!Expire
    <2>2. gsettled' \subseteq Msgs /\ gexpiries' \in [Msgs -> Nat]
      BY <2>1 DEF TypeOK
    <2> QED
      BY <1>n, <2>1, <2>2 DEF TypeOK, svars, cvars
  <1>6. CASE GatewayDies \/ PodReplaced
    <2>1. /\ Forget /\ faults' \in 0..MaxFaults /\ UNCHANGED <<published, svars>>
          /\ gtimes' \in [Msgs -> Nat] /\ gexpiries' \in [Msgs -> Nat]
          /\ gsettled' \subseteq Msgs /\ gmissed' \subseteq Msgs
          /\ \A k \in Msgs : gtimes'[k] > 0 => k <= published
      <3>1. CASE GatewayDies
        BY <3>1, FaultFacts, MissFacts DEF GatewayDies, TypeOK
      <3>2. CASE PodReplaced
        BY <3>2, FaultFacts DEF PodReplaced
      <3> QED
        BY <1>6, <3>1, <3>2
    <2> QED
      BY <1>n, <1>0, <2>1 DEF Forget, svars, TypeOK
  <1>7. CASE Subscribe
    <2>1. before' \subseteq 1..published
      BY <1>0, <1>7 DEF Subscribe, TypeOK, Msgs
    <2> QED
      BY <1>n, <1>7, <2>1 DEF Subscribe, svars, gvars, TypeOK
  <1>8. CASE ReadSnapshot \/ SendSnapshot
    <2>1. snapshot' \in 0..published /\ faults' \in 0..MaxFaults
      BY <1>0, <1>8, FaultFacts DEF ReadSnapshot, SendSnapshot, TypeOK
    <2> QED
      BY <1>n, <1>8, <2>1 DEF ReadSnapshot, SendSnapshot, svars, gvars, TypeOK
  <1>9. CASE Leave
    BY <1>0, <1>9, <1>n DEF Leave, Forget, svars, gvars, TypeOK
  <1>10. CASE UNCHANGED vars
    BY <1>10, <1>n DEF vars, svars, gvars, cvars, TypeOK
  <1> QED
    BY <1>1, <1>2, <1>3, <1>4, <1>5, <1>6, <1>7, <1>8, <1>9, <1>10
      DEF Next, StoreStep

(* Type correctness. *)
THEOREM TypeCorrect == Spec => []TypeOK
  <1>1. Init => TypeOK
    BY DeliveryAssumption
      DEF Init, ToStore!Init, ToClients!Init, ToStore!Fresh, ToClients!Fresh,
          ToStore!Msgs, ToClients!Msgs, Msgs, TypeOK
  <1>2. TypeOK /\ [Next]_vars => TypeOK'
    BY TypeStays
  <1> QED
    BY <1>1, <1>2, PTL DEF Spec

-----------------------------------------------------------------------------
(* What a client joins: everything handed over is from before its          *)
(* subscription, or was sent to it or withheld from it.                    *)
Joined ==
    phase # "away" =>
        \A m \in Msgs : gtimes[m] > 0 => m \in before \cup got \cup withheld

(* What is behind the last increment of a client had its turn: it was      *)
(* handed over, or the callback raised or a crash came for it.             *)
Past ==
    last # 0 => \A k \in Msgs : k < last => gtimes[k] > 0 \/ k \in gmissed

(* Both speak of the gateway's record and the client: no other action      *)
(* changes these, and every way out forgets the client.                    *)
LEMMA OtherSteps ==
    ASSUME TypeOK,
           \/ Publish \/ StoreStep \/ GatewayDies \/ PodReplaced \/ Leave
           \/ UNCHANGED vars
    PROVE  UNCHANGED <<gvars, cvars>> \/ (phase' = "away" /\ last' = 0)
  <1>1. CASE Publish
    BY <1>1 DEF Publish, ToStore!Publish, ToClients!Publish, ToStore!record,
                ToClients!record, gvars
  <1>2. CASE StoreStep
    BY <1>2, StoreStepFacts
  <1>3. CASE GatewayDies \/ PodReplaced \/ Leave
    BY <1>3 DEF GatewayDies, PodReplaced, Leave, Forget
  <1>4. CASE UNCHANGED vars
    BY <1>4 DEF vars
  <1> QED
    BY <1>1, <1>2, <1>3, <1>4

LEMMA JoinedStep ==
    ASSUME TypeOK, Joined, [Next]_vars
    PROVE  Joined'
  <1>1. CASE \/ Publish \/ StoreStep \/ GatewayDies \/ PodReplaced \/ Leave
             \/ UNCHANGED vars
    BY <1>1, OtherSteps DEF Joined, gvars, cvars
  <1>2. ASSUME NEW m \in Msgs, Broadcast(m)
        PROVE  Joined'
    <2>1. \A k \in Msgs : k # m => gtimes'[k] = gtimes[k]
      BY <1>2, HandOverFacts DEF Broadcast
    <2>2. CASE Send(m) \/ Withhold(m)
      BY <2>1, <2>2 DEF Send, Withhold, Listening, Joined
    <2>3. CASE Ignore
      BY <2>3 DEF Ignore, Listening, Joined, cvars
    <2> QED
      BY <1>2, <2>2, <2>3 DEF Broadcast
  <1>3. ASSUME NEW m \in Msgs, BroadcastRaises(m)
        PROVE  Joined'
    <2>1. gtimes' = gtimes
      BY <1>3, MissFacts DEF BroadcastRaises
    <2>2. /\ phase' = phase /\ got \subseteq got'
          /\ before' = before /\ withheld' = withheld
      BY <1>3 DEF BroadcastRaises, Send, cvars
    <2> QED
      BY <2>1, <2>2 DEF Joined
  <1>4. ASSUME NEW m \in Msgs, SettleBroadcast(m) \/ ExpireBroadcast(m)
        PROVE  Joined'
    BY <1>4 DEF SettleBroadcast, ExpireBroadcast, ToClients!Settle,
                ToClients!Expire, Joined, cvars
  <1>5. CASE Subscribe
    BY <1>5 DEF Subscribe, Joined, gvars
  <1>6. CASE ReadSnapshot \/ SendSnapshot
    BY <1>6 DEF ReadSnapshot, SendSnapshot, Joined, gvars
  <1> QED
    BY <1>1, <1>2, <1>3, <1>4, <1>5, <1>6 DEF Next, StoreStep

(* A client with a snapshot as new as what was broadcast before it         *)
(* subscribed has every tick broadcast since, but for those withheld: the  *)
(* order of _handle_subscribe, first subscribe, then read.                 *)
THEOREM NothingBetween == Spec => []NoGap
  <1>1. Init => Joined
    BY DEF Init, Joined
  <1>2. TypeOK /\ Joined /\ [Next]_vars => Joined'
    BY JoinedStep
  <1>3. Joined => NoGap
    BY DEF Joined, NoGap, CaughtUp, Has
  <1> QED
    BY <1>1, <1>2, <1>3, TypeCorrect, PTL DEF Spec

LEMMA PastStep ==
    ASSUME TypeOK, Past, [Next]_vars
    PROVE  Past' /\ (last' \in 1..(last - 1) => gexpiries[last'] > 0)
  <1>0. last \in Nat /\ \A k \in Msgs : gtimes[k] \in Nat /\ gexpiries[k] \in Nat
    BY DEF TypeOK
  <1>1. CASE \/ Publish \/ StoreStep \/ GatewayDies \/ PodReplaced \/ Leave
             \/ UNCHANGED vars
    BY <1>0, <1>1, OtherSteps DEF Past, gvars, cvars
  <1>2. ASSUME NEW m \in Msgs, ToClients!Turn(m), m < last
        PROVE  gexpiries[m] > 0
    BY <1>0, <1>2, TurnFacts DEF Past, Msgs
  <1>3. ASSUME NEW m \in Msgs, Broadcast(m)
        PROVE  Past' /\ (last' \in 1..(last - 1) => gexpiries[last'] > 0)
    <2>1. /\ ToClients!Turn(m)
          /\ gtimes'[m] > 0 /\ gmissed' = gmissed
          /\ \A k \in Msgs : k # m => gtimes'[k] = gtimes[k]
      BY <1>3, HandOverFacts DEF Broadcast
    <2>2. last' \in {last, m}
      BY <1>3 DEF Broadcast, Send, Withhold, Ignore, cvars
    <2>3. \A k \in Msgs : k < m => gtimes[k] > 0 \/ k \in gmissed
      BY <2>1, TurnFacts
    <2> QED
      BY <1>0, <1>2, <2>1, <2>2, <2>3 DEF Past, Msgs
  <1>4. ASSUME NEW m \in Msgs, BroadcastRaises(m)
        PROVE  Past' /\ (last' \in 1..(last - 1) => gexpiries[last'] > 0)
    <2>1. /\ ToClients!Turn(m)
          /\ gtimes' = gtimes /\ gmissed \subseteq gmissed'
      BY <1>4, MissFacts DEF BroadcastRaises
    <2>2. last' \in {last, m}
      BY <1>4 DEF BroadcastRaises, Send, cvars
    <2>3. \A k \in Msgs : k < m => gtimes[k] > 0 \/ k \in gmissed
      BY <2>1, TurnFacts
    <2> QED
      BY <1>0, <1>2, <2>1, <2>2, <2>3 DEF Past, Msgs
  <1>5. ASSUME NEW m \in Msgs, SettleBroadcast(m) \/ ExpireBroadcast(m)
        PROVE  Past' /\ (last' \in 1..(last - 1) => gexpiries[last'] > 0)
    <2>1. UNCHANGED <<gtimes, gmissed, last>>
      BY <1>5 DEF SettleBroadcast, ExpireBroadcast, ToClients!Settle,
                  ToClients!Expire, cvars
    <2> QED
      BY <1>0, <2>1 DEF Past
  <1>6. CASE Subscribe \/ ReadSnapshot \/ SendSnapshot
    BY <1>0, <1>6 DEF Subscribe, ReadSnapshot, SendSnapshot, Past, gvars
  <1> QED
    BY <1>1, <1>3, <1>4, <1>5, <1>6 DEF Next, StoreStep

(* On one connection the numbers of the increments go back only with a     *)
(* tick whose ack wait ran out, or as the shard itself has them, whatever  *)
(* is lost, raised or replayed.                                            *)
THEOREM InOrder == Spec => IncrementsInOrder
  <1>1. Init => Past
    BY DEF Init, Past
  <1>2. TypeOK /\ Past /\ [Next]_vars => Past'
    BY PastStep
  <1>3. TypeOK /\ Past /\ [Next]_vars
        => [last # 0 /\ last' # 0 /\ seq'[last'] < seq[last]
              => gexpiries[last'] > 0 \/ last < last']_vars
    <2> SUFFICES ASSUME TypeOK, TypeOK', Past, [Next]_vars, last # 0, last' # 0,
                        seq'[last'] < seq[last], ~(last < last')
                 PROVE  gexpiries[last'] > 0
      BY TypeStays
    <2>1. last \in Msgs /\ last' \in Msgs /\ Msgs \subseteq Nat
      <3>1. last \in 1..published /\ published \in 0..MaxPublished
        BY DEF TypeOK
      <3>2. last' \in 1..published' /\ published' \in 0..MaxPublished
        BY DEF TypeOK
      <3> QED
        BY <3>1, <3>2, DeliveryAssumption DEF Msgs
    <2>2. last' # last
      BY <2>1, NumbersStay DEF TypeOK
    <2>3. last' \in 1..(last - 1)
      BY <2>1, <2>2 DEF Msgs
    <2> QED
      BY <2>3, PastStep
  <1> QED
    BY <1>1, <1>2, <1>3, TypeCorrect, PTL DEF Spec, IncrementsInOrder

=============================================================================
