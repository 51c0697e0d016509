-------------------------- MODULE SnapshotterProofs --------------------------
(***************************************************************************)
(* Proofs about Snapshotter, for all products, ticks and sizes of batches, *)
(* and every number of faults of the loop and of the store: its types,     *)
(* that its fetch task is the loop of ShardConsumer, and what the rows and *)
(* the snapshots say of the ticks.                                         *)
(***************************************************************************)
EXTENDS Snapshotter, JetStreamProofs, TLAPS

States == [last_seq : Nat, last : 0..MaxPublished, side : [Sides -> 0..MaxPublished]]

(* A product without a state is told from one with a state by the tick it  *)
(* was last updated with.                                                  *)
Tables == {t \in [Products -> States] :
               \A p \in Products : t[p] = NoState \/ t[p].last > 0}

(* The types in three parts: the loop,                                     *)
LoopTyped ==
    /\ ticks \in Seq(Ticks) /\ Len(ticks) <= MaxPublished
    /\ con \in Consumers(DOMAIN ticks)
    /\ batch \subseteq con.pending \cup con.due
    /\ again \subseteq DOMAIN ticks
    /\ phase \in {"idle", "upsert", "insert", "publish", "ack"}
    /\ IF phase = "idle" THEN at = NoMsg ELSE at \in NextOf(batch, again)
    /\ up \in BOOLEAN
    /\ ~up => phase = "idle"
    /\ expiries \in [Msgs -> Nat]

(* the dicts in memory and the periodic task,                              *)
DictTyped ==
    /\ states \in Tables
    /\ order \in Seq(Products)
    /\ fresh \in [Products -> BOOLEAN]
    /\ sent \in [Products -> Nat]
    /\ walk \in [key : Nat, used : Nat]
    /\ \A p \in Products : (\E k \in DOMAIN order : order[k] = p)
                                <=> states[p] # NoState
    /\ \A j, k \in DOMAIN order : order[j] = order[k] => j = k
    /\ \A p \in Products : fresh[p] => states[p] # NoState
    /\ walk = Asleep \/ walk.key \in 1..walk.used
    /\ walk.used <= Len(order)
    /\ phase # "idle" => states[Product(at)].last = at

(* and the store.                                                          *)
StoreTyped ==
    /\ ready \in BOOLEAN
    /\ phase \in {"upsert", "insert"} => ready
    /\ row \in Tables
    /\ rows \in [Msgs -> Nat]

Typed == LoopTyped /\ DictTyped /\ StoreTyped

-----------------------------------------------------------------------------
(* The loop.                                                               *)

LEMMA TickFacts ==
    ASSUME LoopTyped
    PROVE  /\ Len(ticks) \in Nat /\ Len(ticks) <= MaxPublished /\ MaxPublished \in Nat
           /\ DOMAIN ticks = 1..Len(ticks)
           /\ DOMAIN ticks \subseteq Msgs /\ Msgs \subseteq 0..MaxPublished
           /\ \A m \in DOMAIN ticks : /\ Product(m) \in Products /\ ticks[m].seq \in Nat
                                      /\ ticks[m].sides \subseteq Sides
  <1>1. /\ Len(ticks) \in Nat /\ DOMAIN ticks = 1..Len(ticks)
        /\ \A m \in DOMAIN ticks : ticks[m] \in Ticks
    BY DEF LoopTyped
  <1>2. Len(ticks) <= MaxPublished /\ MaxPublished \in Nat
    BY SnapshotterAssumption DEF LoopTyped
  <1> QED
    BY <1>1, <1>2 DEF Msgs, Product, Ticks

(* A tick stays what it was.                                               *)
LEMMA TicksGrow ==
    ASSUME LoopTyped, [Next]_vars
    PROVE  /\ ticks' \in Seq(Ticks) /\ Len(ticks') <= MaxPublished
           /\ DOMAIN ticks \subseteq DOMAIN ticks'
           /\ \A m \in DOMAIN ticks : ticks'[m] = ticks[m] /\ Product(m)' = Product(m)
  <1>1. CASE Publish
    <2>1. PICK s \in Shards : ticks' = Append(ticks, s[Len(ticks) + 1])
      BY <1>1 DEF Publish
    <2>2. s \in Seq(Ticks) /\ Len(s) = MaxPublished /\ Len(ticks) < MaxPublished
      BY <1>1, SnapshotterAssumption DEF Publish
    <2>3. s[Len(ticks) + 1] \in Ticks
      BY <2>2, TickFacts
    <2>4. /\ ticks' \in Seq(Ticks) /\ Len(ticks') = Len(ticks) + 1
          /\ DOMAIN ticks' = 1..Len(ticks') /\ DOMAIN ticks = 1..Len(ticks)
          /\ \A m \in 1..Len(ticks) : ticks'[m] = ticks[m]
      BY <2>1, <2>3 DEF LoopTyped
    <2> QED
      BY <2>2, <2>4, TickFacts DEF Product
  <1>2. CASE ~Publish
    <2>1. ticks' = ticks
      BY <1>2 DEF Next, vars, shardVars, Fetch, Wake, WalkOn, WalkFails, Disconnect,
                  Crash, Restart, Elapse, Update, Upsert, UpsertFails, Insert,
                  InsertFails, PublishSnapshot, Ack, LoseAck, AckTimeout
    <2> QED
      BY <2>1 DEF LoopTyped, Product
  <1> QED
    BY <1>1, <1>2

(* The message that _process_tick works on.                                *)
LEMMA AtFacts ==
    ASSUME LoopTyped, phase # "idle"
    PROVE  /\ at \in NextOf(batch, again) /\ at \in batch
           /\ at \in DOMAIN ticks /\ at \in Msgs /\ at # NoMsg
           /\ Product(at) \in Products
           /\ up
  <1>1. at \in NextOf(batch, again) /\ at \in batch
    BY NextFacts DEF LoopTyped
  <1>2. at \in DOMAIN ticks
    BY <1>1 DEF LoopTyped, Consumers
  <1> QED
    BY <1>1, <1>2, TickFacts DEF Msgs, NoMsg, LoopTyped

LEMMA TurnFacts ==
    ASSUME LoopTyped, NEW m, Turn(m)
    PROVE  /\ m \in NextOf(batch, again) /\ m \in batch
           /\ m \in DOMAIN ticks /\ m \in Msgs /\ m # NoMsg
           /\ Product(m) \in Products
           /\ at = NoMsg /\ phase = "idle"
  <1>1. m \in NextOf(batch, again) /\ m \in batch
    BY NextFacts DEF Turn
  <1>2. m \in DOMAIN ticks
    BY <1>1 DEF LoopTyped, Consumers
  <1>3. at = NoMsg /\ phase = "idle"
    BY AtFacts DEF Turn
  <1> QED
    BY <1>1, <1>2, <1>3, TickFacts DEF Msgs, NoMsg

(* A step within _process_tick goes on, or returns, and changes neither    *)
(* the batch nor the record of the server.                                 *)
LEMMA SnapshotIfDueFacts ==
    ASSUME NEW m, SnapshotIfDue(m)
    PROVE  \/ phase' = "ack" /\ Return(m)
           \/ phase' = "publish" /\ handled' = handled /\ ~fresh[Product(m)]
  BY DEF SnapshotIfDue, Return

LEMMA WritesFacts ==
    ASSUME NEW m, Writes(m)
    PROVE  \/ /\ phase' = "upsert" /\ ready
              /\ UNCHANGED <<handled, behind, unrecorded>>
           \/ /\ SnapshotIfDue(m)
              /\ behind' = behind \cup {Product(m)}
              /\ unrecorded' = unrecorded \cup {m}
  BY DEF Writes

LEMMA FetchEffect ==
    ASSUME LoopTyped, Fetch
    PROVE  /\ \E B \in Batches(con, Len(ticks), BatchSize) :
                con' = Deliver(con, B) /\ batch' = B /\ again' = B \cap con.due
           /\ batch = {} /\ batch' \subseteq DOMAIN ticks
           /\ batch' \cap con.pending = {} /\ batch' \cap con.acked = {}
           /\ again' = batch' \cap con.due
           /\ con' \in Consumers(DOMAIN ticks)
           /\ con'.pending = con.pending \cup batch'
           /\ con'.due = con.due \ batch'
           /\ con'.acked = con.acked
           /\ at = NoMsg /\ phase = "idle"
  <1>1. /\ con \in Consumers(1..Len(ticks)) /\ Len(ticks) \in Nat
        /\ BatchSize \in Nat /\ DOMAIN ticks = 1..Len(ticks)
    BY TickFacts, SnapshotterAssumption DEF LoopTyped
  <1>2. PICK B \in Batches(con, Len(ticks), BatchSize) :
            con' = Deliver(con, B) /\ batch' = B /\ again' = B \cap con.due
    BY DEF Fetch
  <1>3. batch = {} /\ at = NoMsg /\ phase = "idle"
    BY AtFacts DEF Fetch, LoopTyped
  <1> QED
    BY <1>1, <1>2, <1>3, DeliverFacts

LEMMA AckEffect ==
    ASSUME LoopTyped, NEW m \in Msgs, Ack(m)
    PROVE  /\ m \in batch /\ m \in DOMAIN ticks
           /\ con' \in Consumers(DOMAIN ticks)
           /\ con'.pending = con.pending \ {m}
           /\ con'.due = con.due \ {m}
           /\ con'.acked = con.acked \cup {m}
  <1>1. m \in batch /\ m \in DOMAIN ticks
    BY AtFacts DEF Ack
  <1> QED
    BY <1>1, AckFacts DEF Ack, LoopTyped

LEMMA ExpireEffect ==
    ASSUME LoopTyped, NEW m \in Msgs, AckTimeout(m)
    PROVE  /\ m \in con.pending /\ m \in DOMAIN ticks
           /\ con' \in Consumers(DOMAIN ticks)
           /\ con'.pending = con.pending \ {m}
           /\ con'.due = con.due \cup {m}
           /\ con'.acked = con.acked
           /\ expiries' \in [Msgs -> Nat]
           /\ expiries'[m] = expiries[m] + 1
           /\ \A k \in Msgs : k # m => expiries'[k] = expiries[k]
  <1>1. m \in con.pending /\ m \in DOMAIN ticks
    BY DEF AckTimeout, LoopTyped, Consumers
  <1>2. /\ expiries' \in [Msgs -> Nat]
        /\ expiries'[m] = expiries[m] + 1
        /\ \A k \in Msgs : k # m => expiries'[k] = expiries[k]
    BY DEF AckTimeout, LoopTyped
  <1> QED
    BY <1>1, <1>2, ExpireFacts DEF AckTimeout, LoopTyped

(* The steps that leave the loop where it is.                              *)
Aside ==
    \/ Publish \/ Restart \/ Wake \/ WalkOn \/ WalkFails \/ Disconnect
    \/ \E p \in Products : Elapse(p)
    \/ UNCHANGED vars

(* The steps of _process_tick after its first await.                       *)
Working(m) ==
    \/ Upsert(m) \/ UpsertFails(m) \/ Insert(m) \/ InsertFails(m)
    \/ PublishSnapshot(m)

LEMMA AsideFacts ==
    ASSUME Aside
    PROVE  /\ UNCHANGED <<con, batch, again, expiries, at, phase, handled>>
           /\ up' = up \/ Restart
           /\ UNCHANGED <<states, order, row, rows, behind, unrecorded, wrote>>
  BY DEF Aside, Publish, Restart, Wake, WalkOn, WalkFails, Disconnect, Elapse, vars,
         shardVars, tickVars, stateVars, storeVars

LEMMA WorkingFacts ==
    ASSUME LoopTyped, NEW m, Working(m)
    PROVE  /\ UNCHANGED <<ticks, con, batch, again, expiries, up, missed, faults, at>>
           /\ UNCHANGED <<states, order, walk, ready, connected>>
           /\ at = m /\ phase # "idle" /\ up
           /\ phase' \in {"insert", "publish", "ack"}
           /\ phase' = "insert" => phase = "upsert" /\ handled' = handled
           /\ phase' = "publish" => /\ phase = "insert" /\ ~fresh[Product(m)]
                                    /\ handled' = handled
           /\ phase' = "ack" => handled' = [handled EXCEPT ![m] = @ + 1]
           /\ phase \in {"upsert", "insert", "publish"}
  <1> USE DEF shardVars, stateVars
  <1>1. CASE Upsert(m)
    BY <1>1, AtFacts DEF Upsert
  <1>2. CASE UpsertFails(m)
    BY <1>2, AtFacts DEF UpsertFails
  <1>3. CASE Insert(m)
    BY <1>3, AtFacts, SnapshotIfDueFacts DEF Insert, Return
  <1>4. CASE InsertFails(m)
    BY <1>4, AtFacts, SnapshotIfDueFacts DEF InsertFails, Return
  <1>5. CASE PublishSnapshot(m)
    BY <1>5, AtFacts DEF PublishSnapshot, Return, storeVars
  <1> QED
    BY <1>1, <1>2, <1>3, <1>4, <1>5 DEF Working

(* The disjuncts of Next, in these groups.                                 *)
LEMMA StepCases ==
    ASSUME [Next]_vars
    PROVE  \/ Aside \/ Fetch \/ Crash
           \/ \E m \in Msgs : \/ Update(m) \/ Working(m)
                              \/ Ack(m) \/ LoseAck(m) \/ AckTimeout(m)
  BY DEF Next, Aside, Working

LEMMA LoopTypedStep ==
    ASSUME LoopTyped, [Next]_vars
    PROVE  LoopTyped'
  <1>0. /\ ticks' \in Seq(Ticks) /\ Len(ticks') <= MaxPublished
        /\ DOMAIN ticks \subseteq DOMAIN ticks'
        /\ Consumers(DOMAIN ticks) \subseteq Consumers(DOMAIN ticks')
        /\ again \subseteq DOMAIN ticks'
    BY TicksGrow DEF LoopTyped, Consumers
  <1>1. CASE Aside
    <2>1. up' \in BOOLEAN /\ (~up' => ~up)
      BY <1>1, AsideFacts DEF Restart, LoopTyped
    <2> QED
      BY <1>0, <1>1, <2>1, AsideFacts DEF LoopTyped
  <1>2. CASE Fetch
    <2>1. UNCHANGED <<ticks, up, at, phase, expiries>>
      BY <1>2 DEF Fetch, tickVars
    <2> QED
      BY <1>0, <1>2, <2>1, FetchEffect DEF LoopTyped
  <1>3. CASE Crash
    <2>1. /\ UNCHANGED <<ticks, con, expiries>> /\ up' = FALSE
          /\ batch' = {} /\ again' = {} /\ at' = NoMsg /\ phase' = "idle"
      BY <1>3 DEF Crash
    <2> QED
      BY <1>0, <2>1 DEF LoopTyped
  <1>4. ASSUME NEW m \in Msgs, Update(m)
        PROVE  LoopTyped'
    <2>1. /\ UNCHANGED <<ticks, con, batch, again, up, expiries>> /\ up
          /\ at' = m /\ phase' \in {"upsert", "publish", "ack"}
          /\ m \in NextOf(batch, again)
      BY <1>4, TurnFacts, WritesFacts, SnapshotIfDueFacts DEF Update, shardVars
    <2> QED
      BY <1>0, <2>1 DEF LoopTyped
  <1>5. ASSUME NEW m \in Msgs, Working(m)
        PROVE  LoopTyped'
    BY <1>0, <1>5, WorkingFacts DEF LoopTyped
  <1>6. ASSUME NEW m \in Msgs, Ack(m)
        PROVE  LoopTyped'
    <2>1. /\ UNCHANGED <<ticks, again, up, expiries>>
          /\ batch' = batch \ {m} /\ at' = NoMsg /\ phase' = "idle"
      BY <1>6 DEF Ack
    <2> QED
      BY <1>0, <1>6, <2>1, AckEffect DEF LoopTyped
  <1>7. ASSUME NEW m \in Msgs, LoseAck(m)
        PROVE  LoopTyped'
    <2>1. /\ UNCHANGED <<ticks, con, again, up, expiries>>
          /\ batch' = batch \ {m} /\ at' = NoMsg /\ phase' = "idle"
      BY <1>7 DEF LoseAck
    <2> QED
      BY <1>0, <2>1 DEF LoopTyped
  <1>8. ASSUME NEW m \in Msgs, AckTimeout(m)
        PROVE  LoopTyped'
    <2>1. UNCHANGED <<ticks, batch, again, up, at, phase>>
      BY <1>8 DEF AckTimeout, tickVars
    <2> QED
      BY <1>0, <1>8, <2>1, ExpireEffect DEF LoopTyped
  <1> QED
    BY <1>1, <1>2, <1>3, <1>4, <1>5, <1>6, <1>7, <1>8, StepCases

-----------------------------------------------------------------------------
(* The dicts and the periodic task.                                        *)

LEMMA StateFacts ==
    ASSUME NEW t \in Tables, NEW p \in Products
    PROVE  /\ t[p] \in States
           /\ t[p].last \in 0..MaxPublished /\ t[p].last_seq \in Nat
           /\ \A s \in Sides : t[p].side[s] \in 0..MaxPublished
           /\ t[p] = NoState <=> t[p].last = 0
           /\ t[p] = NoState => t[p].last_seq = 0 /\ \A s \in Sides : t[p].side[s] = 0
  BY DEF Tables, States, NoState

(* One product of a table gets another state.                              *)
LEMMA TableFacts ==
    ASSUME NEW t \in Tables, NEW p \in Products, NEW x \in States, x.last > 0,
           NEW u, u = [t EXCEPT ![p] = x]
    PROVE  /\ u \in Tables /\ u[p] = x
           /\ \A q \in Products : q # p => u[q] = t[q]
  BY DEF Tables

LEMMA NoStates == [p \in Products |-> NoState] \in Tables
  BY SnapshotterAssumption DEF Tables, States, NoState

LEMMA MergedFacts ==
    ASSUME LoopTyped, NEW m \in DOMAIN ticks, NEW t \in Tables, NEW p \in Products
    PROVE  /\ Merged(t[p], m) \in States
           /\ Merged(t[p], m).last = m /\ m > 0
           /\ Merged(t[p], m).last_seq = ticks[m].seq
           /\ \A s \in Sides : \/ Merged(t[p], m).side[s] = m
                               \/ Merged(t[p], m).side[s] = t[p].side[s]
  <1>1. m \in 0..MaxPublished /\ m > 0 /\ ticks[m].seq \in Nat
    BY TickFacts DEF Msgs
  <1>2. \A s \in Sides : t[p].side[s] \in 0..MaxPublished
    BY StateFacts
  <1> QED
    BY <1>1, <1>2 DEF Merged, States

(* _process_tick up to its first await, on the dict.                       *)
LEMMA UpdateFacts ==
    ASSUME LoopTyped, DictTyped, NEW m \in Msgs, Update(m)
    PROVE  /\ UNCHANGED <<fresh, sent, walk, ready, connected, row, rows, wrote>>
           /\ UNCHANGED <<ticks, con, batch, again, expiries, up, missed, faults>>
           /\ up /\ at = NoMsg /\ phase = "idle" /\ at' = m
           /\ m \in NextOf(batch, again) /\ m \in batch /\ m \in DOMAIN ticks
           /\ Product(m) \in Products /\ Product(m)' = Product(m)
           /\ phase' \in {"upsert", "publish", "ack"}
           /\ states' \in Tables
           /\ states'[Product(m)] = Merged(states[Product(m)], m)
           /\ states'[Product(m)].last = m /\ states'[Product(m)] # NoState
           /\ \A q \in Products : q # Product(m) => states'[q] = states[q]
           /\ order' = IF states[Product(m)] = NoState
                       THEN Append(order, Product(m)) ELSE order
  <1>1. /\ UNCHANGED <<fresh, sent, walk, ready, connected, row, rows, wrote>>
        /\ UNCHANGED <<ticks, con, batch, again, expiries, up, missed, faults>>
        /\ up /\ at' = m
        /\ states' = [states EXCEPT ![Product(m)] = Merged(states[Product(m)], m)]
        /\ order' = IF states[Product(m)] = NoState
                    THEN Append(order, Product(m)) ELSE order
    BY DEF Update, shardVars, snapVars
  <1>2. /\ at = NoMsg /\ phase = "idle" /\ m \in NextOf(batch, again)
        /\ m \in batch /\ m \in DOMAIN ticks /\ Product(m) \in Products
    BY TurnFacts DEF Update
  <1>3. /\ states \in Tables
        /\ Merged(states[Product(m)], m) \in States
        /\ Merged(states[Product(m)], m).last = m
        /\ Merged(states[Product(m)], m).last > 0
    BY <1>2, MergedFacts DEF DictTyped
  <1>4. phase' \in {"upsert", "publish", "ack"}
    BY WritesFacts, SnapshotIfDueFacts DEF Update
  <1>5. /\ states' \in Tables
        /\ states'[Product(m)] = Merged(states[Product(m)], m)
        /\ \A q \in Products : q # Product(m) => states'[q] = states[q]
    <2> DEFINE p == Product(m)
               x == Merged(states[p], m)
    <2>1. /\ states \in Tables /\ p \in Products /\ x \in States /\ x.last > 0
          /\ states' = [states EXCEPT ![p] = x]
      BY <1>1, <1>2, <1>3
    <2> HIDE DEF p, x
    <2>2. /\ states' \in Tables /\ states'[p] = x
          /\ \A q \in Products : q # p => states'[q] = states[q]
      BY <2>1 DEF Tables
    <2> USE DEF p, x
    <2> QED
      BY <2>2
  <1>6. states'[Product(m)] # NoState
    BY <1>2, <1>3, <1>5, StateFacts
  <1> QED
    BY <1>1, <1>2, <1>3, <1>4, <1>5, <1>6 DEF Product

(* Where the periodic task gets to: asleep, or at the first key in reach   *)
(* whose snapshot is due.                                                  *)
LEMMA WalkFacts ==
    ASSUME order \in Seq(Products), NEW from \in Nat \ {0}, NEW used \in Nat, NEW f,
           WalkFrom(from, used, f)
    PROVE  \/ walk' = Asleep
           \/ \E k \in from..Len(order) :
                /\ ~f[order[k]] /\ used = Len(order)
                /\ walk' = [key |-> k, used |-> used]
  BY DEF WalkFrom

(* The product that the periodic task publishes for.                       *)
LEMMA KeyFacts ==
    ASSUME DictTyped, walk # Asleep
    PROVE  /\ walk.key \in DOMAIN order /\ walk.key \in Nat \ {0} /\ walk.used \in Nat
           /\ order[walk.key] \in Products
           /\ states[order[walk.key]] # NoState
  <1>1. Len(order) \in Nat /\ DOMAIN order = 1..Len(order)
    BY DEF DictTyped
  <1>2. walk.key \in DOMAIN order /\ walk.key \in Nat \ {0} /\ walk.used \in Nat
    BY <1>1 DEF DictTyped
  <1>3. order[walk.key] \in Products
    BY <1>2 DEF DictTyped
  <1> QED
    BY <1>2, <1>3 DEF DictTyped

LEMMA SnapshotMadeFacts ==
    ASSUME DictTyped, NEW p \in Products, SnapshotMade(p)
    PROVE  /\ fresh' \in [Products -> BOOLEAN] /\ sent' \in [Products -> Nat]
           /\ fresh'[p] /\ sent'[p] = sent[p] + 1
           /\ \A q \in Products : q # p => fresh'[q] = fresh[q] /\ sent'[q] = sent[q]
  BY DEF SnapshotMade, DictTyped

(* What the steps beside the loop do to the dicts.                         *)
LEMMA WakeEffect ==
    ASSUME DictTyped, Wake
    PROVE  /\ UNCHANGED <<fresh, sent>>
           /\ walk = Asleep
           /\ \/ walk' = Asleep
              \/ \E k \in DOMAIN order : /\ ~fresh[order[k]]
                                         /\ walk' = [key |-> k, used |-> Len(order)]
  <1>1. /\ order \in Seq(Products) /\ 1 \in Nat \ {0}
        /\ Len(order) \in Nat /\ DOMAIN order = 1..Len(order)
    BY DEF DictTyped
  <1>2. WalkFrom(1, Len(order), fresh)
    BY DEF Wake
  <1>3. \/ walk' = Asleep
        \/ \E k \in 1..Len(order) : /\ ~fresh[order[k]]
                                    /\ walk' = [key |-> k, used |-> Len(order)]
    BY <1>1, <1>2, WalkFacts
  <1> QED
    BY <1>1, <1>3 DEF Wake, snapVars

LEMMA WalkOnEffect ==
    ASSUME DictTyped, WalkOn
    PROVE  /\ walk # Asleep /\ SnapshotMade(order[walk.key])
           /\ \/ walk' = Asleep
              \/ \E k \in DOMAIN order : /\ ~fresh'[order[k]]
                                         /\ walk' = [key |-> k, used |-> Len(order)]
  <1>1. Len(order) \in Nat /\ DOMAIN order = 1..Len(order)
    BY DEF DictTyped
  <1>2. walk # Asleep /\ SnapshotMade(order[walk.key])
    BY DEF WalkOn
  <1>3. WalkFrom(walk.key + 1, walk.used, fresh')
    BY DEF WalkOn
  <1>4. walk.key + 1 \in Nat \ {0} /\ walk.used \in Nat
    BY <1>2, KeyFacts
  <1>5. \/ walk' = Asleep
        \/ \E k \in (walk.key + 1)..Len(order) :
             /\ ~fresh'[order[k]] /\ walk.used = Len(order)
             /\ walk' = [key |-> k, used |-> walk.used]
    BY <1>3, <1>4, WalkFacts DEF DictTyped
  <1> QED
    BY <1>1, <1>2, <1>4, <1>5

(* The parts of DictTyped that a step may disturb without an update.       *)
LEMMA DictTypedBy ==
    ASSUME LoopTyped, DictTyped, [Next]_vars,
           UNCHANGED <<states, order>>,
           fresh' \in [Products -> BOOLEAN],
           sent' \in [Products -> Nat],
           \A p \in Products : fresh'[p] => fresh[p] \/ states[p] # NoState,
           \/ walk' = walk \/ walk' = Asleep
           \/ \E k \in DOMAIN order : walk' = [key |-> k, used |-> Len(order)],
           phase' = "idle" \/ (phase # "idle" /\ at' = at)
    PROVE  DictTyped'
  <1>1. Len(order) \in Nat /\ DOMAIN order = 1..Len(order)
    BY DEF DictTyped
  <1>2. ASSUME phase' # "idle"
        PROVE  states'[Product(at)'].last = at'
    <2>1. at' = at /\ at \in DOMAIN ticks /\ states[Product(at)].last = at
      BY <1>2, AtFacts DEF DictTyped
    <2>2. Product(at)' = Product(at)
      BY <2>1, TicksGrow DEF Product
    <2> QED
      BY <2>1, <2>2
  <1>3. /\ walk' \in [key : Nat, used : Nat]
        /\ walk' = Asleep \/ walk'.key \in 1..walk'.used
        /\ walk'.used <= Len(order)
    <2>1. CASE walk' = walk
      BY <2>1 DEF DictTyped
    <2>2. CASE walk' = Asleep
      BY <1>1, <2>2 DEF Asleep
    <2>3. CASE \E k \in DOMAIN order : walk' = [key |-> k, used |-> Len(order)]
      BY <1>1, <2>3
    <2> QED
      BY <2>1, <2>2, <2>3
  <1>4. \A p \in Products : fresh'[p] => states'[p] # NoState
    BY DEF DictTyped
  <1> QED
    BY <1>2, <1>3, <1>4 DEF DictTyped

LEMMA DictTypedStep ==
    ASSUME LoopTyped, DictTyped, [Next]_vars
    PROVE  DictTyped'
  <1>0. Len(order) \in Nat /\ DOMAIN order = 1..Len(order)
    BY DEF DictTyped
  <1>1. CASE /\ UNCHANGED <<states, order, fresh, sent>>
             /\ walk' = walk \/ walk' = Asleep
             /\ phase' = "idle" \/ (phase # "idle" /\ at' = at)
    BY <1>1, DictTypedBy DEF DictTyped
  <1>2. CASE Publish \/ Restart \/ WalkFails \/ Disconnect \/ UNCHANGED vars
    <2>1. /\ UNCHANGED <<states, order, fresh, sent, at, phase>>
          /\ walk' = walk \/ walk' = Asleep
      BY <1>2 DEF Publish, Restart, WalkFails, Disconnect, vars, stateVars, snapVars,
                  tickVars
    <2> QED
      BY <1>1, <2>1
  <1>3. CASE Wake
    <2>1. UNCHANGED <<states, order, fresh, sent, at, phase>>
      BY <1>3 DEF Wake, stateVars, snapVars, tickVars
    <2> QED
      BY <1>3, <2>1, WakeEffect, DictTypedBy DEF DictTyped
  <1>4. CASE WalkOn
    <2>1. UNCHANGED <<states, order, at, phase>>
      BY <1>4 DEF WalkOn, stateVars, tickVars
    <2>2. /\ SnapshotMade(order[walk.key]) /\ order[walk.key] \in Products
          /\ states[order[walk.key]] # NoState
      BY <1>4, WalkOnEffect, KeyFacts
    <2>3. /\ fresh' \in [Products -> BOOLEAN] /\ sent' \in [Products -> Nat]
          /\ \A p \in Products : fresh'[p] => fresh[p] \/ states[p] # NoState
      BY <2>2, SnapshotMadeFacts
    <2> QED
      BY <1>4, <2>1, <2>3, WalkOnEffect, DictTypedBy
  <1>5. ASSUME NEW p \in Products, Elapse(p)
        PROVE  DictTyped'
    <2>1. /\ UNCHANGED <<states, order, walk, at, phase>>
          /\ fresh' = [fresh EXCEPT ![p] = FALSE] /\ sent' = [sent EXCEPT ![p] = 0]
      BY <1>5 DEF Elapse, stateVars, tickVars
    <2>2. /\ fresh' \in [Products -> BOOLEAN] /\ sent' \in [Products -> Nat]
          /\ \A q \in Products : fresh'[q] => fresh[q]
      BY <2>1 DEF DictTyped
    <2> QED
      BY <2>1, <2>2, DictTypedBy
  <1>6. CASE Fetch
    <2>1. UNCHANGED <<states, order, fresh, sent, walk, at, phase>>
      BY <1>6 DEF Fetch, stateVars, snapVars, tickVars
    <2> QED
      BY <1>1, <2>1
  <1>7. CASE Crash
    <2>1. /\ states' = [p \in Products |-> NoState] /\ order' = << >>
          /\ fresh' = [p \in Products |-> FALSE]
          /\ sent' = [p \in Products |-> 0]
          /\ walk' = Asleep /\ phase' = "idle"
      BY <1>7 DEF Crash
    <2>2. states' \in Tables /\ walk' \in [key : Nat, used : Nat]
      BY <2>1, NoStates DEF Asleep
    <2>3. order' \in Seq(Products) /\ DOMAIN order' = {} /\ Len(order') = 0
      BY <2>1
    <2>4. walk'.used <= Len(order')
      BY <2>1, <2>3 DEF Asleep
    <2> QED
      BY <2>1, <2>2, <2>3, <2>4 DEF DictTyped
  <1>8. ASSUME NEW m \in Msgs, Update(m)
        PROVE  DictTyped'
    <2> DEFINE p == Product(m)
    <2>1. /\ UNCHANGED <<fresh, sent, walk>>
          /\ p \in Products /\ Product(m)' = p
          /\ states' \in Tables /\ states'[p] # NoState /\ states'[p].last = m
          /\ \A q \in Products : q # p => states'[q] = states[q]
          /\ order' = IF states[p] = NoState THEN Append(order, p) ELSE order
          /\ at' = m
      BY <1>8, UpdateFacts
    <2>2. states'[Product(at)'].last = at'
      BY <2>1 DEF Product
    <2> HIDE DEF p
    <2>3. /\ order' \in Seq(Products) /\ Len(order) <= Len(order')
          /\ \A q \in Products : (\E k \in DOMAIN order' : order'[k] = q)
                                       <=> states'[q] # NoState
          /\ \A j, k \in DOMAIN order' : order'[j] = order'[k] => j = k
      <3>1. CASE states[p] # NoState
        <4>1. order' = order
          BY <2>1, <3>1
        <4>2. \A q \in Products : states'[q] # NoState <=> states[q] # NoState
          BY <2>1, <3>1
        <4>3. \A q \in Products : (\E k \in DOMAIN order : order[k] = q)
                                       <=> states'[q] # NoState
          BY <4>2 DEF DictTyped
        <4>4. /\ order \in Seq(Products) /\ Len(order) <= Len(order)
              /\ \A j, k \in DOMAIN order : order[j] = order[k] => j = k
          BY <1>0 DEF DictTyped
        <4> QED
          BY <4>1, <4>3, <4>4
      <3>2. CASE states[p] = NoState
        <4>1. /\ order' = Append(order, p) /\ order' \in Seq(Products)
              /\ Len(order') = Len(order) + 1
              /\ DOMAIN order' = DOMAIN order \cup {Len(order) + 1}
              /\ order'[Len(order) + 1] = p
              /\ \A k \in DOMAIN order : order'[k] = order[k]
          BY <1>0, <2>1, <3>2 DEF DictTyped
        <4>2. \A k \in DOMAIN order : order[k] # p
          BY <2>1, <3>2 DEF DictTyped
        <4>3. \A q \in Products : (\E k \in DOMAIN order' : order'[k] = q)
                                       <=> states'[q] # NoState
          BY <2>1, <3>2, <4>1 DEF DictTyped
        <4>4. \A j, k \in DOMAIN order' : order'[j] = order'[k] => j = k
          BY <4>1, <4>2 DEF DictTyped
        <4> QED
          BY <1>0, <4>1, <4>3, <4>4
      <3> QED
        BY <3>1, <3>2
    <2>4. walk'.used <= Len(order')
      BY <1>0, <2>1, <2>3 DEF DictTyped
    <2>5. \A q \in Products : fresh'[q] => states'[q] # NoState
      BY <2>1 DEF DictTyped
    <2> QED
      BY <2>1, <2>2, <2>3, <2>4, <2>5 DEF DictTyped
  <1>9. ASSUME NEW m \in Msgs, Working(m)
        PROVE  DictTyped'
    <2>1. UNCHANGED <<states, order, walk, at>> /\ at = m /\ phase # "idle"
      BY <1>9, WorkingFacts
    <2>2. CASE UNCHANGED snapVars
      BY <1>1, <2>1, <2>2 DEF snapVars
    <2>3. CASE PublishSnapshot(m) /\ SnapshotMade(Product(m))
      <3>1. Product(m) \in Products /\ states[Product(m)] # NoState
        BY <2>1, AtFacts, StateFacts DEF DictTyped, NoMsg
      <3>2. /\ fresh' \in [Products -> BOOLEAN] /\ sent' \in [Products -> Nat]
            /\ \A p \in Products : fresh'[p] => fresh[p] \/ states[p] # NoState
        BY <2>3, <3>1, SnapshotMadeFacts
      <3> QED
        BY <2>1, <3>2, DictTypedBy
    <2> QED
      BY <1>9, <2>2, <2>3 DEF Working, Upsert, UpsertFails, Insert, InsertFails,
                              PublishSnapshot
  <1>10. ASSUME NEW m \in Msgs, Ack(m) \/ LoseAck(m)
         PROVE  DictTyped'
    <2>1. UNCHANGED <<states, order, fresh, sent, walk>> /\ phase' = "idle"
      BY <1>10 DEF Ack, LoseAck, stateVars, snapVars
    <2> QED
      BY <1>1, <2>1
  <1>11. ASSUME NEW m \in Msgs, AckTimeout(m)
         PROVE  DictTyped'
    <2>1. UNCHANGED <<states, order, fresh, sent, walk, at, phase>>
      BY <1>11 DEF AckTimeout, stateVars, snapVars, tickVars
    <2> QED
      BY <1>1, <2>1
  <1> QED
    BY <1>2, <1>3, <1>4, <1>5, <1>6, <1>7, <1>8, <1>9, <1>10, <1>11, StepCases
       DEF Aside

-----------------------------------------------------------------------------
(* The store.                                                              *)

(* What a step may do to the rows.                                         *)
LEMMA RowStep ==
    ASSUME LoopTyped, DictTyped, StoreTyped, [Next]_vars
    PROVE  \/ row' = row
           \/ /\ phase = "upsert" /\ up
              /\ row' \in Tables
              /\ row'[Product(at)] = states[Product(at)]
              /\ \A q \in Products : q # Product(at) => row'[q] = row[q]
  <1>1. \/ row' = row
        \/ /\ phase = "upsert"
           /\ row' = [row EXCEPT ![Product(at)] = states[Product(at)]]
    BY DEF Next, vars, storeVars, Publish, Fetch, Wake, WalkOn, WalkFails, Disconnect,
           Crash, Restart, Elapse, Update, Upsert, UpsertFails, Insert, InsertFails,
           PublishSnapshot, Ack, LoseAck, AckTimeout, RowMaybe, WriteRowMaybe, WriteRow
  <1>2. ASSUME phase = "upsert"
        PROVE  /\ up /\ Product(at) \in Products /\ states[Product(at)] \in States
               /\ states[Product(at)].last > 0 /\ row \in Tables
    <2>1. /\ up /\ Product(at) \in Products /\ at \in Msgs
          /\ states[Product(at)].last = at
      BY <1>2, AtFacts DEF DictTyped
    <2> QED
      BY <2>1, StateFacts DEF DictTyped, StoreTyped, Msgs
  <1> QED
    BY <1>1, <1>2, TableFacts

LEMMA RowsStep ==
    ASSUME LoopTyped, StoreTyped, [Next]_vars
    PROVE  /\ rows' \in [Msgs -> Nat]
           /\ \A k \in Msgs : \/ rows'[k] = rows[k]
                              \/ phase = "insert" /\ at = k /\ rows'[k] = rows[k] + 1
  <1>1. \/ rows' = rows
        \/ phase = "insert" /\ rows' = [rows EXCEPT ![at] = @ + 1]
    BY DEF Next, vars, storeVars, Publish, Fetch, Wake, WalkOn, WalkFails, Disconnect,
           Crash, Restart, Elapse, Update, Upsert, UpsertFails, Insert, InsertFails,
           PublishSnapshot, Ack, LoseAck, AckTimeout, RowsMaybe
  <1> QED
    BY <1>1 DEF StoreTyped

LEMMA StoreTypedStep ==
    ASSUME LoopTyped, DictTyped, StoreTyped, [Next]_vars
    PROVE  StoreTyped'
  <1>1. row' \in Tables
    BY RowStep DEF StoreTyped
  <1>2. rows' \in [Msgs -> Nat]
    BY RowsStep
  <1>3. ready' \in BOOLEAN /\ (phase' \in {"upsert", "insert"} => ready')
    <2>1. CASE Aside
      <3>1. ready' = ready \/ (Restart /\ ready' \in BOOLEAN /\ phase = "idle")
        BY <2>1 DEF Aside, Publish, Restart, Wake, WalkOn, WalkFails, Disconnect, Elapse,
                    vars, storeVars, LoopTyped
      <3> QED
        BY <2>1, <3>1, AsideFacts DEF StoreTyped
    <2>2. ASSUME NEW m \in Msgs, Update(m)
          PROVE  ready' \in BOOLEAN /\ (phase' \in {"upsert", "insert"} => ready')
      BY <2>2, WritesFacts, SnapshotIfDueFacts DEF Update, StoreTyped
    <2>3. ASSUME NEW m \in Msgs, Working(m)
          PROVE  ready' \in BOOLEAN /\ (phase' \in {"upsert", "insert"} => ready')
      BY <2>3, WorkingFacts DEF StoreTyped
    <2>4. ASSUME NEW m \in Msgs, Ack(m) \/ LoseAck(m)
          PROVE  ready' \in BOOLEAN /\ (phase' \in {"upsert", "insert"} => ready')
      BY <2>4 DEF Ack, LoseAck, storeVars, StoreTyped
    <2>5. CASE Fetch \/ Crash \/ \E m \in Msgs : AckTimeout(m)
      BY <2>5 DEF Fetch, Crash, AckTimeout, tickVars, storeVars, StoreTyped
    <2> QED
      BY <2>1, <2>2, <2>3, <2>4, <2>5, StepCases
  <1> QED
    BY <1>1, <1>2, <1>3 DEF StoreTyped

-----------------------------------------------------------------------------
LEMMA TypedStarts == Init => Typed
  <1> SUFFICES ASSUME Init PROVE Typed
    OBVIOUS
  <1>1. LoopTyped
    <2>1. /\ ticks = << >> /\ ticks \in Seq(Ticks) /\ Len(ticks) = 0 /\ DOMAIN ticks = {}
      BY DEF Init
    <2>2. con \in Consumers(DOMAIN ticks)
      BY NewConsumerFacts DEF Init
    <2> QED
      BY <2>1, <2>2, SnapshotterAssumption DEF Init, LoopTyped
  <1>2. DictTyped
    <2>1. order \in Seq(Products) /\ DOMAIN order = {} /\ Len(order) = 0
      BY DEF Init
    <2>2. states \in Tables
      BY NoStates DEF Init
    <2>3. walk \in [key : Nat, used : Nat] /\ walk.used <= Len(order) /\ walk = Asleep
      BY <2>1 DEF Init, Asleep
    <2> QED
      BY <2>1, <2>2, <2>3 DEF Init, DictTyped
  <1>3. StoreTyped
    BY NoStates DEF Init, StoreTyped
  <1> QED
    BY <1>1, <1>2, <1>3 DEF Typed

LEMMA TypedStep == Typed /\ [Next]_vars => Typed'
  BY LoopTypedStep, DictTypedStep, StoreTypedStep DEF Typed

LEMMA TypedAlways == Spec => []Typed
  BY TypedStarts, TypedStep, PTL DEF Spec

(* The types; the dict of states, its keys, the snapshots and the place of *)
(* the periodic task agree.                                                *)
THEOREM TypeCorrect == Spec => []TypeOK
  <1>1. Typed => TypeOK
    <2> SUFFICES ASSUME Typed PROVE TypeOK
      OBVIOUS
    <2>1. IF phase = "idle" THEN at = NoMsg ELSE at \in batch
      BY AtFacts DEF Typed, LoopTyped
    <2>2. walk.key \in 0..walk.used
      BY DEF Typed, DictTyped, Asleep
    <2> QED
      BY <2>1, <2>2 DEF Typed, LoopTyped, DictTyped, StoreTyped, TypeOK
  <1> QED
    BY <1>1, TypedAlways, PTL

-----------------------------------------------------------------------------
(* The fetch task is the loop of ShardConsumer.                            *)

(* The operators of JetStream are the same on both sides.                  *)
LEMMA SameOperators ==
    /\ Loop!NoMsg = NoMsg /\ Loop!Msgs = Msgs
    /\ Loop!NewConsumer = NewConsumer
    /\ \A c, n, size : Loop!Batches(c, n, size) = Batches(c, n, size)
    /\ \A c, B : Loop!Deliver(c, B) = Deliver(c, B)
    /\ \A c, m : Loop!AckMessage(c, m) = AckMessage(c, m)
    /\ \A c, m : Loop!Expire(c, m) = Expire(c, m)
    /\ \A b, a : Loop!NextOf(b, a) = NextOf(b, a)
  <1>1. Loop!NoMsg = NoMsg /\ Loop!Msgs = Msgs /\ Loop!NewConsumer = NewConsumer
    BY DEF Loop!NoMsg, NoMsg, Loop!Msgs, Msgs, Loop!NewConsumer, NewConsumer
  <1>2. \A c, n, size : Loop!Batches(c, n, size) = Batches(c, n, size)
    <2>1. \A c, n : Loop!Available(c, n) = Available(c, n)
      BY DEF Loop!Available, Available
    <2>2. \A S : Loop!Cardinality(S) = Cardinality(S)
      BY Zenon DEF Loop!Cardinality, Cardinality
    <2> QED
      BY <2>1, <2>2 DEF Loop!Batches, Batches
  <1>3. \A c, B : Loop!Deliver(c, B) = Deliver(c, B)
    BY Zenon DEF Loop!Deliver, Deliver
  <1>4. \A c, m : Loop!AckMessage(c, m) = AckMessage(c, m)
    BY Zenon DEF Loop!AckMessage, AckMessage
  <1>5. \A c, m : Loop!Expire(c, m) = Expire(c, m)
    BY Zenon DEF Loop!Expire, Expire
  <1>6. \A b, a : Loop!NextOf(b, a) = NextOf(b, a)
    BY DEF Loop!NextOf, NextOf
  <1> QED
    BY <1>1, <1>2, <1>3, <1>4, <1>5, <1>6

LEMMA LoopStarts == Init => Loop!Init
  BY SameOperators DEF Init, Loop!Init

LEMMA LoopStep ==
    ASSUME LoopTyped, [Next]_vars
    PROVE  [Loop!Next]_Loop!vars
  <1>0. Loop!Msgs = Msgs
    BY SameOperators
  <1>1. CASE Publish
    <2>1. PICK s \in Shards : ticks' = Append(ticks, s[Len(ticks) + 1])
      BY <1>1 DEF Publish
    <2>2. Len(ticks') = Len(ticks) + 1 /\ Len(ticks) < MaxPublished
      BY <1>1, <2>1 DEF Publish, LoopTyped
    <2>3. Loop!Publish
      BY <1>1, <2>2 DEF Publish, Loop!Publish, tickVars
    <2> QED
      BY <2>3 DEF Loop!Next
  <1>2. CASE Fetch
    <2>1. Loop!Fetch
      BY <1>2, FetchEffect, SameOperators DEF Fetch, Loop!Fetch, tickVars
    <2> QED
      BY <2>1 DEF Loop!Next
  <1>3. CASE Crash
    <2>1. Loop!Crash
      BY <1>3, SameOperators DEF Crash, Loop!Crash, Fault, Loop!Fault
    <2> QED
      BY <2>1 DEF Loop!Next
  <1>4. CASE Restart
    <2>1. Loop!Restart
      BY <1>4 DEF Restart, Loop!Restart, tickVars
    <2> QED
      BY <2>1 DEF Loop!Next
  <1>5. CASE \/ Wake \/ WalkOn \/ WalkFails \/ Disconnect
             \/ (\E p \in Products : Elapse(p)) \/ UNCHANGED vars
    <2>1. UNCHANGED <<ticks, con, up, batch, again, phase, at, handled, expiries,
                      missed, faults>>
      BY <1>5 DEF Wake, WalkOn, WalkFails, Disconnect, Elapse, vars, shardVars, tickVars
    <2> QED
      BY <2>1 DEF Loop!vars
  <1>6. ASSUME NEW m \in Msgs, Update(m)
        PROVE  [Loop!Next]_Loop!vars
    <2>1. /\ UNCHANGED <<ticks, con, up, batch, again, expiries, missed, faults>>
          /\ up /\ m \in NextOf(batch, again) /\ phase = "idle" /\ at' = m
      BY <1>6, TurnFacts DEF Update, shardVars
    <2>2. \/ phase' \in {"upsert", "publish"} /\ handled' = handled
          \/ phase' = "ack" /\ handled' = [handled EXCEPT ![m] = @ + 1]
      BY <1>6, WritesFacts, SnapshotIfDueFacts DEF Update, Return
    <2>3. CASE phase' = "ack" /\ handled' = [handled EXCEPT ![m] = @ + 1]
      <3>1. Loop!Handle(m)
        BY <2>1, <2>3, AtFacts, SameOperators DEF Loop!Handle, Loop!Current
      <3> QED
        BY <1>0, <3>1 DEF Loop!Next
    <2>4. CASE phase' \in {"upsert", "publish"} /\ handled' = handled
      BY <2>1, <2>4 DEF Loop!vars
    <2> QED
      BY <2>2, <2>3, <2>4
  <1>7. ASSUME NEW m \in Msgs, Working(m)
        PROVE  [Loop!Next]_Loop!vars
    <2>1. /\ UNCHANGED <<ticks, con, up, batch, again, expiries, missed, faults, at>>
          /\ at = m /\ up /\ phase \in {"upsert", "insert", "publish"}
          /\ m \in NextOf(batch, again)
      BY <1>7, WorkingFacts, AtFacts
    <2>2. \/ phase' \in {"insert", "publish"} /\ handled' = handled
          \/ phase' = "ack" /\ handled' = [handled EXCEPT ![m] = @ + 1]
      BY <1>7, WorkingFacts
    <2>3. CASE phase' = "ack" /\ handled' = [handled EXCEPT ![m] = @ + 1]
      <3>1. Loop!Handle(m)
        BY <2>1, <2>3, AtFacts, SameOperators DEF Loop!Handle, Loop!Current
      <3> QED
        BY <1>0, <3>1 DEF Loop!Next
    <2>4. CASE phase' \in {"insert", "publish"} /\ handled' = handled
      BY <2>1, <2>4 DEF Loop!vars
    <2> QED
      BY <2>2, <2>3, <2>4
  <1>8. ASSUME NEW m \in Msgs, Ack(m)
        PROVE  [Loop!Next]_Loop!vars
    <2>1. Loop!Ack(m)
      BY <1>8, SameOperators DEF Ack, Loop!Ack
    <2> QED
      BY <1>0, <2>1 DEF Loop!Next
  <1>9. ASSUME NEW m \in Msgs, LoseAck(m)
        PROVE  [Loop!Next]_Loop!vars
    <2>1. Loop!LoseAck(m)
      BY <1>9, SameOperators DEF LoseAck, Loop!LoseAck, Fault, Loop!Fault
    <2> QED
      BY <1>0, <2>1 DEF Loop!Next
  <1>10. ASSUME NEW m \in Msgs, AckTimeout(m)
         PROVE  [Loop!Next]_Loop!vars
    <2>1. Loop!AckTimeout(m)
      BY <1>10, SameOperators DEF AckTimeout, Loop!AckTimeout, tickVars
    <2> QED
      BY <1>0, <2>1 DEF Loop!Next
  <1> QED
    BY <1>1, <1>2, <1>3, <1>4, <1>5, <1>6, <1>7, <1>8, <1>9, <1>10, StepCases
       DEF Aside

(* The fetch task with _process_tick as its callback is the loop of        *)
(* ShardConsumer: the callback returns when the last await of              *)
(* _process_tick does, and its other steps are not seen from the loop.     *)
THEOREM Implementation == Spec => ImplementsLoop
  <1>1. Typed /\ [Next]_vars => [Loop!Next]_Loop!vars
    BY LoopStep DEF Typed
  <1> QED
    BY LoopStarts, <1>1, TypedAlways, PTL DEF Spec, ImplementsLoop, Loop!Spec

-----------------------------------------------------------------------------
(* What is proved of ShardConsumer holds of the loop of the snapshotter.   *)
Carried == INSTANCE ShardConsumerProofs
               WITH published <- Len(ticks),
                    acking    <- IF phase = "ack" THEN at ELSE NoMsg

LEMMA CarriedAssumption == Carried!ConsumerAssumption
  BY SnapshotterAssumption DEF Carried!ConsumerAssumption

(* Two instances of one specification are the same.                        *)
LEMMA SameNext ==
    /\ Loop!Init <=> Carried!Init
    /\ [Loop!Next]_Loop!vars <=> [Carried!Next]_Carried!vars
  <1> USE DEF Loop!NoMsg, Carried!NoMsg, Loop!Msgs, Carried!Msgs, Loop!Fault,
              Carried!Fault
  <1>1. Loop!Init <=> Carried!Init
    BY DEF Loop!Init, Carried!Init, Loop!NewConsumer, Carried!NewConsumer
  <1>2. Loop!Fetch <=> Carried!Fetch
    <2>1. \A c, n : Loop!Available(c, n) = Carried!Available(c, n)
      BY DEF Loop!Available, Carried!Available
    <2>2. \A S : Loop!Cardinality(S) = Carried!Cardinality(S)
      BY Zenon DEF Loop!Cardinality, Carried!Cardinality
    <2>3. \A c, n, size : Loop!Batches(c, n, size) = Carried!Batches(c, n, size)
      BY <2>1, <2>2 DEF Loop!Batches, Carried!Batches
    <2>4. \A c, B : Loop!Deliver(c, B) = Carried!Deliver(c, B)
      BY Zenon DEF Loop!Deliver, Carried!Deliver
    <2> QED
      BY <2>3, <2>4 DEF Loop!Fetch, Carried!Fetch
  <1>3. /\ Loop!Publish <=> Carried!Publish
        /\ Loop!Crash <=> Carried!Crash
        /\ Loop!Restart <=> Carried!Restart
    BY DEF Loop!Publish, Carried!Publish, Loop!Crash, Carried!Crash, Loop!Restart,
           Carried!Restart
  <1>4. \A m : Loop!Current(m) <=> Carried!Current(m)
    BY DEF Loop!Current, Carried!Current, Loop!NextOf, Carried!NextOf
  <1>5. \A m : /\ Loop!Handle(m) <=> Carried!Handle(m)
               /\ Loop!Fail(m) <=> Carried!Fail(m)
    BY <1>4 DEF Loop!Handle, Carried!Handle, Loop!Fail, Carried!Fail
  <1>6. \A m : Loop!Ack(m) <=> Carried!Ack(m)
    BY DEF Loop!Ack, Carried!Ack, Loop!AckMessage, Carried!AckMessage
  <1>7. \A m : Loop!LoseAck(m) <=> Carried!LoseAck(m)
    BY DEF Loop!LoseAck, Carried!LoseAck
  <1>8. \A m : Loop!AckTimeout(m) <=> Carried!AckTimeout(m)
    BY DEF Loop!AckTimeout, Carried!AckTimeout, Loop!Expire, Carried!Expire
  <1>9. Loop!Next <=> Carried!Next
    BY <1>2, <1>3, <1>5, <1>6, <1>7, <1>8 DEF Loop!Next, Carried!Next
  <1> QED
    BY <1>1, <1>9 DEF Loop!vars, Carried!vars

LEMMA IsLoop == Spec => Carried!Spec
  BY Implementation, SameNext, PTL DEF ImplementsLoop, Loop!Spec, Carried!Spec

(* _process_tick returns for a tick again, or for a tick before an older   *)
(* one, only for the causes that the subscription leaves: an ack wait that *)
(* ran out, or a crash.                                                    *)
THEOREM HandledForCause ==
    Spec => [](Carried!DuplicatesNeedCause /\ Carried!OvertakingNeedsCause)
  <1>1. Carried!Spec => []Carried!DuplicatesNeedCause
    BY CarriedAssumption, Carried!DuplicatesHaveCause
  <1>2. Carried!Spec => []Carried!OvertakingNeedsCause
    BY CarriedAssumption, Carried!OvertakingHasCause
  <1> QED
    BY <1>1, <1>2, IsLoop, PTL

(* The snapshotter, with all its awaits and faults, is at least once: what *)
(* Delivery takes for granted of its writes.                               *)
THEOREM TicksAtLeastOnce == Spec => Carried!ImplementsAtLeastOnce
  <1>1. Carried!Spec => Carried!ImplementsAtLeastOnce
    BY CarriedAssumption, Carried!Implementation
  <1> QED
    BY <1>1, IsLoop, PTL

-----------------------------------------------------------------------------
(* The rows of the products and the states they were taken from.           *)

LEMMA RowFollowsStep ==
    ASSUME Typed, RowFollowsState, [Next]_vars
    PROVE  RowFollowsState'
  <1> USE DEF Typed
  <1> SUFFICES ASSUME NEW p \in Products, states'[p] # NoState, p \notin behind'
               PROVE  \/ row'[p] = states'[p]
                      \/ phase' = "upsert" /\ Product(at)' = p
    BY DEF RowFollowsState
  <1>1. phase # "idle" => Product(at)' = Product(at)' /\ at \in DOMAIN ticks
    BY AtFacts
  <1>2. CASE Aside
    <2>1. UNCHANGED <<states, row, behind, at, phase>>
      BY <1>2, AsideFacts
    <2>2. phase = "upsert" => Product(at)' = Product(at)
      BY <1>1, <2>1, TicksGrow DEF Product
    <2> QED
      BY <2>1, <2>2 DEF RowFollowsState
  <1>3. CASE Fetch
    <2>1. UNCHANGED <<states, row, behind>> /\ phase = "idle"
      BY <1>3, FetchEffect DEF Fetch, stateVars, storeVars
    <2> QED
      BY <2>1 DEF RowFollowsState
  <1>4. CASE Crash
    <2>1. states' = [q \in Products |-> NoState]
      BY <1>4 DEF Crash
    <2> QED
      BY <2>1
  <1>5. ASSUME NEW m \in Msgs, Update(m)
        PROVE  \/ row'[p] = states'[p]
               \/ phase' = "upsert" /\ Product(at)' = p
    <2>1. /\ row' = row /\ phase = "idle" /\ at' = m /\ Product(m)' = Product(m)
          /\ \A q \in Products : q # Product(m) => states'[q] = states[q]
      BY <1>5, UpdateFacts
    <2>2. \/ phase' = "upsert" /\ behind' = behind
          \/ behind' = behind \cup {Product(m)}
      BY <1>5, WritesFacts DEF Update
    <2>3. CASE p = Product(m)
      BY <2>1, <2>2, <2>3 DEF Product
    <2>4. CASE p # Product(m)
      BY <2>1, <2>2, <2>4 DEF RowFollowsState
    <2> QED
      BY <2>3, <2>4
  <1>6. ASSUME NEW m \in Msgs, Working(m)
        PROVE  \/ row'[p] = states'[p]
               \/ phase' = "upsert" /\ Product(at)' = p
    <2>1. /\ UNCHANGED <<ticks, states, at>> /\ at = m
          /\ phase = "upsert" <=> Upsert(m) \/ UpsertFails(m)
      BY <1>6, WorkingFacts DEF Working, Upsert, UpsertFails, Insert, InsertFails,
                                PublishSnapshot
    <2>2. CASE Upsert(m)
      <3>1. behind' = behind \ {Product(m)} /\ row' = [row EXCEPT ![Product(m)] = states[Product(m)]]
        BY <2>2 DEF Upsert, WriteRow
      <3>2. IF p = Product(m) THEN row'[p] = states[p] ELSE row'[p] = row[p]
        BY <3>1 DEF StoreTyped, Tables
      <3> QED
        BY <2>1, <3>1, <3>2 DEF RowFollowsState
    <2>3. CASE UpsertFails(m)
      <3>1. /\ behind' = behind \cup {Product(m)}
            /\ row' = row \/ row' = [row EXCEPT ![Product(m)] = states[Product(m)]]
        BY <2>3 DEF UpsertFails, WriteRowMaybe, WriteRow
      <3>2. p # Product(m) => row'[p] = row[p]
        BY <3>1 DEF StoreTyped, Tables
      <3> QED
        BY <2>1, <3>1, <3>2 DEF RowFollowsState
    <2>4. CASE Insert(m) \/ InsertFails(m) \/ PublishSnapshot(m)
      <3>1. UNCHANGED <<row, behind>> /\ phase # "upsert"
        BY <2>4 DEF Insert, InsertFails, PublishSnapshot, storeVars
      <3> QED
        BY <2>1, <3>1 DEF RowFollowsState
    <2> QED
      BY <1>6, <2>2, <2>3, <2>4 DEF Working
  <1>7. ASSUME NEW m \in Msgs, Ack(m) \/ LoseAck(m)
        PROVE  row'[p] = states'[p]
    <2>1. UNCHANGED <<states, row, behind>> /\ phase = "ack"
      BY <1>7 DEF Ack, LoseAck, stateVars, storeVars
    <2> QED
      BY <2>1 DEF RowFollowsState
  <1>8. ASSUME NEW m \in Msgs, AckTimeout(m)
        PROVE  \/ row'[p] = states'[p]
               \/ phase' = "upsert" /\ Product(at)' = p
    <2>1. UNCHANGED <<ticks, states, row, behind, phase, at>>
      BY <1>8 DEF AckTimeout, stateVars, storeVars, tickVars
    <2> QED
      BY <2>1 DEF RowFollowsState, Product
  <1> QED
    BY <1>2, <1>3, <1>4, <1>5, <1>6, <1>7, <1>8, StepCases

(* Outside of an upsert the row of a product is its state, unless a write  *)
(* failed or was skipped.                                                  *)
THEOREM RowIsState == Spec => []RowFollowsState
  <1>1. Init => RowFollowsState
    BY DEF Init, RowFollowsState
  <1>2. Typed /\ RowFollowsState /\ [Next]_vars => RowFollowsState'
    BY RowFollowsStep
  <1> QED
    BY <1>1, <1>2, TypedAlways, PTL DEF Spec

-----------------------------------------------------------------------------
(* The history of the ticks.                                               *)

Recorded(m) == rows[m] > 0 \/ m \in unrecorded

(* Where _process_tick is past the insert, the insert was tried.           *)
Recording ==
    /\ phase \in {"publish", "ack"} => Recorded(at)
    /\ \A m \in con.acked : Recorded(m)

LEMMA RecordedStays ==
    ASSUME Typed, [Next]_vars, NEW m \in Msgs, Recorded(m)
    PROVE  Recorded(m)'
  <1>1. unrecorded \subseteq unrecorded'
    <2>1. ASSUME NEW k, Update(k)
          PROVE  unrecorded \subseteq unrecorded'
      BY <2>1, WritesFacts DEF Update
    <2> QED
      BY <2>1 DEF Next, vars, storeVars, Publish, Fetch, Wake, WalkOn, WalkFails,
             Disconnect, Crash, Restart, Elapse, Upsert, UpsertFails, Insert,
             InsertFails, PublishSnapshot, Ack, LoseAck, AckTimeout
  <1>2. rows[m] \in Nat /\ rows'[m] \in Nat /\ rows'[m] >= rows[m]
    BY RowsStep DEF Typed, StoreTyped
  <1> QED
    BY <1>1, <1>2 DEF Recorded

LEMMA RecordingStep ==
    ASSUME Typed, Recording, [Next]_vars
    PROVE  Recording'
  <1> USE DEF Typed
  <1>0. con.acked \subseteq Msgs
    BY TickFacts DEF LoopTyped, Consumers
  <1>1. ASSUME con'.acked = con.acked, phase' \notin {"publish", "ack"}
        PROVE  Recording'
    BY <1>0, <1>1, RecordedStays DEF Recording
  <1>2. ASSUME con'.acked = con.acked, phase' = phase, at' = at
        PROVE  Recording'
    <2>1. phase \in {"publish", "ack"} => at \in Msgs
      BY AtFacts
    <2> QED
      BY <1>0, <1>2, <2>1, RecordedStays DEF Recording
  <1>3. CASE Aside
    BY <1>2, <1>3, AsideFacts
  <1>4. CASE Fetch
    <2>1. phase' = phase /\ at' = at
      BY <1>4 DEF Fetch, tickVars
    <2> QED
      BY <1>2, <1>4, <2>1, FetchEffect
  <1>5. CASE Crash
    BY <1>1, <1>5 DEF Crash
  <1>6. ASSUME NEW m \in Msgs, Update(m)
        PROVE  Recording'
    <2>1. con' = con /\ at' = m
      BY <1>6, UpdateFacts
    <2>2. phase' = "upsert" \/ unrecorded' = unrecorded \cup {m}
      BY <1>6, WritesFacts DEF Update
    <2>3. phase' \in {"publish", "ack"} => Recorded(at)'
      BY <2>1, <2>2 DEF Recorded
    <2> QED
      BY <1>0, <2>1, <2>3, RecordedStays DEF Recording
  <1>7. ASSUME NEW m \in Msgs, Working(m)
        PROVE  Recording'
    <2>1. /\ con' = con /\ at' = at /\ at = m
          /\ phase' = "insert" => phase = "upsert"
          /\ phase' \in {"insert", "publish", "ack"}
      BY <1>7, WorkingFacts
    <2>2. CASE Upsert(m) \/ UpsertFails(m)
      BY <1>1, <2>1, <2>2 DEF Upsert, UpsertFails
    <2>3. CASE Insert(m)
      <3>1. Recorded(m)'
        BY <2>3 DEF Insert, Recorded, StoreTyped
      <3> QED
        BY <1>0, <2>1, <3>1, RecordedStays DEF Recording
    <2>4. CASE InsertFails(m)
      <3>1. Recorded(m)'
        BY <2>4 DEF InsertFails, Recorded
      <3> QED
        BY <1>0, <2>1, <3>1, RecordedStays DEF Recording
    <2>5. CASE PublishSnapshot(m)
      <3>1. Recorded(m)
        BY <2>1, <2>5 DEF PublishSnapshot, Recording
      <3>2. Recorded(m)'
        BY <3>1, RecordedStays
      <3> QED
        BY <1>0, <2>1, <3>2, RecordedStays DEF Recording
    <2> QED
      BY <1>7, <2>2, <2>3, <2>4, <2>5 DEF Working
  <1>8. ASSUME NEW m \in Msgs, Ack(m)
        PROVE  Recording'
    <2>1. con'.acked = con.acked \cup {m} /\ phase' = "idle" /\ Recorded(m)
      BY <1>8, AckEffect DEF Ack, Recording
    <2> QED
      BY <1>0, <2>1, RecordedStays DEF Recording
  <1>9. ASSUME NEW m \in Msgs, LoseAck(m)
        PROVE  Recording'
    BY <1>1, <1>9 DEF LoseAck
  <1>10. ASSUME NEW m \in Msgs, AckTimeout(m)
         PROVE  Recording'
    <2>1. phase' = phase /\ at' = at
      BY <1>10 DEF AckTimeout, tickVars
    <2> QED
      BY <1>2, <1>10, <2>1, ExpireEffect
  <1> QED
    BY <1>3, <1>4, <1>5, <1>6, <1>7, <1>8, <1>9, <1>10, StepCases

(* The ack of a tick comes after its row in tick_history, or after the     *)
(* failure of the insert.                                                  *)
THEOREM NothingAckedUnrecorded == Spec => []AckedIsRecorded
  <1>1. Init => Recording
    BY NewConsumerFacts DEF Init, Recording
  <1>2. Recording => AckedIsRecorded
    BY DEF Recording, Recorded, AckedIsRecorded
  <1> QED
    BY <1>1, <1>2, RecordingStep, TypedAlways, PTL DEF Spec

(* What is still to be done for a message in the loop.                     *)
Todo(m) == m \in batch /\ ~(at = m /\ phase \in {"publish", "ack"})

(* Each row of a tick in tick_history used up a delivery, the first or one *)
(* after an ack wait; a message that is still to be recorded has spared    *)
(* one, and one that is due besides has spared two.                        *)
Spared(m, n) ==
    /\ n <= 1 + expiries[m]
    /\ m \notin con.pending \cup con.acked => n <= expiries[m]
    /\ Todo(m) => n <= expiries[m]
    /\ Todo(m) /\ m \notin con.pending \cup con.acked => n + 1 <= expiries[m]

Sparing == \A m \in Msgs : Spared(m, rows[m])

LEMMA SparingStep ==
    ASSUME Typed, Sparing, [Next]_vars
    PROVE  Sparing'
  <1> USE DEF Typed
  <1> SUFFICES ASSUME NEW k \in Msgs
               PROVE  Spared(k, rows[k])'
    BY DEF Sparing
  <1> DEFINE n == rows[k]
  <1>0. /\ expiries[k] \in Nat /\ n \in Nat
        /\ n' = n \/ (phase = "insert" /\ at = k /\ n' = n + 1)
        /\ batch \subseteq con.pending \cup con.due
        /\ phase = "insert" => at \in batch
    BY RowsStep, AtFacts DEF LoopTyped, StoreTyped
  <1>s. Spared(k, n)
    BY DEF Sparing
  <1> SUFFICES Spared(k, n)'
    OBVIOUS
  <1> HIDE DEF n
  <1>1. CASE UNCHANGED <<con, batch, at, phase, expiries>> /\ n' = n
    BY <1>s, <1>1 DEF Spared, Todo
  <1>2. CASE Aside
    BY <1>1, <1>2, AsideFacts DEF n
  <1>3. CASE Fetch
    <2>1. /\ expiries' = expiries /\ phase = "idle" /\ phase' = phase
          /\ con'.pending = con.pending \cup batch'
          /\ con'.acked = con.acked
          /\ batch' \cap (con.pending \cup con.acked) = {}
      BY <1>3, FetchEffect DEF Fetch, tickVars
    <2> QED
      BY <1>0, <1>s, <2>1 DEF Spared, Todo
  <1>4. CASE Crash
    <2>1. batch' = {} /\ UNCHANGED <<con, expiries>>
      BY <1>4 DEF Crash
    <2> QED
      BY <1>0, <1>s, <2>1 DEF Spared, Todo
  <1>5. ASSUME NEW m \in Msgs, Update(m)
        PROVE  Spared(k, n)'
    <2>1. UNCHANGED <<con, batch, expiries, rows>> /\ phase = "idle"
      BY <1>5, UpdateFacts
    <2>2. n' = n
      BY <2>1 DEF n
    <2> QED
      BY <1>0, <1>s, <2>1, <2>2 DEF Spared, Todo
  <1>6. ASSUME NEW m \in Msgs, Working(m)
        PROVE  Spared(k, n)'
    <2>1. /\ UNCHANGED <<con, batch, expiries, at>> /\ at = m
          /\ phase \in {"upsert", "insert", "publish"}
          /\ phase' = "insert" => phase = "upsert"
          /\ phase' \in {"insert", "publish", "ack"}
      BY <1>6, WorkingFacts
    <2> QED
      BY <1>0, <1>s, <2>1 DEF Spared, Todo
  <1>7. ASSUME NEW m \in Msgs, Ack(m)
        PROVE  Spared(k, n)'
    <2>1. /\ batch' = batch \ {m} /\ at = m /\ phase = "ack" /\ phase' = "idle"
          /\ expiries' = expiries
          /\ con'.pending = con.pending \ {m}
          /\ con'.acked = con.acked \cup {m}
      BY <1>7, AckEffect DEF Ack
    <2> QED
      BY <1>0, <1>s, <2>1 DEF Spared, Todo
  <1>8. ASSUME NEW m \in Msgs, LoseAck(m)
        PROVE  Spared(k, n)'
    <2>1. /\ batch' = batch \ {m} /\ at = m /\ phase = "ack" /\ phase' = "idle"
          /\ UNCHANGED <<con, expiries>>
      BY <1>8 DEF LoseAck
    <2> QED
      BY <1>0, <1>s, <2>1 DEF Spared, Todo
  <1>9. ASSUME NEW m \in Msgs, AckTimeout(m)
        PROVE  Spared(k, n)'
    <2>1. UNCHANGED <<batch, at, phase, rows>>
      BY <1>9 DEF AckTimeout, tickVars, storeVars
    <2>2. /\ m \in con.pending
          /\ con'.pending = con.pending \ {m}
          /\ con'.acked = con.acked
      BY <1>9, ExpireEffect
    <2>3. IF k = m THEN expiries'[k] = expiries[k] + 1 ELSE expiries'[k] = expiries[k]
      BY <1>9, ExpireEffect
    <2>4. n' = n
      BY <2>1 DEF n
    <2> QED
      BY <1>0, <1>s, <2>1, <2>2, <2>3, <2>4 DEF Spared, Todo
  <1> QED
    BY <1>2, <1>3, <1>4, <1>5, <1>6, <1>7, <1>8, <1>9, StepCases

(* A message has a second row only because an ack wait ran out.            *)
THEOREM DuplicateRowsHaveCause == Spec => []DuplicateRowsNeedCause
  <1>1. Init => Sparing
    BY DEF Init, Sparing, Spared, Todo
  <1>2. Sparing => DuplicateRowsNeedCause
    BY DEF Sparing, Spared, DuplicateRowsNeedCause
  <1> QED
    BY <1>1, <1>2, SparingStep, TypedAlways, PTL DEF Spec

-----------------------------------------------------------------------------
(* The snapshots of a period.                                              *)

(* The fetch task, or the periodic one, awaits the publish of a snapshot   *)
(* of p.                                                                   *)
Handing(p) == phase = "publish" /\ Product(at) = p
Walking(p) == walk # Asleep /\ order[walk.key] = p

(* A snapshot is due only when none was made in the period; each of the    *)
(* two tasks may have found it due before the other made its own.          *)
Limited(p) ==
    /\ ~fresh[p] => sent[p] = 0
    /\ sent[p] <= 2
    /\ Handing(p) \/ Walking(p) => sent[p] <= 1
    /\ Handing(p) /\ Walking(p) => sent[p] = 0

LEMMA LimitedStep ==
    ASSUME Typed, \A p \in Products : Limited(p), [Next]_vars
    PROVE  \A p \in Products : Limited(p)'
  <1> USE DEF Typed
  <1> SUFFICES ASSUME NEW p \in Products
               PROVE  Limited(p)'
    OBVIOUS
  <1>0. Limited(p) /\ sent[p] \in Nat
    BY DEF DictTyped
  <1>1. ASSUME UNCHANGED <<at, phase>>
        PROVE  Handing(p)' <=> Handing(p)
    <2>1. phase = "publish" => Product(at)' = Product(at)
      BY <1>1, AtFacts, TicksGrow DEF Product
    <2> QED
      BY <1>1, <2>1 DEF Handing
  <1>2. CASE UNCHANGED <<at, phase, order, fresh, sent, walk>>
    <2>1. Walking(p)' <=> Walking(p)
      BY <1>2 DEF Walking, Asleep
    <2> QED
      BY <1>0, <1>1, <1>2, <2>1 DEF Limited
  <1>3. CASE Publish \/ Restart \/ Disconnect \/ UNCHANGED vars
    BY <1>2, <1>3 DEF Publish, Restart, Disconnect, vars, tickVars, stateVars, snapVars
  <1>4. CASE Wake
    <2>1. UNCHANGED <<at, phase, order, fresh, sent>>
      BY <1>4 DEF Wake, tickVars, stateVars, snapVars
    <2>2. Walking(p)' => ~fresh[p]
      BY <1>4, <2>1, WakeEffect DEF Walking
    <2> QED
      BY <1>0, <1>1, <2>1, <2>2 DEF Limited
  <1>5. CASE WalkOn
    <2>1. UNCHANGED <<at, phase, order>>
      BY <1>5 DEF WalkOn, tickVars, stateVars
    <2>2. Walking(p)' => ~fresh'[p]
      BY <1>5, <2>1, WalkOnEffect DEF Walking
    <2>3. SnapshotMade(order[walk.key]) /\ order[walk.key] \in Products /\ walk # Asleep
      BY <1>5, WalkOnEffect, KeyFacts
    <2>4. CASE Walking(p)
      <3>1. fresh'[p] /\ sent'[p] = sent[p] + 1
        BY <2>3, <2>4, SnapshotMadeFacts DEF Walking
      <3> QED
        BY <1>0, <1>1, <2>1, <2>2, <2>4, <3>1 DEF Limited
    <2>5. CASE ~Walking(p)
      <3>1. fresh'[p] = fresh[p] /\ sent'[p] = sent[p]
        BY <2>3, <2>5, SnapshotMadeFacts DEF Walking
      <3> QED
        BY <1>0, <1>1, <2>1, <2>2, <3>1 DEF Limited
    <2> QED
      BY <2>4, <2>5
  <1>6. CASE WalkFails
    <2>1. UNCHANGED <<at, phase, order, fresh, sent>> /\ walk' = Asleep
      BY <1>6 DEF WalkFails, tickVars, stateVars, snapVars
    <2>2. ~Walking(p)'
      BY <2>1 DEF Walking, Asleep
    <2> QED
      BY <1>0, <1>1, <2>1, <2>2 DEF Limited
  <1>7. ASSUME NEW q \in Products, Elapse(q)
        PROVE  Limited(p)'
    <2>1. UNCHANGED <<at, phase, order, walk>>
      BY <1>7 DEF Elapse, tickVars, stateVars
    <2>2. \/ fresh'[p] = fresh[p] /\ sent'[p] = sent[p]
          \/ sent'[p] = 0
      BY <1>7 DEF Elapse, DictTyped
    <2>3. Walking(p)' <=> Walking(p)
      BY <2>1 DEF Walking, Asleep
    <2> QED
      BY <1>0, <1>1, <2>1, <2>2, <2>3 DEF Limited
  <1>8. CASE Fetch
    BY <1>2, <1>8 DEF Fetch, tickVars, stateVars, snapVars
  <1>9. CASE Crash
    <2>1. phase' = "idle" /\ walk' = Asleep /\ sent'[p] = 0
      BY <1>9 DEF Crash
    <2> QED
      BY <2>1 DEF Limited, Handing, Walking, Asleep
  <1>10. ASSUME NEW m \in Msgs, Update(m)
         PROVE  Limited(p)'
    <2>1. /\ UNCHANGED <<fresh, sent, walk>> /\ at' = m /\ Product(m)' = Product(m)
          /\ order' = order \/ order' = Append(order, Product(m))
          /\ Product(m) \in Products
      BY <1>10, UpdateFacts
    <2>2. phase' = "publish" => ~fresh[Product(m)]
      BY <1>10, WritesFacts, SnapshotIfDueFacts DEF Update
    <2>3. Handing(p)' => ~fresh[p]
      BY <2>1, <2>2 DEF Handing, Product
    <2>4. Walking(p)' <=> Walking(p)
      <3>1. \A k \in DOMAIN order : order'[k] = order[k]
        <4>1. order \in Seq(Products)
          BY DEF DictTyped
        <4> QED
          BY <2>1, <4>1
      <3>2. walk # Asleep => order'[walk.key] = order[walk.key]
        BY <3>1, KeyFacts
      <3> QED
        BY <2>1, <3>2 DEF Walking, Asleep
    <2> QED
      BY <1>0, <2>1, <2>3, <2>4 DEF Limited
  <1>11. ASSUME NEW m \in Msgs, Working(m)
         PROVE  Limited(p)'
    <2>1. /\ UNCHANGED <<ticks, order, walk, at>> /\ at = m
          /\ phase' = "publish" => ~fresh[Product(m)]
          /\ Product(m)' = Product(m)
      BY <1>11, WorkingFacts DEF Product
    <2>2. Walking(p)' <=> Walking(p)
      BY <2>1 DEF Walking, Asleep
    <2>3. Handing(p)' => ~fresh[p]
      BY <2>1 DEF Handing, Product
    <2>4. CASE UNCHANGED <<fresh, sent>>
      BY <1>0, <2>2, <2>3, <2>4 DEF Limited
    <2>5. CASE PublishSnapshot(m) /\ SnapshotMade(Product(m))
      <3>1. phase = "publish" /\ phase' = "ack" /\ Product(m) \in Products
        BY <2>1, <2>5, AtFacts DEF PublishSnapshot, Return
      <3>2. ~Handing(p)'
        BY <3>1 DEF Handing
      <3>3. CASE p = Product(m)
        <4>1. Handing(p) /\ fresh'[p] /\ sent'[p] = sent[p] + 1
          BY <2>1, <2>5, <3>1, <3>3, SnapshotMadeFacts DEF Handing
        <4> QED
          BY <1>0, <2>2, <3>2, <4>1 DEF Limited
      <3>4. CASE p # Product(m)
        <4>1. fresh'[p] = fresh[p] /\ sent'[p] = sent[p]
          BY <2>5, <3>1, <3>4, SnapshotMadeFacts
        <4> QED
          BY <1>0, <2>2, <3>2, <4>1 DEF Limited
      <3> QED
        BY <3>3, <3>4
    <2> QED
      BY <1>11, <2>4, <2>5 DEF Working, Upsert, UpsertFails, Insert, InsertFails,
                               PublishSnapshot, snapVars
  <1>12. ASSUME NEW m \in Msgs, Ack(m) \/ LoseAck(m)
         PROVE  Limited(p)'
    <2>1. UNCHANGED <<order, fresh, sent, walk>> /\ phase' = "idle"
      BY <1>12 DEF Ack, LoseAck, stateVars, snapVars
    <2>2. (Walking(p)' <=> Walking(p)) /\ ~Handing(p)'
      BY <2>1 DEF Walking, Handing, Asleep
    <2> QED
      BY <1>0, <2>1, <2>2 DEF Limited
  <1>13. ASSUME NEW m \in Msgs, AckTimeout(m)
         PROVE  Limited(p)'
    BY <1>2, <1>13 DEF AckTimeout, tickVars, stateVars, snapVars
  <1> QED
    BY <1>3, <1>4, <1>5, <1>6, <1>7, <1>8, <1>9, <1>10, <1>11, <1>12, <1>13, StepCases
       DEF Aside

(* In one period a product gets at most one snapshot of each task.         *)
THEOREM TwoAtMost == Spec => []TwoSnapshotsPerPeriod
  <1> DEFINE Limits == \A p \in Products : Limited(p)
  <1>1. Init => Limits
    BY DEF Init, Limited, Handing, Walking
  <1>2. Limits => TwoSnapshotsPerPeriod
    BY DEF Limited, TwoSnapshotsPerPeriod
  <1>3. Typed /\ Limits /\ [Next]_vars => Limits'
    BY LimitedStep
  <1> HIDE DEF Limits
  <1> QED
    BY <1>1, <1>2, <1>3, TypedAlways, PTL DEF Spec

-----------------------------------------------------------------------------
(* The sides of a row.                                                     *)

(* What the process wrote it wrote from its states, and a state never      *)
(* loses a side.                                                           *)
SidesKept ==
    \A p \in wrote \cap Products, s \in Sides :
        row[p].side[s] # 0 => states[p].side[s] # 0

LEMMA SidesKeptStep ==
    ASSUME Typed, SidesKept, [Next]_vars
    PROVE  SidesKept'
  <1> USE DEF Typed
  <1>1. CASE UNCHANGED <<row, states, wrote>>
    BY <1>1 DEF SidesKept
  <1>2. CASE Aside
    BY <1>1, <1>2, AsideFacts
  <1>3. CASE Crash
    BY <1>3 DEF Crash, SidesKept
  <1>4. ASSUME NEW m \in Msgs, Update(m)
        PROVE  SidesKept'
    <2>1. /\ UNCHANGED <<row, wrote>> /\ Product(m) \in Products /\ m \in DOMAIN ticks
          /\ states'[Product(m)] = Merged(states[Product(m)], m)
          /\ \A q \in Products : q # Product(m) => states'[q] = states[q]
      BY <1>4, UpdateFacts
    <2>2. \A s \in Sides : states[Product(m)].side[s] # 0
                                => states'[Product(m)].side[s] # 0
      BY <2>1, MergedFacts DEF DictTyped
    <2> QED
      BY <2>1, <2>2 DEF SidesKept
  <1>5. ASSUME NEW m \in Msgs, Working(m)
        PROVE  SidesKept'
    <2>1. states' = states
      BY <1>5, WorkingFacts
    <2>2. CASE WriteRow(m)
      <3>1. /\ wrote' = wrote \cup {Product(m)}
            /\ \A q \in Products : IF q = Product(m) THEN row'[q] = states[q]
                                                     ELSE row'[q] = row[q]
        BY <2>2 DEF WriteRow, StoreTyped, Tables
      <3> QED
        BY <2>1, <3>1 DEF SidesKept
    <2>3. CASE UNCHANGED <<row, wrote>>
      BY <1>1, <2>1, <2>3
    <2> QED
      BY <1>5, <2>2, <2>3 DEF Working, Upsert, UpsertFails, Insert, InsertFails,
                              PublishSnapshot, WriteRowMaybe, storeVars
  <1>6. CASE Fetch \/ \E m \in Msgs : Ack(m) \/ LoseAck(m) \/ AckTimeout(m)
    BY <1>1, <1>6 DEF Fetch, Ack, LoseAck, AckTimeout, stateVars, storeVars
  <1> QED
    BY <1>2, <1>3, <1>4, <1>5, <1>6, StepCases

(* A row that the process has written since its start keeps its sides.     *)
THEOREM SidesLostByRestart == Spec => SidesLostNeedRestart
  <1>1. Init => SidesKept
    BY DEF Init, SidesKept
  <1>2. Typed /\ SidesKept /\ [Next]_vars => SidesKept'
    BY SidesKeptStep
  <1>3. Typed /\ SidesKept /\ [Next]_vars
        => [\A p \in Products, s \in Sides :
              row[p].side[s] # 0 /\ row'[p].side[s] = 0 => p \notin wrote]_vars
    <2> SUFFICES ASSUME Typed, SidesKept, [Next]_vars, NEW p \in Products, NEW s \in Sides,
                        row[p].side[s] # 0, row'[p].side[s] = 0, p \in wrote
                 PROVE  FALSE
      OBVIOUS
    <2>1. row'[p] = row[p] \/ row'[p] = states[p]
      BY RowStep DEF Typed
    <2> QED
      BY <2>1 DEF SidesKept
  <1> QED
    BY <1>1, <1>2, <1>3, TypedAlways, PTL DEF Spec, SidesLostNeedRestart

-----------------------------------------------------------------------------
(* The order of the ticks and of their numbers.                            *)

(* The ticks a state or a row comes from: the one it was last updated with *)
(* and those of its sides.                                                 *)
Sources(x) == {x.last} \cup {x.side[s] : s \in Sides}

(* The ticks that are in a state or in a row.                              *)
Seen == {n \in Nat \ {0} : \E p \in Products : n \in Sources(states[p])
                                                    \/ n \in Sources(row[p])}

(* A step sees no other tick, but for the one it begins to work on.        *)
LEMMA SeenStep ==
    ASSUME Typed, [Next]_vars
    PROVE  \/ Seen' \subseteq Seen
           \/ \E m \in Msgs : Update(m) /\ Seen' \subseteq Seen \cup {m}
  <1> USE DEF Typed
  <1>1. ASSUME \A p \in Products : /\ states'[p] \in {states[p], NoState}
                                   /\ row'[p] \in {row[p], states[p]}
        PROVE  Seen' \subseteq Seen
    <2> SUFFICES ASSUME NEW n \in Seen'
                 PROVE  n \in Seen
      OBVIOUS
    <2>1. PICK p \in Products : n \in Sources(states'[p]) \/ n \in Sources(row'[p])
      BY DEF Seen, Sources
    <2>2. n \notin Sources(NoState)
      BY DEF Seen, Sources, NoState
    <2>3. n \in Sources(states[p]) \/ n \in Sources(row[p])
      BY <1>1, <2>1, <2>2
    <2> QED
      BY <2>3 DEF Seen
  <1>2. \A p \in Products : row'[p] \in {row[p], states[p]}
    BY RowStep
  <1>3. CASE states' = states
    BY <1>1, <1>2, <1>3
  <1>4. CASE Crash
    BY <1>1, <1>2, <1>4 DEF Crash
  <1>5. ASSUME NEW m \in Msgs, Update(m)
        PROVE  Seen' \subseteq Seen \cup {m}
    <2>1. /\ row' = row /\ Product(m) \in Products /\ m \in DOMAIN ticks
          /\ states'[Product(m)] = Merged(states[Product(m)], m)
          /\ \A q \in Products : q # Product(m) => states'[q] = states[q]
      BY <1>5, UpdateFacts
    <2>2. Sources(states'[Product(m)]) \subseteq Sources(states[Product(m)]) \cup {m}
      <3>1. /\ states'[Product(m)].last = m
            /\ \A s \in Sides : \/ states'[Product(m)].side[s] = m
                               \/ states'[Product(m)].side[s] = states[Product(m)].side[s]
        BY <2>1, MergedFacts DEF DictTyped
      <3> QED
        BY <3>1 DEF Sources
    <2> QED
      BY <2>1, <2>2 DEF Seen
  <1>6. states' = states \/ Crash \/ \E m \in Msgs : Update(m)
    BY StepCases, AsideFacts, WorkingFacts
       DEF Fetch, Ack, LoseAck, AckTimeout, stateVars
  <1> QED
    BY <1>3, <1>4, <1>5, <1>6

(* What was delivered is a prefix of the shard and holds all that was      *)
(* seen; what is due, or came again, had its ack wait run out, and comes   *)
(* before the rest of its batch; so a message of the batch whose ack wait  *)
(* never ran out is not before anything seen.                              *)
Advancing ==
    /\ IsPrefix(con)
    /\ Seen \subseteq DeliveredTo(con)
    /\ \A m \in con.due \cup again : expiries[m] > 0
    /\ \A m \in batch \ again, k \in again : k < m
    /\ \A m \in batch : expiries[m] = 0 => \A n \in Seen : n <= m

LEMMA AdvancingStep ==
    ASSUME Typed, Advancing, [Next]_vars
    PROVE  Advancing'
  <1> USE DEF Typed
  <1>0. /\ \A m \in Msgs : expiries[m] \in Nat
        /\ Msgs \subseteq Nat
        /\ DeliveredTo(con) \subseteq Msgs /\ batch \subseteq DeliveredTo(con)
        /\ con.due \subseteq DeliveredTo(con)
        /\ again \subseteq Msgs
        /\ Seen \subseteq Nat
    BY TickFacts DEF LoopTyped, Consumers, DeliveredTo, Msgs, Seen
  <1>1. ASSUME ~ \E m \in Msgs : Update(m)
        PROVE  Seen' \subseteq Seen
    BY <1>1, SeenStep
  <1>2. CASE Aside
    <2>1. UNCHANGED <<con, batch, again, expiries, states, row>>
      BY <1>2, AsideFacts
    <2>2. Seen' = Seen
      BY <2>1 DEF Seen
    <2> QED
      BY <2>1, <2>2 DEF Advancing, IsPrefix, DeliveredTo
  <1>3. CASE Fetch
    <2>1. PICK B \in Batches(con, Len(ticks), BatchSize) :
              con' = Deliver(con, B) /\ batch' = B /\ again' = B \cap con.due
      BY <1>3, FetchEffect
    <2>2. /\ con \in Consumers(1..Len(ticks)) /\ Len(ticks) \in Nat
          /\ BatchSize \in Nat /\ IsPrefix(con)
      BY TickFacts, SnapshotterAssumption DEF LoopTyped, Advancing
    <2>3. /\ DeliveredTo(con') = DeliveredTo(con) \cup batch'
          /\ IsPrefix(con')
          /\ \A m \in batch' \ con.due, k \in DeliveredTo(con) : k < m
      BY <2>1, <2>2, DeliveryOrder
    <2>4. con'.due \subseteq con.due /\ again' \subseteq con.due
      BY <1>3, <2>1, FetchEffect
    <2>5. UNCHANGED <<expiries, states, row>>
      BY <1>3 DEF Fetch, stateVars, storeVars
    <2>6. Seen' = Seen /\ Seen \subseteq DeliveredTo(con)
      BY <2>5 DEF Seen, Advancing
    <2>7. \A m \in con'.due \cup again' : expiries'[m] > 0
      BY <2>4, <2>5 DEF Advancing
    <2>8. \A m \in batch' \ again', k \in again' : k < m
      BY <1>0, <2>1, <2>3, <2>4
    <2>9. ASSUME NEW m \in batch', expiries'[m] = 0, NEW n \in Seen
          PROVE  n <= m
      <3>1. m \notin con.due
        <4>1. m \in con.due => expiries[m] > 0
          BY DEF Advancing
        <4> QED
          BY <2>5, <2>9, <4>1
      <3>2. n < m /\ n \in Nat /\ m \in Nat
        BY <1>0, <1>3, <2>3, <2>6, <3>1, FetchEffect, TickFacts
      <3> QED
        BY <3>2
    <2> QED
      BY <2>3, <2>6, <2>7, <2>8, <2>9 DEF Advancing
  <1>4. CASE Crash
    <2>1. UNCHANGED <<con, expiries>> /\ batch' = {} /\ again' = {}
      BY <1>4 DEF Crash
    <2>2. Seen' \subseteq Seen
      <3>1. ~ \E m \in Msgs : Update(m)
        BY <1>4, TurnFacts DEF Update, Crash, shardVars
      <3> QED
        BY <1>1, <3>1
    <2> QED
      BY <2>1, <2>2 DEF Advancing, IsPrefix, DeliveredTo
  <1>5. ASSUME NEW m \in Msgs, Update(m)
        PROVE  Advancing'
    <2>1. UNCHANGED <<con, batch, again, expiries>> /\ m \in batch
          /\ m \in NextOf(batch, again)
      BY <1>5, UpdateFacts
    <2>2. Seen' \subseteq Seen \cup {m}
      <3>1. \A k \in Msgs : Update(k) => k = m
        BY <1>5 DEF Update
      <3> QED
        BY <3>1, SeenStep
    <2>3. ASSUME NEW k \in batch, expiries[k] = 0
          PROVE  m <= k
      <3>1. k \notin again /\ k \in Nat /\ m \in Nat
        <4>1. k \in again => expiries[k] > 0
          BY DEF Advancing
        <4> QED
          BY <1>0, <2>1, <2>3, <4>1
      <3>2. CASE m \in again
        BY <3>1, <3>2 DEF Advancing
      <3> QED
        BY <2>1, <3>2, NextFacts
    <2>4. \A k \in batch' : expiries'[k] = 0 => \A n \in Seen' : n <= k
      BY <2>1, <2>2, <2>3 DEF Advancing
    <2>5. Seen' \subseteq DeliveredTo(con)
      BY <1>0, <2>1, <2>2 DEF Advancing
    <2> QED
      BY <2>1, <2>4, <2>5 DEF Advancing, IsPrefix, DeliveredTo
  <1>6. ASSUME NEW m \in Msgs, Working(m)
        PROVE  Advancing'
    <2>1. UNCHANGED <<con, batch, again, expiries, at>> /\ at = m /\ m # NoMsg
      BY <1>6, WorkingFacts, AtFacts
    <2>2. Seen' \subseteq Seen
      <3>1. ~ \E k \in Msgs : Update(k)
        BY <2>1 DEF Update, Turn
      <3> QED
        BY <1>1, <3>1
    <2> QED
      BY <2>1, <2>2 DEF Advancing, IsPrefix, DeliveredTo
  <1>7. ASSUME NEW m \in Msgs, Ack(m) \/ LoseAck(m)
        PROVE  Advancing'
    <2>1. /\ batch' = batch \ {m} /\ UNCHANGED <<again, expiries, states, row>>
          /\ m \in batch
      BY <1>7, AtFacts DEF Ack, LoseAck, stateVars, storeVars
    <2>2. /\ con'.due \subseteq con.due /\ DeliveredTo(con') = DeliveredTo(con)
      <3>1. CASE Ack(m)
        <4>1. con' = AckMessage(con, m) /\ m \in DeliveredTo(con)
          BY <1>0, <2>1, <3>1 DEF Ack
        <4>2. con'.due \subseteq con.due
          BY <3>1, AckEffect
        <4> QED
          BY <4>1, <4>2, DeliveredStays DEF LoopTyped
      <3>2. CASE LoseAck(m)
        BY <3>2 DEF LoseAck
      <3> QED
        BY <1>7, <3>1, <3>2
    <2>3. Seen' = Seen
      BY <2>1 DEF Seen
    <2> QED
      BY <2>1, <2>2, <2>3 DEF Advancing, IsPrefix
  <1>8. ASSUME NEW m \in Msgs, AckTimeout(m)
        PROVE  Advancing'
    <2>1. UNCHANGED <<batch, again, states, row>>
      BY <1>8 DEF AckTimeout, stateVars, storeVars
    <2>2. con'.due = con.due \cup {m} /\ DeliveredTo(con') = DeliveredTo(con)
      <3>1. con' = Expire(con, m) /\ m \in DeliveredTo(con)
        BY <1>8 DEF AckTimeout, DeliveredTo
      <3>2. con'.due = con.due \cup {m}
        BY <1>8, ExpireEffect
      <3> QED
        BY <3>1, <3>2, DeliveredStays DEF LoopTyped
    <2>3. /\ expiries'[m] > 0
          /\ \A k \in Msgs : expiries'[k] = 0 => expiries[k] = 0
          /\ \A k \in Msgs : expiries[k] > 0 => expiries'[k] > 0
      BY <1>0, <1>8, ExpireEffect
    <2>4. Seen' = Seen
      BY <2>1 DEF Seen
    <2>5. \A k \in con'.due \cup again' : expiries'[k] > 0
      BY <1>0, <2>1, <2>2, <2>3 DEF Advancing
    <2>6. \A k \in batch' : expiries'[k] = 0 => \A n \in Seen' : n <= k
      BY <1>0, <2>1, <2>3, <2>4 DEF Advancing
    <2> QED
      BY <2>1, <2>2, <2>4, <2>5, <2>6 DEF Advancing, IsPrefix
  <1> QED
    BY <1>2, <1>3, <1>4, <1>5, <1>6, <1>7, <1>8, StepCases

LEMMA AdvancingStarts == Init => Advancing
  <1> SUFFICES ASSUME Init PROVE Advancing
    OBVIOUS
  <1>1. Seen = {}
    BY DEF Init, Seen, Sources, NoState
  <1> QED
    BY <1>1, NewConsumerFacts DEF Init, Advancing, IsPrefix, DeliveredTo

LEMMA AdvancingAlways == Spec => []Advancing
  BY AdvancingStarts, AdvancingStep, TypedAlways, PTL DEF Spec

(* The last_seq of a state is the number of the tick it was last updated   *)
(* with.                                                                   *)
Numbered(x) == x.last # 0 => x.last \in DOMAIN ticks /\ x.last_seq = ticks[x.last].seq

AllNumbered == \A p \in Products : Numbered(states[p]) /\ Numbered(row[p])

LEMMA AllNumberedStep ==
    ASSUME Typed, AllNumbered, [Next]_vars
    PROVE  AllNumbered'
  <1> USE DEF Typed
  <1>1. /\ DOMAIN ticks \subseteq DOMAIN ticks'
        /\ \A m \in DOMAIN ticks : ticks'[m] = ticks[m]
    BY TicksGrow
  <1>2. ASSUME NEW p \in Products
        PROVE  Numbered(row[p])'
    <2>1. row'[p] = row[p] \/ row'[p] = states[p]
      BY RowStep
    <2> QED
      BY <1>1, <2>1 DEF AllNumbered, Numbered
  <1>3. ASSUME NEW p \in Products
        PROVE  Numbered(states[p])'
    <2>1. CASE states'[p] = states[p]
      BY <1>1, <2>1 DEF AllNumbered, Numbered
    <2>2. CASE Crash
      BY <2>2 DEF Crash, Numbered, NoState
    <2>3. ASSUME NEW m \in Msgs, Update(m), p = Product(m)
          PROVE  Numbered(states[p])'
      <3>1. /\ states'[p] = Merged(states[p], m) /\ m \in DOMAIN ticks
            /\ ticks' = ticks /\ states \in Tables
        BY <2>3, UpdateFacts DEF DictTyped
      <3> QED
        BY <3>1, MergedFacts DEF Numbered
    <2>4. states' = states \/ Crash \/ \E m \in Msgs : Update(m)
      BY StepCases, AsideFacts, WorkingFacts
         DEF Fetch, Ack, LoseAck, AckTimeout, stateVars
    <2> QED
      BY <2>1, <2>2, <2>3, <2>4, UpdateFacts
  <1> QED
    BY <1>2, <1>3 DEF AllNumbered

LEMMA AllNumberedAlways == Spec => []AllNumbered
  <1>1. Init => AllNumbered
    BY DEF Init, AllNumbered, Numbered, NoState
  <1>2. Typed /\ AllNumbered /\ [Next]_vars => AllNumbered'
    BY AllNumberedStep
  <1> QED
    BY <1>1, <1>2, TypedAlways, PTL DEF Spec

(* A row goes back in the shard only with a tick whose ack wait ran out.   *)
LEMMA RowBack ==
    ASSUME Typed, Advancing, [Next]_vars, NEW p \in Products,
           row'[p].last < row[p].last
    PROVE  expiries[row'[p].last] > 0
  <1> USE DEF Typed
  <1>1. row[p].last \in Nat
    BY StateFacts, TickFacts DEF StoreTyped
  <1>2. phase = "upsert" /\ row'[p] = states[p] /\ p = Product(at)
    BY <1>1, RowStep
  <1>3. row'[p].last = at /\ at \in batch /\ at \in Msgs /\ at \in Nat
    BY <1>2, AtFacts DEF DictTyped, Msgs
  <1>4. row[p].last \in Seen
    BY <1>1, <1>3 DEF Seen, Sources
  <1>5. expiries[at] # 0
    BY <1>1, <1>3, <1>4 DEF Advancing
  <1> QED
    BY <1>3, <1>5 DEF LoopTyped

(* The last_seq of a row goes back only with a tick whose ack wait ran     *)
(* out, or with one that the shard has behind the tick of the row.         *)
THEOREM RegressHasCause == Spec => RowRegressNeedsCause
  <1>1. Typed /\ Advancing /\ AllNumbered /\ [Next]_vars
        => [\A p \in Products :
              row'[p].last_seq < row[p].last_seq
                => expiries[row'[p].last] > 0 \/ row[p].last < row'[p].last]_vars
    <2> SUFFICES ASSUME Typed, Advancing, AllNumbered, [Next]_vars, NEW p \in Products,
                        row'[p].last_seq < row[p].last_seq,
                        ~(row[p].last < row'[p].last)
                 PROVE  expiries[row'[p].last] > 0
      OBVIOUS
    <2>1. /\ row[p].last \in Nat /\ row'[p].last \in Nat
          /\ row[p].last_seq \in Nat /\ row'[p].last_seq \in Nat
          /\ row[p].last = 0 => row[p].last_seq = 0
      <3>1. row'[p] = row[p] \/ row'[p] = states[p]
        BY RowStep DEF Typed
      <3>2. row \in Tables /\ states \in Tables /\ MaxPublished \in Nat
        BY SnapshotterAssumption DEF Typed, DictTyped, StoreTyped
      <3> QED
        BY <3>1, <3>2, StateFacts
    <2>2. row'[p].last # row[p].last
      <3>1. SUFFICES ASSUME row'[p].last = row[p].last, row[p].last # 0
                     PROVE  FALSE
        BY <2>1
      <3>2. row[p].last \in DOMAIN ticks /\ row[p].last_seq = ticks[row[p].last].seq
        BY <3>1 DEF AllNumbered, Numbered
      <3>3. row'[p].last_seq = ticks'[row'[p].last].seq
        BY <3>1, AllNumberedStep DEF AllNumbered, Numbered
      <3>4. ticks'[row[p].last] = ticks[row[p].last]
        BY <3>2, TicksGrow DEF Typed
      <3> QED
        BY <2>1, <3>1, <3>2, <3>3, <3>4
    <2> QED
      BY <2>1, <2>2, RowBack
  <1> QED
    BY <1>1, AdvancingAlways, AllNumberedAlways, TypedAlways, PTL
       DEF Spec, RowRegressNeedsCause

(* No side of a state is from a later message of the shard than the one    *)
(* the state was last updated with, but for such a tick.                   *)
NotAhead(x) == \A s \in Sides : x.side[s] > x.last => expiries[x.last] > 0

LEMMA NotAheadStays ==
    ASSUME Typed, [Next]_vars, NEW t \in Tables, NEW p \in Products, NotAhead(t[p])
    PROVE  \A s \in Sides : t[p].side[s] > t[p].last => expiries'[t[p].last] > 0
  <1> USE DEF Typed
  <1>1. /\ t[p].last \in 0..MaxPublished /\ MaxPublished \in Nat
        /\ t[p].last = 0 => \A s \in Sides : t[p].side[s] = 0
    BY StateFacts, SnapshotterAssumption
  <1>2. \A k \in Msgs : expiries[k] > 0 => expiries'[k] > 0
    <2>1. expiries' = expiries \/ \E m \in Msgs : AckTimeout(m)
      BY StepCases, AsideFacts, WorkingFacts
         DEF Fetch, Crash, Update, Ack, LoseAck, shardVars
    <2> QED
      BY <2>1, ExpireEffect DEF LoopTyped
  <1> QED
    BY <1>1, <1>2 DEF NotAhead, Msgs

AllInOrder == \A p \in Products : NotAhead(states[p]) /\ NotAhead(row[p])

LEMMA AllInOrderStep ==
    ASSUME Typed, Advancing, AllInOrder, [Next]_vars
    PROVE  AllInOrder'
  <1> USE DEF Typed
  <1>0. \A p \in Products : NotAhead(states[p]) /\ NotAhead(row[p])
    BY DEF AllInOrder
  <1>1. ASSUME NEW p \in Products
        PROVE  NotAhead(row[p])'
    <2>1. row'[p] = row[p] \/ row'[p] = states[p]
      BY RowStep
    <2>2. states \in Tables /\ row \in Tables
      BY DEF DictTyped, StoreTyped
    <2> QED
      BY <1>0, <2>1, <2>2, NotAheadStays DEF NotAhead
  <1>2. ASSUME NEW p \in Products
        PROVE  NotAhead(states[p])'
    <2>1. CASE states'[p] = states[p]
      BY <1>0, <2>1, NotAheadStays DEF NotAhead, DictTyped
    <2>2. CASE Crash
      BY <2>2 DEF Crash, NotAhead, NoState
    <2>3. ASSUME NEW m \in Msgs, Update(m), p = Product(m)
          PROVE  NotAhead(states[p])'
      <3>1. /\ states'[p] = Merged(states[p], m) /\ m \in DOMAIN ticks /\ m \in batch
            /\ expiries' = expiries /\ states \in Tables
        BY <2>3, UpdateFacts DEF DictTyped
      <3>2. /\ states'[p].last = m /\ m \in Nat /\ expiries[m] \in Nat
            /\ \A s \in Sides : \/ states'[p].side[s] = m
                                \/ states'[p].side[s] = states[p].side[s]
        BY <3>1, MergedFacts DEF LoopTyped, Msgs
      <3>3. \A s \in Sides : /\ states[p].side[s] \in Nat
                             /\ states[p].side[s] > 0 => states[p].side[s] \in Seen
        BY <3>1, StateFacts DEF Seen, Sources
      <3>4. \A s \in Sides : states'[p].side[s] > m => expiries[m] > 0
        BY <3>1, <3>2, <3>3 DEF Advancing
      <3> QED
        BY <3>1, <3>2, <3>4 DEF NotAhead
    <2>4. states' = states \/ Crash \/ \E m \in Msgs : Update(m)
      BY StepCases, AsideFacts, WorkingFacts
         DEF Fetch, Ack, LoseAck, AckTimeout, stateVars
    <2> QED
      BY <2>1, <2>2, <2>3, <2>4, UpdateFacts
  <1> QED
    BY <1>1, <1>2 DEF AllInOrder

LEMMA AllInOrderAlways == Spec => []AllInOrder
  <1>1. Init => AllInOrder
    BY DEF Init, AllInOrder, NotAhead, NoState
  <1>2. Typed /\ Advancing /\ AllInOrder /\ [Next]_vars => AllInOrder'
    BY AllInOrderStep
  <1> QED
    BY <1>1, <1>2, AdvancingAlways, TypedAlways, PTL DEF Spec

(* A state or a row has a side with a greater number than its last_seq     *)
(* only if the tick it was last updated with was delivered again, or is    *)
(* behind that of the side in the shard.                                   *)
THEOREM SidesAheadHaveCause == Spec => []SidesNotAhead
  <1>1. Typed /\ AllInOrder /\ AllNumbered => SidesNotAhead
    <2> SUFFICES ASSUME Typed, AllInOrder, AllNumbered,
                        NEW p \in Products, NEW s \in Sides, NEW x \in {states[p], row[p]},
                        Ahead(x, s), ~(x.side[s] < x.last)
                 PROVE  expiries[x.last] > 0
      BY DEF SidesNotAhead
    <2>1. NotAhead(x) /\ Numbered(x)
      BY DEF AllInOrder, AllNumbered
    <2>2. /\ x.last \in Nat /\ x.last_seq \in Nat /\ x.side[s] \in Nat
          /\ x.last = 0 => x.side[s] = 0
      <3>1. states \in Tables /\ row \in Tables /\ MaxPublished \in Nat
        BY SnapshotterAssumption DEF Typed, DictTyped, StoreTyped
      <3> QED
        BY <3>1, StateFacts
    <2>3. x.side[s] # x.last
      <3>1. x.last # 0 => ticks[x.last].seq = x.last_seq
        BY <2>1 DEF Numbered
      <3> QED
        BY <2>2, <3>1 DEF Ahead
    <2> QED
      BY <2>1, <2>2, <2>3 DEF NotAhead
  <1> QED
    BY <1>1, AllInOrderAlways, AllNumberedAlways, TypedAlways, PTL

=============================================================================
