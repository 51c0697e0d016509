---------------------------- MODULE Snapshotter ----------------------------
(***************************************************************************)
(* One snapshotter (src/services/snapshotter/app.py) with its Postgres     *)
(* store (src/services/common/pg_store.py).  The fetch loop of its shard   *)
(* (ShardConsumer) calls _process_tick, which merges the tick into the     *)
(* state of its product, upserts that state into the row of the product,   *)
(* inserts the tick into tick_history and publishes a snapshot if one is   *)
(* due.  A second task publishes the snapshots that are due once a period. *)
(* Both run on one event loop and interleave at their awaits.              *)
(*                                                                         *)
(* A tick is a message of the shard, named by its position, and has a      *)
(* sequence number of its own.  Nothing makes the numbers rise along the   *)
(* shard: the feed may send a tick late, the normalizer only logs that,    *)
(* and with the stream and subjects of normalizer.json it publishes what   *)
(* it fetched to the shard again.  A state has the number it was given,    *)
(* and, for each of the three sides of a book, the tick it was taken from. *)
(***************************************************************************)
EXTENDS JetStream, Integers, Sequences

CONSTANTS
    Products,       \* products of the shard
    Sides,          \* last_trade, best_bid, best_ask
    Shards,         \* the sequences of ticks the shard may come to hold; a
                    \* tick is a product, a sequence number and the sides
                    \* it has
    BatchSize,      \* messages per fetch: 10 in the code
    MaxPublished,   \* bound: ticks published to the shard
    MaxFaults,      \* bound: crashes and lost acks
    MaxStoreFaults  \* bound: failed statements, breaks of the connection to
                    \* Postgres, and failed publishes of a snapshot

Ticks == [product : Products, seq : Nat, sides : SUBSET Sides]

ASSUME SnapshotterAssumption ==
    /\ BatchSize \in Nat \ {0}
    /\ MaxPublished \in Nat /\ MaxFaults \in Nat /\ MaxStoreFaults \in Nat
    /\ \A s \in Shards : s \in Seq(Ticks) /\ Len(s) = MaxPublished

VARIABLES
    ticks,       \* the shard
    con,         \* the server's record of the durable consumer
    up,          \* the process runs
    batch,       \* msgs: what is left of the last fetch, the current one too
    again,       \* the messages of the last fetch that were delivered again
    at,          \* the message _process_tick works on, or NoMsg
    phase,       \* what it waits for: upsert, insert, publish or ack
    states,      \* self.product_states, NoState for a product it lacks
    order,       \* its keys, in the order of insertion
    fresh,       \* the period since the product's last snapshot is not over
    walk,        \* the periodic task: the key it publishes for, 0 when asleep,
                 \* and the size of the dict its iterator saw
    ready,       \* self._store_ready
    connected,   \* the connection to Postgres works
    row,         \* the table snapshots, NoState for a product without a row
    rows,        \* the table tick_history: rows per message
    handled,     \* history: calls of _process_tick that returned, per message
    expiries,    \* history: ack waits that ran out, per message
    missed,      \* history: messages a crash took from a batch
    behind,      \* history: products whose last state may not be in the row
    unrecorded,  \* history: messages whose insert failed or was skipped
    wrote,       \* history: products whose row the process wrote since its start
    sent,        \* history: snapshots per product in the current period
    faults,      \* faults of the loop so far
    storeFaults  \* faults of the store and of the publishes so far

shardVars == <<ticks, con, up, batch, again, expiries, missed, faults>>
tickVars  == <<at, phase, handled>>
stateVars == <<states, order>>
snapVars  == <<fresh, sent>>
storeVars == <<ready, connected, row, rows, behind, unrecorded, wrote>>
vars == <<shardVars, tickVars, stateVars, snapVars, walk, storeVars, storeFaults>>

Msgs    == 1..MaxPublished
NoState == [last_seq |-> 0, last |-> 0, side |-> [s \in Sides |-> 0]]
Asleep  == [key |-> 0, used |-> 0]
Product(m) == ticks[m].product

(* A bug the properties must notice: the messages of a batch handled in    *)
(* any order.                                                              *)
AnyTurn(m) == at = NoMsg /\ m \in batch

(* The `for msg in msgs` loop comes to message m. *)
Turn(m) == at = NoMsg /\ m \in NextOf(batch, again)

Fault ==
    /\ faults < MaxFaults
    /\ faults' = faults + 1

StoreFault ==
    /\ storeFaults < MaxStoreFaults
    /\ storeFaults' = storeFaults + 1

(* A statement raises: at once when the connection broke. *)
StatementRaises ==
    \/ ~connected /\ UNCHANGED storeFaults
    \/ connected /\ StoreFault

-----------------------------------------------------------------------------
Init ==
    /\ ticks = << >>
    /\ con = NewConsumer
    /\ up = TRUE
    /\ batch = {} /\ again = {}
    /\ at = NoMsg /\ phase = "idle"
    /\ states = [p \in Products |-> NoState] /\ order = << >>
    /\ fresh = [p \in Products |-> FALSE]
    /\ walk = Asleep
    /\ ready \in BOOLEAN /\ connected = TRUE
    /\ row = [p \in Products |-> NoState]
    /\ rows = [m \in Msgs |-> 0]
    /\ handled = [m \in Msgs |-> 0]
    /\ expiries = [m \in Msgs |-> 0]
    /\ missed = {} /\ behind = {} /\ unrecorded = {} /\ wrote = {}
    /\ sent = [p \in Products |-> 0]
    /\ faults = 0 /\ storeFaults = 0

(* A tick is published to the shard. *)
Publish ==
    /\ Len(ticks) < MaxPublished
    /\ \E s \in Shards : /\ ticks = SubSeq(s, 1, Len(ticks))
                        /\ ticks' = Append(ticks, s[Len(ticks) + 1])
    /\ UNCHANGED <<con, up, batch, again, expiries, missed, faults, tickVars,
                   stateVars, snapVars, walk, storeVars, storeFaults>>

(* sub.fetch(10, timeout=1.0) returns messages. *)
Fetch ==
    /\ up
    /\ batch = {}
    /\ \E B \in Batches(con, Len(ticks), BatchSize) :
        /\ con' = Deliver(con, B)
        /\ batch' = B
        /\ again' = B \cap con.due
    /\ UNCHANGED <<ticks, up, expiries, missed, faults, tickVars, stateVars,
                   snapVars, walk, storeVars, storeFaults>>

(* _process_tick returns, and the loop goes on to the ack. *)
Return(m) ==
    /\ phase' = "ack"
    /\ handled' = [handled EXCEPT ![m] = @ + 1]

(* _should_create_snapshot, and _create_snapshot up to its await. *)
SnapshotIfDue(m) ==
    IF fresh[Product(m)]
    THEN Return(m)
    ELSE phase' = "publish" /\ UNCHANGED handled

(* Another: a tick without a side takes it from the state. *)
Replaced(state, m) ==
    [last_seq |-> ticks[m].seq,
     last |-> m,
     side |-> [s \in Sides |-> IF s \in ticks[m].sides THEN m ELSE 0]]

(* _update_product_state: the sides the tick has replace those of the      *)
(* state, last_seq is the tick's number, whatever it was, and last_update  *)
(* is now: the update is named by the tick it was made with.               *)
Merged(state, m) ==
    [last_seq |-> ticks[m].seq,
     last |-> m,
     side |-> [s \in Sides |-> IF s \in ticks[m].sides THEN m ELSE state.side[s]]]

(* Another: the writes do not look at _store_ready. *)
WritesAnyway(m) ==
    phase' = "upsert" /\ UNCHANGED <<handled, behind, unrecorded>>

(* A store that never got ready is skipped by both writes. *)
Writes(m) ==
    IF ready
    THEN phase' = "upsert" /\ UNCHANGED <<handled, behind, unrecorded>>
    ELSE /\ SnapshotIfDue(m)
         /\ behind' = behind \cup {Product(m)}
         /\ unrecorded' = unrecorded \cup {m}

(* _process_tick up to its first await. *)
Update(m) ==
    /\ up /\ Turn(m)
    /\ at' = m
    /\ states' = [states EXCEPT ![Product(m)] = Merged(@, m)]
    /\ order' = IF states[Product(m)] = NoState
                THEN Append(order, Product(m)) ELSE order
    /\ Writes(m)
    /\ UNCHANGED <<shardVars, snapVars, walk, ready, connected, row, rows, wrote,
                   storeFaults>>

(* Another: an upsert that keeps the row with the greater last_seq. *)
UpsertNewer(m) ==
    /\ up /\ phase = "upsert" /\ at = m
    /\ connected
    /\ row' = IF row[Product(m)].last_seq > states[Product(m)].last_seq THEN row
              ELSE [row EXCEPT ![Product(m)] = states[Product(m)]]
    /\ behind' = behind \ {Product(m)}
    /\ wrote' = wrote \cup {Product(m)}
    /\ phase' = "insert"
    /\ UNCHANGED <<shardVars, at, handled, stateVars, snapVars, walk, ready,
                   connected, rows, unrecorded, storeFaults>>

(* The statement is executed: the row is overwritten, whatever it held. *)
WriteRow(m) ==
    /\ row' = [row EXCEPT ![Product(m)] = states[Product(m)]]
    /\ wrote' = wrote \cup {Product(m)}

(* upsert_latest returns. *)
Upsert(m) ==
    /\ up /\ phase = "upsert" /\ at = m
    /\ connected
    /\ WriteRow(m)
    /\ behind' = behind \ {Product(m)}
    /\ phase' = "insert"
    /\ UNCHANGED <<shardVars, at, handled, stateVars, snapVars, walk, ready,
                   connected, rows, unrecorded, storeFaults>>

(* What a statement that raised, or was cut by a crash, may have done. *)
WriteRowMaybe(m) == WriteRow(m) \/ UNCHANGED <<row, wrote>>
RowMaybe(m) == row' \in {row, [row EXCEPT ![Product(m)] = states[Product(m)]]}
RowsMaybe(m) == rows' \in {rows, [rows EXCEPT ![m] = @ + 1]}

(* Another: the exception of the upsert is not caught in _write_to_pg, and *)
(* skips the insert.                                                       *)
UpsertFailsOut(m) ==
    /\ up /\ phase = "upsert" /\ at = m
    /\ StatementRaises
    /\ IF connected THEN WriteRowMaybe(m) ELSE UNCHANGED <<row, wrote>>
    /\ behind' = behind \cup {Product(m)}
    /\ Return(m)
    /\ UNCHANGED <<shardVars, at, stateVars, snapVars, walk, ready, connected,
                   rows, unrecorded>>

(* The upsert raises; _write_to_pg swallows the exception. *)
UpsertFails(m) ==
    /\ up /\ phase = "upsert" /\ at = m
    /\ StatementRaises
    /\ IF connected THEN WriteRowMaybe(m) ELSE UNCHANGED <<row, wrote>>
    /\ behind' = behind \cup {Product(m)}
    /\ phase' = "insert"
    /\ UNCHANGED <<shardVars, at, handled, stateVars, snapVars, walk, ready,
                   connected, rows, unrecorded>>

(* The insert into tick_history returns.  Its conflict clause names the    *)
(* column timestamp, which is NOW(): it never finds a conflict.            *)
Insert(m) ==
    /\ up /\ phase = "insert" /\ at = m
    /\ connected
    /\ rows' = [rows EXCEPT ![m] = @ + 1]
    /\ SnapshotIfDue(m)
    /\ UNCHANGED <<shardVars, at, stateVars, snapVars, walk, ready, connected,
                   row, behind, unrecorded, wrote, storeFaults>>

(* The insert raises; _write_tick_history swallows the exception. *)
InsertFails(m) ==
    /\ up /\ phase = "insert" /\ at = m
    /\ StatementRaises
    /\ IF connected THEN RowsMaybe(m) ELSE UNCHANGED rows
    /\ unrecorded' = unrecorded \cup {m}
    /\ SnapshotIfDue(m)
    /\ UNCHANGED <<shardVars, at, stateVars, snapVars, walk, ready, connected,
                   row, behind, wrote>>

(* Another: the time of the snapshot is not noted. *)
UnstampedSnapshot(p) ==
    /\ UNCHANGED fresh
    /\ sent' = [sent EXCEPT ![p] = @ + 1]

(* publish_snapshot returned: the end of _create_snapshot. *)
SnapshotMade(p) ==
    /\ fresh' = [fresh EXCEPT ![p] = TRUE]
    /\ sent' = [sent EXCEPT ![p] = @ + 1]

(* The snapshot of _process_tick is published, or its publish raises and   *)
(* _process_tick swallows the exception.                                   *)
PublishSnapshot(m) ==
    /\ up /\ phase = "publish" /\ at = m
    /\ \/ SnapshotMade(Product(m)) /\ UNCHANGED storeFaults
       \/ StoreFault /\ UNCHANGED snapVars
    /\ Return(m)
    /\ UNCHANGED <<shardVars, at, stateVars, walk, storeVars>>

(* await msg.ack(): the server records it. *)
Ack(m) ==
    /\ up /\ phase = "ack" /\ at = m
    /\ con' = AckMessage(con, m)
    /\ batch' = batch \ {m}
    /\ at' = NoMsg /\ phase' = "idle"
    /\ UNCHANGED <<ticks, up, again, expiries, missed, faults, handled, stateVars,
                   snapVars, walk, storeVars, storeFaults>>

(* The ack does not reach the server. *)
LoseAck(m) ==
    /\ up /\ phase = "ack" /\ at = m
    /\ Fault
    /\ batch' = batch \ {m}
    /\ at' = NoMsg /\ phase' = "idle"
    /\ UNCHANGED <<ticks, con, up, again, expiries, missed, handled, stateVars,
                   snapVars, walk, storeVars, storeFaults>>

(* The server's ack wait for a delivered message runs out. *)
AckTimeout(m) ==
    /\ m \in con.pending
    /\ con' = Expire(con, m)
    /\ expiries' = [expiries EXCEPT ![m] = @ + 1]
    /\ UNCHANGED <<ticks, up, batch, again, missed, faults, tickVars, stateVars,
                   snapVars, walk, storeVars, storeFaults>>

-----------------------------------------------------------------------------
(* snapshot_period_ms go by since the last snapshot of p. *)
Elapse(p) ==
    /\ fresh[p]
    /\ fresh' = [fresh EXCEPT ![p] = FALSE]
    /\ sent' = [sent EXCEPT ![p] = 0]
    /\ UNCHANGED <<shardVars, tickVars, stateVars, walk, storeVars, storeFaults>>

(* The loop of _periodic_snapshots from one await to the next: the first   *)
(* key from `from` on whose snapshot is due, or the next sleep.  It begins *)
(* with next() on the iterator, which raises if the dict has grown.        *)
WalkFrom(from, used, f) ==
    LET due == {k \in from..Len(order) : ~f[order[k]]}
    IN  IF due = {} \/ Len(order) # used
        THEN walk' = Asleep
        ELSE \E k \in due : /\ \A j \in due : k <= j
                            /\ walk' = [key |-> k, used |-> used]

(* The sleep is over. *)
Wake ==
    /\ up /\ walk = Asleep
    /\ \E k \in DOMAIN order : ~fresh[order[k]]
    /\ WalkFrom(1, Len(order), fresh)
    /\ UNCHANGED <<shardVars, tickVars, stateVars, snapVars, storeVars, storeFaults>>

(* A bug the properties must notice: an exception ends the task. *)
WalkOnOrDie ==
    /\ up /\ walk # Asleep /\ walk.key > 0
    /\ SnapshotMade(order[walk.key])
    /\ IF Len(order) # walk.used
       THEN walk' = [key |-> -1, used |-> 0]
       ELSE WalkFrom(walk.key + 1, walk.used, fresh')
    /\ UNCHANGED <<shardVars, tickVars, stateVars, storeVars, storeFaults>>

(* The publish of the periodic task returns, and the task goes on. *)
WalkOn ==
    /\ up /\ walk # Asleep
    /\ SnapshotMade(order[walk.key])
    /\ WalkFrom(walk.key + 1, walk.used, fresh')
    /\ UNCHANGED <<shardVars, tickVars, stateVars, storeVars, storeFaults>>

(* It raises: the task leaves the other products to the next period. *)
WalkFails ==
    /\ up /\ walk # Asleep
    /\ StoreFault
    /\ walk' = Asleep
    /\ UNCHANGED <<shardVars, tickVars, stateVars, snapVars, storeVars>>

-----------------------------------------------------------------------------
(* The connection to Postgres breaks: _conn stays what it is. *)
Disconnect ==
    /\ up /\ connected
    /\ StoreFault
    /\ connected' = FALSE
    /\ UNCHANGED <<shardVars, tickVars, stateVars, snapVars, walk, ready, row,
                   rows, behind, unrecorded, wrote>>

(* The pod dies, perhaps in the middle of a statement. *)
Crash ==
    /\ up
    /\ Fault
    /\ up' = FALSE
    /\ batch' = {} /\ again' = {}
    /\ at' = NoMsg /\ phase' = "idle"
    /\ missed' = missed \cup batch
    /\ IF phase = "upsert" /\ connected THEN RowMaybe(at) ELSE UNCHANGED row
    /\ IF phase = "insert" /\ connected THEN RowsMaybe(at) ELSE UNCHANGED rows
    /\ states' = [p \in Products |-> NoState] /\ order' = << >>
    /\ fresh' = [p \in Products |-> FALSE]
    /\ sent' = [p \in Products |-> 0]
    /\ walk' = Asleep
    /\ wrote' = {}
    /\ UNCHANGED <<ticks, con, expiries, handled, ready, connected, behind,
                   unrecorded, storeFaults>>

(* Another: the consumer of the new pod does not continue the old one. *)
ForgetfulRestart ==
    /\ ~up
    /\ up' = TRUE
    /\ ready' \in BOOLEAN
    /\ connected' = TRUE
    /\ con' = NewConsumer
    /\ UNCHANGED <<ticks, batch, again, expiries, missed, faults, tickVars,
                   stateVars, snapVars, walk, row, rows, behind, unrecorded,
                   wrote, storeFaults>>

(* The pod of the StatefulSet comes back under its name: the same durable  *)
(* consumer, a new connection, and a store that is ready unless the five   *)
(* attempts of _init_store all failed.                                     *)
Restart ==
    /\ ~up
    /\ up' = TRUE
    /\ ready' \in BOOLEAN
    /\ connected' = TRUE
    /\ UNCHANGED <<ticks, con, batch, again, expiries, missed, faults, tickVars,
                   stateVars, snapVars, walk, row, rows, behind, unrecorded,
                   wrote, storeFaults>>

Next ==
    \/ Publish \/ Fetch \/ Wake \/ WalkOn \/ WalkFails
    \/ Disconnect \/ Crash \/ Restart
    \/ \E p \in Products : Elapse(p)
    \/ \E m \in Msgs : \/ Update(m)
                       \/ Upsert(m) \/ UpsertFails(m)
                       \/ Insert(m) \/ InsertFails(m)
                       \/ PublishSnapshot(m)
                       \/ Ack(m) \/ LoseAck(m)
                       \/ AckTimeout(m)

Spec == Init /\ [][Next]_vars

(* The periodic task is scheduled while the process runs: its sleep ends,  *)
(* and the publish it awaits returns or raises.  Nothing is asked of the   *)
(* fetch task.                                                             *)
Fairness ==
    /\ WF_vars(Wake)
    /\ WF_vars(WalkOn \/ WalkFails)

FairSpec == Spec /\ Fairness

-----------------------------------------------------------------------------
(* The types; only a product with a state has a snapshot or a key, and the *)
(* periodic task is at a key of the dict.                                  *)
TypeOK ==
    /\ con \in Consumers(DOMAIN ticks)
    /\ batch \subseteq con.pending \cup con.due
    /\ IF phase = "idle" THEN at = NoMsg ELSE at \in batch
    /\ phase \in {"idle", "upsert", "insert", "publish", "ack"}
    /\ \A p \in Products : (\E k \in DOMAIN order : order[k] = p)
                                <=> states[p] # NoState
    /\ \A p \in Products : fresh[p] => states[p] # NoState
    /\ \A j, k \in DOMAIN order : order[j] = order[k] => j = k
    /\ walk.key \in 0..walk.used /\ walk.used <= Len(order)
    /\ phase \in {"upsert", "insert"} => ready

(* The fetch task with this callback is the loop of ShardConsumer: at      *)
(* least once, and repeats and reorderings for a cause only.               *)
Loop == INSTANCE ShardConsumer
            WITH published <- Len(ticks),
                 acking    <- IF phase = "ack" THEN at ELSE NoMsg

ImplementsLoop == Loop!Spec

(* The row of a product is the state the snapshotter has of it, outside of *)
(* an upsert, unless a write failed, was skipped, or the process restarted *)
(* and has no state yet.                                                   *)
RowFollowsState ==
    \A p \in Products :
        states[p] # NoState /\ p \notin behind
            => \/ row[p] = states[p]
               \/ phase = "upsert" /\ Product(at) = p

(* The number of side s is greater than the last_seq of state x. *)
Ahead(x, s) == x.side[s] # 0 /\ ticks[x.side[s]].seq > x.last_seq

(* A state, and so a row, has a side with a greater number than its        *)
(* last_seq only for one of two causes: the tick it was last updated with  *)
(* was delivered again, or the shard itself has that tick, with the        *)
(* smaller number, behind the tick of the side.                            *)
SidesNotAhead ==
    \A p \in Products, s \in Sides : \A x \in {states[p], row[p]} :
        Ahead(x, s) => expiries[x.last] > 0 \/ x.side[s] < x.last

(* An acked tick is in tick_history, or its insert failed or was skipped.  *)
AckedIsRecorded == \A m \in con.acked : rows[m] > 0 \/ m \in unrecorded

(* A message of the shard has a second row in tick_history only if it was  *)
(* delivered again.  (A tick that the normalizer published twice is two    *)
(* messages, and has a row for each.)                                      *)
DuplicateRowsNeedCause == \A m \in Msgs : rows[m] <= 1 + expiries[m]

(* The handler and the periodic task may both find a snapshot due while    *)
(* the other awaits its publish, but a product never gets more than these  *)
(* two in one period.                                                      *)
TwoSnapshotsPerPeriod == \A p \in Products : sent[p] <= 2

(* The last_seq of a row goes back only with a tick that was delivered     *)
(* again, or because the shard itself has the smaller number behind the    *)
(* greater: not because of failed or broken writes, crashes and restarts.  *)
RowRegressNeedsCause ==
    [][\A p \in Products :
        row'[p].last_seq < row[p].last_seq
            => expiries[row'[p].last] > 0 \/ row[p].last < row'[p].last]_vars

(* A row loses a side it had only to the first upsert of its product that  *)
(* a new process executes: it does not read the row it overwrites.         *)
SidesLostNeedRestart ==
    [][\A p \in Products, s \in Sides :
        row[p].side[s] # 0 /\ row'[p].side[s] = 0 => p \notin wrote]_vars

(* A product with a due snapshot gets one in the end, even if no tick of   *)
(* it comes: whatever goes wrong in one period, the periodic task goes on. *)
DueSnapshotsMade ==
    \A p \in Products :
        (states[p] # NoState /\ ~fresh[p]) ~> (fresh[p] \/ states[p] = NoState)

(* schema_history.sql: a unique constraint to prevent duplicate ticks.  A  *)
(* message of the shard has one row in tick_history.                       *)
HistoryUnique == \A m \in Msgs : rows[m] <= 1

=============================================================================
