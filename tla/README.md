# LedgerFlux: specifications and proofs

TLA+ modules of the services of LedgerFlux, the TLC configurations that check
them on small instances, and TLAPS proofs of the properties that matter most
for every value of the constants. Paths such as `services/...` are relative to
`src/`.

## 1. The system

Coinbase → **ingestor** → JetStream (`market.ticks.<shard>`) → **normalizer**
→ JetStream → **snapshotter** → Postgres (`snapshots`, `tick_history`), and
JetStream + Postgres → **gateway** → websocket clients. Every service is one
asyncio process: its tasks interleave at `await` and nowhere else. Services
share nothing but the streams and the database. A process whose `start()` fails or
returns ends, and Kubernetes starts it again.

| Component | State it keeps | Operations | Hard behaviour | What makes it correct |
|---|---|---|---|---|
| JetStream (external) | log per subject; per durable consumer: delivered, to be delivered again, acked | publish, fetch, ack, ack wait | redelivery without limit, lost acks, stream full | assumed as `services/common/stream.py` uses it |
| Shard subscription, `stream.py` `subscribe_to_shard`, `_fetch_messages` | the batch, the message at its callback or ack | fetch, callback, ack | crash between callback and ack, callback that raises, ack wait running out under a slow process, old and new messages in one batch | at least once; repeats and reorderings only for a cause; every message settled in the end |
| Normalizer | `last_sequences`, `stats`, the batch | validate, publish, ack | exception of a publish swallowed, crash before the ack, same stream for input and output | no valid tick lost in silence, repeated or reordered without a cause; statistics add up |
| Snapshotter | `product_states`, `last_snapshots`, `_store_ready` | tick handler (upsert, history, snapshot), periodic task | two tasks over one dict, failed writes swallowed, empty state after a restart, redelivered ticks | row, history and snapshots depart from the ticks only for a cause |
| Postgres store, `pg_store.py` | `_conn`, tables `snapshots` and `tick_history` | connect, schema, upsert, read | connection that breaks, statement that raises although it was executed | a row is what its last upsert wrote |
| Gateway connections | dict `clients`, `subscribed_products`, gauge | connect, subscribe, unsubscribe, ping, leave | clients come and go in the middle of a broadcast over the dict | who is subscribed is reached, once per broadcast; the gauge counts |
| Gateway rate limiter | `tokens`, `last_update` | `is_allowed`, `get_retry_delay` | tolerance at every call, clock set back | bound on every window, delay honoured |
| Ingestor | the websocket, the tick it publishes | connect, receive, publish, end | publish that times out while its tick is still in the NATS client, socket that closes, an end of the loop that must end the process | a frame enters the stream at most once and in order; none is lost without a fault; the feed comes back |
| Stream set-up, `stream.py` `connect`, and the `start()` and `main()` of every service | `nats_connection`, the stream on the server | connect, look, delete, create, subscribe, end, restart | several services at once, requests that fail, outages, a client that stops reconnecting | a service in its loop has the stream and its consumer; it gets there again after whatever failed |
| Delivery to a client: snapshotter, store, gateway and client together | the row of a product, what the client was sent | subscribe, read, send, broadcast | two subscriptions with their own pace meet in one task with awaits | nothing falls between snapshot and increments; increments in the order of the shard; a client that stays is told everything |
| Configuration, models, metrics, HTTP routes, manifests, dashboards | none that changes | - | - | - |

`PROJECT.json` lists each component with what is modelled of it, the lines each
definition stands for (`map`), and the hazards at the line where they bite.

## 2. The modules

`JetStream` is under every service that reads the stream, `AtLeastOnce` under the
composition `Delivery`, `Session` under `Ingestor`.

* **JetStream**: operators on the record of one durable pull consumer (external,
  as the services use it). `Batches` are the batches a fetch may deliver: what
  is due again first, then the oldest new messages. `NextOf` is the message a
  `for msg in msgs` loop may come to: due ones in an order not known, new ones in
  the order of the subject. The consumer's record is changed by `Deliver`,
  `AckMessage` and `Expire` only.
* **AtLeastOnce**: what `subscribe_to_shard` promises its caller, without
  batches, the server's record or restarts: a message has its turn when all older
  ones had theirs, again only when an ack wait ran out, and never once settled.
* **ShardConsumer**: `_fetch_messages`. `Fetch`, `Handle`/`Fail` (the callback
  returns or raises), `Ack`/`LoseAck` are its awaits; `AckTimeout`, `Crash` and
  `Restart` are the environment.
* **Normalizer**: `_process_messages` with `_process_tick` and `_validate_tick`.
  `Reject`/`Accept` run up to the publish or the ack, then `Publish` or
  `PublishFails` (the tick may be stored all the same), then `Ack`/`LoseAck`. The
  streams are logs; whether `output` is another stream or the input stream is
  chosen in `Init` from the constant `OutputStreams`. A crash resets `stats` and
  `lastSeq`, as a new process starts with them empty.
* **Snapshotter**: `_process_tick` cut at its awaits (`Update`, `Upsert`,
  `Insert`, `PublishSnapshot`, and their failures) inside the fetch loop, and
  the task `_periodic_snapshots` (`Wake`, `WalkOn`, `WalkFails`) with the
  iterator of its `for`. A tick is a message of the shard, named by its
  position, with a product, a sequence number and the sides it has. A state and a
  row keep `last_seq`, the tick they were last updated with (`last`, for
  `last_update`) and, per side, the tick it was taken from. `Init` and
  `Restart` choose whether `_init_store` succeeded.
* **Gateway**: a task per connection (`handler`) and the fetch task, whose
  broadcast is cut at each send. The dict of clients is CPython's: a table with
  holes, an iterator with an index into it, and a rebuild on an insertion, which
  may come at any insertion, because when it comes depends on every connection
  before (`Compact`: the live entries move down in their order).
* **RateLimiter**: a bucket in exact integer arithmetic and a clock that may be
  set back.
* **Session**: `connect` cut at its awaits (`Connect`, `LookFinds`/`LookFails`,
  `DeleteStream`, `CreateStream`/`CreateFails`), run by every service at once;
  `Subscribe`; the end of `main()` (`Exit`) and `Restart`; the server (`Outage`,
  `ServerBack`) and the NATS client (`Reconnect`, `GiveUp`). The retries of one
  `connect` are one step that succeeds or gives up. The normalizer's own
  `pull_subscribe` differs from `subscribe_to_shard` in nothing that shows here:
  when it fails, `start()` returns and the process ends.
* **Ingestor** EXTENDS `Session` by the feed, the websocket and `publish_tick`. The
  frames are numbered as Coinbase sends them. `Publish` runs to the wait of
  `publish_tick`, with the tick in the buffer of the NATS client (`outbox`);
  `Arrive` is the server storing it; `PublishReturns` or `PublishRaises` ends the
  wait, and a raise says nothing about where the tick is. `Leave` is the end of the
  loop, and with it of the process.
* **AtMostOnce**: what the ingestor promises: a frame enters the stream once or
  never, and none behind a younger one.
* **Delivery** composes what `Snapshotter` and `Gateway` show in detail: two
  instances of `AtLeastOnce`, one that writes the row of a product (`Record`, with
  its failures) and one that broadcasts (`Broadcast`, `BroadcastRaises`), and one
  client whose `_handle_subscribe` is cut at its awaits (`Subscribe`,
  `ReadSnapshot`, `SendSnapshot`). A broadcast takes effect when it comes to the
  client's entry. A rate limit notice in place of an increment, or the iterator
  passing the client over, is `Withhold`. Ticks are named by their position in the
  shard here too, and `seq` gives each its sequence number: the row has the
  number of the tick it was written with. `PodReplaced` is a gateway that comes back
  under another host name, whose consumer starts at the first tick.
* **MC\<module\>**: the constants of the runs.
* **JetStreamProofs**: lemmas about the operators of `JetStream` (what a delivery,
  an ack and an ack wait do to the consumer's record, what comes next in a batch),
  cited by all proofs about a fetch loop. **RateLimiterProofs**,
  **ShardConsumerProofs**, **NormalizerProofs**, **SnapshotterProofs**,
  **GatewayProofs**, **DeliveryProofs** and **IngestorProofs**: the proofs.

A definition that begins "A bug the properties must notice", or "Another",
models no code: it is a broken variant of the definition that follows, against
which the properties are tried, and no specification uses it.

Variables marked *history* record what happened (how often a message was handled,
which ack waits ran out); no guard of a service reads them.

## 3. The runs

| Run | Constants | Distinct states | What it shows |
|---|---|---|---|
| `rate_limiter` | 200 tokens/s, burst 2, units of 25 us, 13 ms, one set-back of 2 ms | 252 000 | `WindowBound`, `DebtBounded`, `RetryHonoured` |
| `shard_consumer` | 3 messages, batches of 2, 2 faults | 35 000 | the loop implements `AtLeastOnce`; `DuplicatesNeedCause`, `OvertakingNeedsCause`, `EventuallyAcked` |
| `normalizer` | 2 ticks of 3 kinds, log of 3, batches of 2, 2 faults, both configurations of the output | 135 000 | `StatsBalance`, `AckedIsAccounted`, `CopiesNeedCause`, `ReorderingNeedsCause`, `EventuallyOut` |
| `snapshotter` | 2 ticks (of one product, with a common and an own side each and numbers that rise or fall, or of two products), batches of 2, a fault of the loop and a fault of the store | 470 000 | the loop is `ShardConsumer`; `RowFollowsState`, `SidesNotAhead`, `AckedIsRecorded`, `DuplicateRowsNeedCause`, `TwoSnapshotsPerPeriod`, `RowRegressNeedsCause`, `SidesLostNeedRestart`, `DueSnapshotsMade` |
| `gateway` | 3 connections, 2 client messages, 1 tick | 91 000 | `ReachedUnlessSwapped`, `OncePerBroadcast`, `GaugeDriftNeedsCause`, `EventuallyAcked` |
| `ingestor` | an ingestor and a gateway, 3 frames of which 2 are tickers, 1 outage, 2 faults, both values of `delete_existing` | 258 000 | `ImplementsAtMostOnce`, `LossNeedsFault`, `RunsOnStream`, `EventuallyServed`, `FeedResumes` |
| `delivery` | 2 ticks with numbers that rise or fall, 1 ack wait of the gateway per tick, 1 fault | 675 000 | `NoGap`, `IncrementsInOrder`, `EventuallyTold` |
| `normalizer_shipped`, `gateway_subscribers`, `snapshotter_history`, `session_ready`, `delivery_uptodate` | as above, fewer faults | | one violated property each: section 4 |

**Why these bounds.** A *token* is earned in 5 ms and the steps of the clock hit
the tolerated 0.995 of a token exactly; 13 ms are more than two refills of a
burst of 2. *Three messages in batches of two* let a batch end in the middle of
the log and hold a redelivered message with a new one; *two faults* let the
recovery from one be hit by the other. Two ticks and a log of three give the
normalizer, on a shared stream, its own output as input and a full stream; no
property compares more than two messages, and a third tick fits only by
displacing a copy. The *snapshotter*'s two ticks are a pair of one product (an
overwrite, a partial state, with numbers in the order of the shard or against
it) or of two (the dict grows under the iterator); its
two faults are of different kinds since one of each is what it takes to fail a
write and then lose the process. That bound once hid an error of the model: with a
second restart `SidesLostNeedRestart` was false while a failed upsert that wrote
nothing counted as a write of the new process (`wrote`). The proof did not
go through, a run with two faults showed why, and `WriteRow` now says which upserts
were executed; the corrected property holds with two faults of the loop as well
(5 million states, too many for a standing run) and is proved for any number. *Three connections* are two clients of a
broadcast and one to take the place of either, which is the smallest instance in
which the iterator of the dict is deceived; with three client messages the run
passes as well (408 000 states). *Two services* are one that looks while the other
creates or deletes; a third adds no pair. *Three frames*, the second no ticker,
let one tick wait in the client while the loop is at the next; one outage and two
faults let a publish fail during the outage, the process die in the recovery, and
the restarted one fail again. *Two ticks* in `delivery` are one on either side of
the subscription, or of the read, with the first perhaps again after the second;
the proofs of `NoGap` and `IncrementsInOrder` need no bound. Faults and clock readings are bounded by guards
(`MaxFaults`, `MaxOutages`, `MaxStoreFaults`, `MaxNow`, `MaxBack`); ack waits are
bounded in `Delivery` only (`MaxExpiries`), whose `AtLeastOnce` counts them.

Deadlock is checked for the rate limiter only, whose clock, at its bound, still
leaves a call to grant or refuse. The other runs say `CHECK_DEADLOCK FALSE`:
once the bounded number of ticks is published and acked and nobody has anything
to do, a service really waits.

**Fairness.** Weak fairness of each await of the service (the event loop is
fair and single-threaded; a callback, send, statement or publish returns or
raises, which is why success and failure are one fair action), of `Restart`
(Kubernetes restarts pods), of the ack timers of the server, and of `Wake` (a
`sleep` ends). Never of a publish to the shard, a client, a fault or the expiry
of a snapshot period. In `Snapshotter` only the periodic task is fair, all that
`DueSnapshotsMade` needs. In `Ingestor` the server comes back (`ServerBack`), a client
that has not given up reconnects, and every step of set-up, loop and end is fair;
the feed, the close of the socket, outages and `GiveUp` are not. `EventuallyServed`
says "or stuck", for a client that gave up: nothing in the code ends such a
process (section 4). In `Delivery` only the gateway's turn at a tick and its ack
wait are fair, which is what `EventuallyAcked` of `ShardConsumer` provides; neither
the snapshotter nor the client need do anything. Faults are finite; nothing else
is assumed of when they come.

### What the properties say about the way to a client

`NoGap` is the reason for the order in `_handle_subscribe`: subscribed first, read
then. Its premise `CaughtUp` is not for granted: the snapshotter may be behind, the
snapshot may be a placeholder or be replaced by a rate limit notice, and then the
client is promised nothing but the increments to come. `IncrementsInOrder` holds
through the replay of the shard to a new pod, since a connection does not outlive
its pod. `NoGap` and `EventuallyTold` speak of messages of the shard, whatever their
numbers. `ImplementsAtMostOnce` is the reason not to retry a failed publish: the
tick may still be in the buffer of the client, which keeps it over a
reconnection. `RunsOnStream`, `EventuallyServed`, `LossNeedsFault` and `FeedResumes`
are stated for `delete_existing` false, the shipped value: with it true a service
whose look fails deletes the stream under the others, whose loops log the error and
never subscribe again.

### What the properties say about repeats

Acks come late, so each service may see a message twice; the properties say that
it happens for that reason only. `DuplicatesNeedCause` and its kin bound
repeats by the ack waits that ran out; a restart alone, a failed callback alone,
or a lost ack alone repeats nothing before the ack wait. `OvertakingNeedsCause`
and `ReorderingNeedsCause` say the same of the order. All of them count messages
of the stream the service reads. A tick that the normalizer published twice is
two messages to the services behind it, and `DuplicateRowsNeedCause` allows it a
row for each.

The order of the messages is not that of the sequence numbers. These may repeat
or fall along a shard: the feed may send a tick late; the normalizer only logs
a number that falls (services/normalizer/app.py:182-186); a message that reaches
it again is published again; and with the stream and subjects of
`k8s/services/configs/normalizer.json` it publishes what it just published, so
that a shard may read 1, 2, 1, 2. Nothing behind the normalizer looks at the numbers.
So `RowRegressNeedsCause`, `SidesNotAhead` and `IncrementsInOrder`, which speak of
the numbers in a row and of those a client is sent, name two causes for a number
that is smaller than one before it: an ack wait that ran out on this service, or a
shard that has the two ticks in that order. What they exclude is that a service
adds to it otherwise, by a failed write, a broadcast that raises, a crash, a
restart or the replay of the shard to a new pod. The runs have shards whose numbers
fall: with the second cause struck out, TLC finds each of the three violated while
no ack wait has run out.

`ReachedUnlessSwapped` is as strong as the code allows: a join or a leave
alone, before or behind the iterator, changes the size of the dict and makes it
raise, so the tick is delivered again; only a join with a leave in one
broadcast passes unnoticed.

## 4. What the code does otherwise than documented

* **`StreamsSeparated`** (`normalizer_shipped`). The shipped configuration gives
  the normalizer the same input and output stream, so it fetches and republishes
  what it published. README.md:143 promises separate streams.
* **`SubscribersReached`** (`gateway_subscribers`). One client leaves and
  another joins while a broadcast awaits a send: the iterator passes over a
  client subscribed all along, and the tick is acked.
* **`HistoryUnique`** (`snapshotter_history`). The conflict clause of the insert
  names a column that is `NOW()`: a message delivered again is a second row.
* **`ReadyMeansConnected`** (`session_ready`). `/ready` of the gateway looks at a
  connection object that is never unset. After an outage longer than the NATS
  client's attempts (60, 2 s apart, by default) the client closes for good; the
  fetch loops log the exception and sleep for ever, and `/ready` says connected.
* **`SnapshotUpToDate`** (`delivery_uptodate`). README.md:121 promises up to date
  prices from Postgres. The subscription counts before the row is read, and the
  row is as far as the snapshotter got: a client may be sent increments, and then a
  row is read for its snapshot that is older, in the order of the shard, than they
  are.

Three more departures need no run of their own; a property that passes says how
far each goes. The gauge of subscriptions moves on a redundant subscribe or
unsubscribe and stays off for the life of the process (`GaugeDriftNeedsCause`:
nothing else moves it). The upsert overwrites the row with whatever tick comes, so
that its `last_seq` and its prices may go back: with a redelivered tick, and without
any redelivery to the snapshotter where the numbers of the shard fall
(`RowRegressNeedsCause`; `IncrementsInOrder` for what a client is sent). A smaller
sequence number is only logged by the normalizer, where README.md:147 says it is
checked: `ReorderingNeedsCause` says what the normalizer adds to the disorder of its
input, and nothing removes any.

## 5. The proofs

`tlapm` checks all of them; nothing is assumed beyond the named `ASSUME`s of the
modules and `DelayExact` where stated. The `ASSUME`s say that constants are natural
numbers, `Tick`, `MaxRate`, `Burst` and `BatchSize` positive; that the ingestor is a
service that is no subscriber; that the shards of the snapshotter are sequences of
ticks of its products, and a numbering in `Delivery` gives each tick a natural
number, in any order; and that the requests of the gateway's clients are nonempty
lists of products, as its validation leaves them.

**RateLimiterProofs**, for every rate, burst, clock step and set-back:

* `TypeCorrect`: the types and the capacity; inductive as it stands.
* `WindowBounded`: the grants of any window are bounded by burst, rate and one
  tolerance. The property speaks of pairs of grants and is not inductive.
  `WindowInv` is: the grants since grant *i*, with what is left in the bucket,
  are at most the burst and what was earned since. At a grant the bucket keeps at
  least `-Epsilon`, and that is the bound; later steps leave it alone.
* `DebtIsBounded`, `DebtInvariant`: the bucket refilled *now* owes at most the
  tolerance and what the clock took back (`DebtInv`); `DebtBounded` follows at
  each call, when no time has passed since the update.
* `RetryIsHonoured`: under `DelayExact` (the rate divides 1000, as the shipped
  100 does) a refusal leaves the bucket so that at the promised time it holds a
  token (`PromiseInv`, which needs `DebtInv`).

**ShardConsumerProofs**, for every batch size, log and number of faults:

* `TypeCorrect`: the three parts of the server's record stay disjoint, and the
  message at its ack is in the batch.
* `Implementation`: `Spec => ImplementsAtLeastOnce`. `Handle` is `HandOver`,
  `Ack` is `Settle`, `AckTimeout` is `Expire`, `Fail` and `Crash` are `Miss`, all else
  stutters. It takes `Holding` (nothing in the
  batch is settled, and the callback returned for the message about to be
  acked) and, for the turn of a message, `Sparing` and `InOrder` below with
  `Waiting`: a missed message is pending until its ack wait runs out, so when the
  loop comes to a message again there was a cause.
* `DuplicatesHaveCause`: from `Sparing`. A message that can be delivered again
  has spared one ack wait, one the callback has yet to return for has spared
  another; the bound alone does not survive a fetch.
* `OvertakingHasCause`: from `InOrder`. What was delivered is a prefix of the
  shard, and of it whatever is unhandled and not missed is still in the batch
  with nothing younger handled.

**NormalizerProofs**, for every feed, log, batch size and number of faults, with
the output on the input stream or on another:

* `TypeCorrect`: from `Typed`, which adds the types of logs and counters; what
  waits for its publish passed the validation because the logs only grow.
* `Balance`: `StatsBalance` is inductive with `Typed`, over publishes that fail
  and processes that start again.
* `NothingLostInSilence`: from `Accounts`, which says of the message about to be
  acked what `AckedIsAccounted` says of the acked ones.
* `CopiesHaveCause`: from `Sparing`, the argument of `DuplicatesHaveCause` with the
  number of copies in the output, which a failed publish may add to or not.
* `ReorderingHasCause`: from `Ordered`. What was delivered is a prefix of the input
  and holds all that was published; what came again comes before the rest of its
  batch. So a message of the batch whose ack wait never ran out is beyond
  everything published before it.

**DeliveryProofs**, for every number of ticks, ack waits and faults:

* `TypeCorrect`: only what was published is recorded, broadcast or sent.
* `NothingBetween`: `Spec => []NoGap`. The property speaks of clients with their
  snapshot only; `Joined` says of every client that is not away that what was
  broadcast since it subscribed was sent to it or withheld, which a broadcast,
  returning or raising, and every loss of the connection preserve.
* `InOrder`: `Spec => IncrementsInOrder`, for every numbering of the ticks. `Past`:
  all that is before the last increment in the shard had its turn. So a tick that
  comes after one behind it was handled or missed before, and `AtLeastOnce` gives it
  another turn only after an ack wait; any other is behind the last increment in
  the shard, which is the second cause.

**IngestorProofs**, for every set of services and frames, outages and faults:

* `RunningOnStream`: `Spec => []RunsOnStream`, from `Placed`: without
  `delete_existing` nobody is at a delete, and whoever is past the create has the
  stream; the stream, once there, stays.
* `TypeCorrect`: a socket only in the loop, and everything in the process or the
  stream came in through it.
* `Implementation`: `Spec => ImplementsAtMostOnce`, from `Ordered`: what is in the
  stream is older than what is in the client, and that older than what is still
  to be read. Only `Arrive` is `Store`; a retry after a raise would break `Ordered`.
* `NoLossWithoutFault`: `Spec => []LossNeedsFault`. `Smooth`: without a fault the
  server is up and every service past its connect is connected; `Lossless`: then the
  client holds at most the tick that is being published, and the process ends only
  with nothing left to read.

**SnapshotterProofs**, for every shard, set of products and sides, batch size and
number of faults of both kinds:

* `TypeCorrect`: from `Typed` in three parts, the fetch task, the dict with the
  periodic task (the keys in their order are the products with a state, none
  twice, and the walk is at one of them), and the store.
* `Implementation`: `Spec => ImplementsLoop`. The last await of `_process_tick` is
  `Handle` of `ShardConsumer`; the others, the periodic task and the store are
  stutters. `HandledForCause` and `TicksAtLeastOnce` carry what is proved
  of `ShardConsumer` over to the snapshotter, through an instance of
  `ShardConsumerProofs`: repeats and reorderings of its ticks have a cause, and it
  implements `AtLeastOnce`.
* `RowIsState`: `RowFollowsState` is inductive with `Typed`.
* `NothingAckedUnrecorded`: from `Recording`, which says of the tick past its
  insert what `AckedIsRecorded` says of the acked ones.
* `DuplicateRowsHaveCause`: from `Sparing`, the argument of `DuplicatesHaveCause`
  with the rows of a tick, to which an insert that raised may add as well.
* `TwoAtMost`: from `Limited`. Per product the snapshots of the period, and those
  that the two tasks are about to publish, are at most two: a task that found the
  snapshot due before the other stamped it publishes the second, and nobody finds
  it due again before the period ends.
* `SidesLostByRestart`: from `SidesKept`: what a process wrote to a row, its state
  still has.
* `RegressHasCause` and `SidesAheadHaveCause`: from `Advancing` and `AllNumbered`,
  whatever numbers the shard has. `Advancing`: what was delivered is a prefix of
  the shard and holds everything the states and rows were taken from; what is due
  or came again had its ack wait run out, and comes before the rest of its batch.
  So a tick whose ack wait never ran out is behind all that a state or a row was
  taken from in the shard. `AllNumbered`: a `last_seq` is the number of the tick of
  its update, so two different numbers are of two ticks, and the second cause
  is their order in the shard.

**GatewayProofs**, for every number of connections, ticks and requests:

* The lemmas about the table first. `CompactKeeps`: a rebuild keeps the clients and
  their order and moves no entry back (`NoneBack`, by counting), so an insertion,
  with or without a rebuild, and a deletion leave the entries in the order of
  their connections, and whatever is ahead of an index afterwards was ahead of
  it before or is new.
* `TypeCorrect`: from `Typed`: the fetch task, the table, and the clients, who are in
  the table as long as their task runs.
* `NobodyTwice`: `Spec => []OncePerBroadcast`, from `Onward`: those reached are older
  than the client being sent to, and those ahead of the iterator younger.
* `GaugeCounts`: from `Counted`: who is not in the table has no subscription left.
* `ReachedOrSwapped`: from `InReach`. At each send, as long as nobody left, the size
  of the dict tells whether somebody joined; as long as nobody joined, the loyal
  clients not reached are ahead of the iterator. The loop ends only with the size
  it started with and no subscriber ahead, so all were reached, or one joined and
  one left.

Every invariant and every safety property the passing runs check is proved. Only
model-checked are the liveness properties (`EventuallyAcked`, `EventuallyOut`,
`DueSnapshotsMade`, `EventuallyServed`, `FeedResumes`, `EventuallyTold`), which are out
of the prover's reach. That `Delivery` may use `AtLeastOnce` for the two
subscriptions is what `Implementation` of `ShardConsumerProofs` proves, and
`TicksAtLeastOnce` for the snapshotter with all its awaits; that a broadcast and an
upsert have the effects `Delivery` gives them rests on `Gateway` and `Snapshotter`
being translated from the same lines.

## 6. What is not modelled, and why

* **Floats** of the rate limiter: the tolerance of 0.005 token is there for
  their error, and exact arithmetic shows what it costs. A retry delay whose rate
  does not divide 1000 is truncated, up to a millisecond short.
* **Messages that no longer parse**: such a message fails for ever, every ack
  wait. With faults bounded, `Fail` covers it a bounded number of times.
* **The buffer of the NATS client** between a delivery and `fetch`: a message in
  it is in `batch`, as pending as one; a fetch that times out with messages on
  their way is a delivery nobody handles until its ack wait, as after a crash.
* **Stream retention**: `retention_minutes` and `max_age_seconds` are read and
  checked by `config.py` and given to nobody; `connect` creates the stream without
  limits. `get_latest_messages` has no caller.
* **`from_seq`** of a subscribe is accepted and never read.
* **`delete_existing` true** is in the run of the ingestor for `TypeOK` and
  `ImplementsAtMostOnce`; what follows a stream deleted under a running service (a
  loop that fetches from nothing until its process is restarted by hand) is not
  modelled further.
* **The statistics and the health server of the ingestor**: nothing in the loop
  reads them. That the process ends although the health server runs is `Leave`.
* **Other clients in `Delivery`** appear as broadcasts that raise or withhold; an
  unsubscribe of the client is a leave.
* **`Gateway` is one pod's life**, `ShardConsumer` a restart under the same name;
  the replacement of a gateway pod is in `Delivery`, its start in `Session`.
* **Content of a snapshot** published by the snapshotter: `Snapshotter` counts
  them; nobody in the repository subscribes to `<prefix>.snapshot`.
* **HTTP routes, health servers, metrics other than the gauge, configuration,
  models, manifests**: no state, or none that anything reads.

## 7. Plan

Done: the core path, in the order of its importance (`JetStream`,
`ShardConsumer` with `AtLeastOnce`, `Normalizer`, `Gateway`, `RateLimiter`,
`Snapshotter`), then what surrounds and composes it (`Session`, `Ingestor` with
`AtMostOnce`, `Delivery`), their runs, and the proofs of section 5.

Next:

1. the fetch task of `Gateway` as an implementation of `AtLeastOnce`, as
   `TicksAtLeastOnce` is for the snapshotter: it takes the history of returned and
   broken-off broadcasts, which `Gateway` does not keep;
2. that the effects in `Delivery` (the row a `Record` writes, the clients a
   `Broadcast` reaches) are those of `Snapshotter` and `Gateway`.

## 8. Running it

    tlc -workers 2 -config MCShardConsumer.cfg MCShardConsumer
    tlapm ShardConsumerProofs.tla

A module `MCX` goes with the configurations `MCX*.cfg`.
