----------------------------- MODULE Normalizer -----------------------------
(***************************************************************************)
(* One normalizer (src/services/normalizer/app.py): it reads the shard of  *)
(* its pod from the input stream, validates each tick and publishes the    *)
(* valid ones to the output stream.                                        *)
(*                                                                         *)
(* _process_tick runs between the fetch and the ack of a message, has one  *)
(* await (the publish) and swallows every exception, so a message is acked *)
(* whatever became of it.  The steps between awaits are atomic: the        *)
(* normalizer has a single task.                                           *)
(*                                                                         *)
(* A stream is the log of the subject of this shard: the ingestor and the  *)
(* normalizer compute the same shard_index of a product over the same      *)
(* num_shards, so a tick never changes shard.                              *)
(***************************************************************************)
EXTENDS JetStream, Integers, Sequences

CONSTANTS
    Streams,        \* names of streams
    InputStream,    \* input_stream
    OutputStreams,  \* the values output_stream is configured with
    Feed,           \* the ticks Coinbase can send
    None,           \* an absent field of a tick, an unknown sequence
    BatchSize,      \* messages per fetch: 10 in the code
    MaxIngested,    \* bound: ticks the ingestor publishes
    MaxLog,         \* bound: messages the server stores for a stream
    MaxFaults       \* bound: crashes, failed publishes and lost acks

ASSUME StreamAssumption ==
    /\ InputStream \in Streams
    /\ OutputStreams \subseteq Streams
    /\ \A t \in Feed : DOMAIN t = {"product", "seq", "trade", "bid", "ask"}
    /\ BatchSize \in Nat \ {0}
    /\ MaxIngested \in Nat /\ MaxLog \in Nat /\ MaxFaults \in Nat

VARIABLES
    log,       \* per stream, the messages stored for this shard
    output,    \* self.output_stream
    con,       \* the server's record of the consumer normalizer-<shard>
    up,        \* the process runs
    batch,     \* msgs: what is left of the last fetch, the current one too
    again,     \* the messages of the last fetch that were delivered again
    at,        \* the message being processed, or NoMsg
    phase,     \* what that message waits for: check, publish or ack
    lastSeq,   \* self.last_sequences
    stats,     \* self.stats
    expiries,  \* history: ack waits that ran out, per message
    dropped,   \* history: messages whose publish raised
    faults     \* faults so far

fetchVars == <<con, batch, again>>
vars == <<log, output, up, fetchVars, at, phase, lastSeq, stats, expiries,
          dropped, faults>>

Msgs     == 1..MaxLog
Products == {t.product : t \in Feed}
Input    == log[InputStream]
Output   == log[output]

(* A message: the tick, who published it and, as history, from which       *)
(* message of the input (0 for the ingestor, which reads Coinbase).        *)
Message(tick, by, from) == [tick |-> tick, by |-> by, from |-> from]

(* The `for msg in msgs` loop comes to message m, or is at it. *)
Turn(m) == at = NoMsg /\ m \in NextOf(batch, again)
At(m)    == at = m /\ at # NoMsg

Fault ==
    /\ faults < MaxFaults
    /\ faults' = faults + 1

Stored(stream) == Len(log[stream]) < MaxLog

(* _validate_tick: what is present is positive, and a book with two sides  *)
(* has a spread.  The product and the fields object are always there.      *)
Valid(t) ==
    /\ \A side \in {"trade", "bid", "ask"} : t[side] # None => t[side] > 0
    /\ t.bid # None /\ t.ask # None => t.ask > t.bid

FreshStats == [processed |-> 0, validated |-> 0, rejected |-> 0, errors |-> 0]
-----------------------------------------------------------------------------
Init ==
    /\ log = [s \in Streams |-> << >>]
    /\ output \in OutputStreams
    /\ con = NewConsumer
    /\ up = TRUE
    /\ batch = {}
    /\ again = {}
    /\ at = NoMsg
    /\ phase = "check"
    /\ lastSeq = [p \in Products |-> None]
    /\ stats = FreshStats
    /\ expiries = [m \in Msgs |-> 0]
    /\ dropped = {}
    /\ faults = 0

Ingested == {Input[i].tick : i \in {k \in DOMAIN Input : Input[k].by = "ingestor"}}

(* The ingestor publishes a tick of the feed, once, to the shard; the feed *)
(* is best effort and its ticks may come late.                             *)
Ingest ==
    /\ Cardinality(Ingested) < MaxIngested
    /\ Stored(InputStream)
    /\ \E t \in Feed \ Ingested :
        log' = [log EXCEPT ![InputStream] = Append(@, Message(t, "ingestor", 0))]
    /\ UNCHANGED <<output, up, fetchVars, at, phase, lastSeq, stats, expiries,
                   dropped, faults>>

(* psub.fetch(10, timeout=1.0) returns messages. *)
Fetch ==
    /\ up
    /\ batch = {}
    /\ \E B \in Batches(con, Len(Input), BatchSize) :
        /\ con' = Deliver(con, B)
        /\ batch' = B
        /\ again' = B \cap con.due
    /\ UNCHANGED <<log, output, up, at, phase, lastSeq, stats, expiries, dropped,
                   faults>>

(* _validate_tick refuses the tick; _process_tick returns. *)
Reject(m) ==
    /\ up /\ Turn(m)
    /\ ~Valid(Input[m].tick)
    /\ stats' = [stats EXCEPT !.processed = @ + 1, !.rejected = @ + 1]
    /\ at' = m /\ phase' = "ack"
    /\ UNCHANGED <<log, output, up, fetchVars, lastSeq, expiries, dropped, faults>>

(* A bug the properties must notice: the verdict of _validate_tick is not  *)
(* looked at.                                                              *)
UncheckedAccept(m) ==
    /\ up /\ Turn(m)
    /\ lastSeq' = [lastSeq EXCEPT ![Input[m].tick.product] = Input[m].tick.seq]
    /\ stats' = [stats EXCEPT !.processed = @ + 1]
    /\ at' = m /\ phase' = "publish"
    /\ UNCHANGED <<log, output, up, fetchVars, expiries, dropped, faults>>

(* _validate_tick accepts it, whatever its sequence number: one smaller    *)
(* than the last is only logged.                                           *)
Accept(m) ==
    /\ up /\ Turn(m)
    /\ Valid(Input[m].tick)
    /\ lastSeq' = [lastSeq EXCEPT ![Input[m].tick.product] = Input[m].tick.seq]
    /\ stats' = [stats EXCEPT !.processed = @ + 1]
    /\ at' = m /\ phase' = "publish"
    /\ UNCHANGED <<log, output, up, fetchVars, expiries, dropped, faults>>

(* await publish_tick(...) returns. *)
Publish(m) ==
    /\ up /\ phase = "publish" /\ At(m)
    /\ Stored(output)
    /\ log' = [log EXCEPT ![output] =
                    Append(@, Message(Input[m].tick, "normalizer", m))]
    /\ stats' = [stats EXCEPT !.validated = @ + 1]
    /\ phase' = "ack"
    /\ UNCHANGED <<output, up, fetchVars, at, lastSeq, expiries, dropped, faults>>

(* Another: the exception of a publish is swallowed without a trace. *)
SilentPublishFailure(m) ==
    /\ up /\ phase = "publish" /\ At(m)
    /\ faults < MaxFaults
    /\ faults' = faults + 1
    /\ phase' = "ack"
    /\ UNCHANGED <<log, output, up, fetchVars, at, lastSeq, stats, expiries,
                   dropped>>

(* The publish raises: the server has no room, the connection is lost, or  *)
(* the confirmation does not come back though the server stored the tick.  *)
(* The exception is swallowed and the message is acked all the same.       *)
PublishFails(m) ==
    /\ up /\ phase = "publish" /\ At(m)
    /\ \/ /\ ~Stored(output)
          /\ UNCHANGED <<log, faults>>
       \/ /\ Fault
          /\ \/ UNCHANGED log
             \/ /\ Stored(output)
                /\ log' = [log EXCEPT ![output] =
                                Append(@, Message(Input[m].tick, "normalizer", m))]
    /\ stats' = [stats EXCEPT !.errors = @ + 1]
    /\ dropped' = dropped \cup {m}
    /\ phase' = "ack"
    /\ UNCHANGED <<output, up, fetchVars, at, lastSeq, expiries>>

(* await msg.ack(): the server records it. *)
Ack(m) ==
    /\ up /\ phase = "ack" /\ At(m)
    /\ con' = AckMessage(con, m)
    /\ batch' = batch \ {m}
    /\ at' = NoMsg /\ phase' = "check"
    /\ UNCHANGED <<log, output, up, again, lastSeq, stats, expiries, dropped, faults>>

(* The ack does not reach the server. *)
LoseAck(m) ==
    /\ up /\ phase = "ack" /\ At(m)
    /\ Fault
    /\ batch' = batch \ {m}
    /\ at' = NoMsg /\ phase' = "check"
    /\ UNCHANGED <<log, output, con, up, again, lastSeq, stats, expiries, dropped>>

(* The server's ack wait for a delivered message runs out. *)
AckTimeout(m) ==
    /\ m \in con.pending
    /\ con' = Expire(con, m)
    /\ expiries' = [expiries EXCEPT ![m] = @ + 1]
    /\ UNCHANGED <<log, output, up, batch, again, at, phase, lastSeq, stats,
                   dropped, faults>>

(* The pod dies.  Sequences and statistics live in memory only. *)
Crash ==
    /\ up
    /\ Fault
    /\ up' = FALSE
    /\ batch' = {}
    /\ again' = {}
    /\ at' = NoMsg /\ phase' = "check"
    /\ lastSeq' = [p \in Products |-> None]
    /\ stats' = FreshStats
    /\ UNCHANGED <<log, output, con, expiries, dropped>>

(* Another: the consumer of the new pod does not continue the old one. *)
ForgetfulRestart ==
    /\ ~up
    /\ up' = TRUE
    /\ con' = NewConsumer
    /\ UNCHANGED <<log, output, batch, again, at, phase, lastSeq, stats, expiries,
                   dropped, faults>>

(* The pod comes back under the same name and subscribes to the durable    *)
(* consumer of its shard.                                                  *)
Restart ==
    /\ ~up
    /\ up' = TRUE
    /\ UNCHANGED <<log, output, fetchVars, at, phase, lastSeq, stats, expiries, dropped,
                   faults>>

Next ==
    \/ Ingest \/ Fetch \/ Crash \/ Restart
    \/ \E m \in Msgs : \/ Reject(m) \/ Accept(m)
                       \/ Publish(m) \/ PublishFails(m)
                       \/ Ack(m) \/ LoseAck(m)
                       \/ AckTimeout(m)

Spec == Init /\ [][Next]_vars

(* The task is scheduled, an await ends one way or the other, the pod is   *)
(* restarted, and the server's ack timers fire.                            *)
Fairness ==
    /\ WF_vars(Fetch)
    /\ WF_vars(Restart)
    /\ \A m \in Msgs : /\ WF_vars(Reject(m) \/ Accept(m))
                       /\ WF_vars(Publish(m) \/ PublishFails(m))
                       /\ WF_vars(Ack(m) \/ LoseAck(m))
                       /\ WF_vars(AckTimeout(m))

FairSpec == Spec /\ Fairness

-----------------------------------------------------------------------------
(* Positions of the output that came from message m of the input. *)
CopiesOf(m) ==
    {i \in DOMAIN Output : Output[i].by = "normalizer" /\ Output[i].from = m}

(* The types; a message waits for its publish or its ack only in a batch,  *)
(* and a tick that waits for its publish passed the validation.            *)
TypeOK ==
    /\ \A s \in Streams : \A i \in DOMAIN log[s] :
        log[s][i].tick \in Feed /\ log[s][i].from \in 0..MaxLog
    /\ con \in Consumers(DOMAIN Input)
    /\ batch \subseteq con.pending \cup con.due
    /\ phase \in {"check", "publish", "ack"}
    /\ again \subseteq DOMAIN Input
    /\ IF phase = "check" THEN at = NoMsg ELSE at \in batch
    /\ phase = "publish" => Valid(Input[at].tick)
    /\ dropped \subseteq DOMAIN Input
    /\ faults \in 0..MaxFaults

(* Statistics never drift: a message counted as processed is counted once  *)
(* more, as validated, rejected or an error, unless its publish is under   *)
(* way, across failed publishes and restarts.                              *)
StatsBalance ==
    stats.processed = stats.validated + stats.rejected + stats.errors
                        + (IF phase = "publish" THEN 1 ELSE 0)

(* An acked tick is never forgotten in silence: if it was valid, it is in  *)
(* the output stream, or its publish failed.  Since _process_tick swallows *)
(* the exception, a failed publish is the one way to lose a tick.          *)
AckedIsAccounted ==
    \A m \in con.acked :
        Valid(Input[m].tick) => CopiesOf(m) # {} \/ m \in dropped

(* A tick is published again only because an ack wait ran out. *)
CopiesNeedCause ==
    \A m \in Msgs : Cardinality(CopiesOf(m)) <= 1 + expiries[m]

(* The output keeps the order of the input, but for ticks that were        *)
(* delivered again after their ack wait.                                   *)
ReorderingNeedsCause ==
    \A i, j \in DOMAIN Output :
        /\ i < j
        /\ Output[i].by = "normalizer" /\ Output[j].by = "normalizer"
        /\ Output[i].from >= Output[j].from
        => expiries[Output[j].from] > 0

(* Once faults stop, every valid tick of the input reaches the output, or  *)
(* its publish failed.                                                     *)
EventuallyOut ==
    \A m \in Msgs :
        (m \in DOMAIN Input /\ Valid(Input[m].tick))
            ~> (CopiesOf(m) # {} \/ m \in dropped)

(* README.md, "NATS Jetstream": components subscribe to and publish on     *)
(* different streams, to keep them separated.  The normalizer never        *)
(* receives a tick that a normalizer published.                            *)
StreamsSeparated ==
    \A m \in batch : Input[m].by # "normalizer"

=============================================================================
