--------------------------- MODULE ShardConsumer ---------------------------
(***************************************************************************)
(* subscribe_to_shard and _fetch_messages of                               *)
(* src/services/common/stream.py: the loop through which the gateway and   *)
(* the snapshotter read a shard, as a durable pull consumer of JetStream.  *)
(* (The normalizer has the same loop inline, see Normalizer.)              *)
(*                                                                         *)
(* Each await of the loop is a place where the process may die and where   *)
(* the server's ack timer may fire: fetch, callback and ack are separate   *)
(* actions.                                                                *)
(***************************************************************************)
EXTENDS JetStream

CONSTANTS
    BatchSize,     \* messages per fetch: 10 in the code
    MaxPublished,  \* bound: messages published to the shard
    MaxFaults      \* bound: crashes, failed callbacks and lost acks

ASSUME ConsumerAssumption ==
    /\ BatchSize \in Nat \ {0}
    /\ MaxPublished \in Nat
    /\ MaxFaults \in Nat

VARIABLES
    published,  \* messages of the shard so far
    con,        \* the server's record of the durable consumer
    up,         \* the process runs
    batch,      \* msgs: what is left of the last fetch, the current one too
    again,      \* the messages of the last fetch that were delivered again
    acking,     \* the message whose callback returned, or NoMsg
    handled,    \* history: calls of the callback that returned, per message
    expiries,   \* history: ack waits that ran out, per message
    missed,     \* history: messages a failed callback or a crash skipped
    faults      \* faults so far

vars == <<published, con, up, batch, again, acking, handled, expiries, missed,
          faults>>

Msgs == 1..MaxPublished

(* A bug the properties must notice: the messages of a batch handled       *)
(* concurrently, in whatever order their callbacks end.                    *)
AnyCurrent(m) == acking = NoMsg /\ m \in batch

(* The `for msg in msgs` loop comes to message m. *)
Current(m) == acking = NoMsg /\ m \in NextOf(batch, again)

Fault ==
    /\ faults < MaxFaults
    /\ faults' = faults + 1

-----------------------------------------------------------------------------
Init ==
    /\ published = 0
    /\ con = NewConsumer
    /\ up = TRUE
    /\ batch = {}
    /\ again = {}
    /\ acking = NoMsg
    /\ handled = [m \in Msgs |-> 0]
    /\ expiries = [m \in Msgs |-> 0]
    /\ missed = {}
    /\ faults = 0

(* A producer publishes to the subject of the shard. *)
Publish ==
    /\ published < MaxPublished
    /\ published' = published + 1
    /\ UNCHANGED <<con, up, batch, again, acking, handled, expiries, missed, faults>>

(* sub.fetch(10, timeout=1.0) returns messages.  A fetch that times out or *)
(* fails changes nothing: the loop goes round.                             *)
Fetch ==
    /\ up
    /\ batch = {}
    /\ \E B \in Batches(con, published, BatchSize) :
        /\ con' = Deliver(con, B)
        /\ batch' = B
        /\ again' = B \cap con.due
    /\ UNCHANGED <<published, up, acking, handled, expiries, missed, faults>>

(* Another: the ack before the callback. *)
AckFirstHandle(m) ==
    /\ up /\ Current(m)
    /\ con' = AckMessage(con, m)
    /\ acking' = m
    /\ UNCHANGED <<published, up, batch, again, handled, expiries, missed, faults>>

(* await callback(tick) returns. *)
Handle(m) ==
    /\ up /\ Current(m)
    /\ handled' = [handled EXCEPT ![m] = @ + 1]
    /\ acking' = m
    /\ UNCHANGED <<published, con, up, batch, again, expiries, missed, faults>>

(* The callback raises: the exception is logged and the message is left    *)
(* to its ack wait.                                                        *)
Fail(m) ==
    /\ up /\ Current(m)
    /\ Fault
    /\ batch' = batch \ {m}
    /\ missed' = missed \cup {m}
    /\ UNCHANGED <<published, con, up, again, acking, handled, expiries>>

(* await msg.ack(): the server records it. *)
Ack(m) ==
    /\ up /\ acking = m
    /\ con' = AckMessage(con, m)
    /\ batch' = batch \ {m}
    /\ acking' = NoMsg
    /\ UNCHANGED <<published, up, again, handled, expiries, missed, faults>>

(* The ack is a publish nobody answers: it may be lost, or the call raises *)
(* and the exception is logged; the loop goes on either way.               *)
LoseAck(m) ==
    /\ up /\ acking = m
    /\ Fault
    /\ batch' = batch \ {m}
    /\ acking' = NoMsg
    /\ UNCHANGED <<published, con, up, again, handled, expiries, missed>>

(* The server's ack wait for a delivered message runs out, whether the     *)
(* process is dead, skipped the message or is merely slow.                 *)
AckTimeout(m) ==
    /\ m \in con.pending
    /\ con' = Expire(con, m)
    /\ expiries' = [expiries EXCEPT ![m] = @ + 1]
    /\ UNCHANGED <<published, up, batch, again, acking, handled, missed, faults>>

(* The process dies; the durable consumer stays on the server. *)
Crash ==
    /\ up
    /\ Fault
    /\ up' = FALSE
    /\ batch' = {}
    /\ again' = {}
    /\ acking' = NoMsg
    /\ missed' = missed \cup batch
    /\ UNCHANGED <<published, con, handled, expiries>>

(* Another: the consumer of the new process is not the durable one. *)
EphemeralRestart ==
    /\ ~up
    /\ up' = TRUE
    /\ con' = NewConsumer
    /\ UNCHANGED <<published, batch, again, acking, handled, expiries, missed, faults>>

(* The pod is restarted and subscribes with the same durable name. *)
Restart ==
    /\ ~up
    /\ up' = TRUE
    /\ UNCHANGED <<published, con, batch, again, acking, handled, expiries, missed,
                   faults>>

Next ==
    \/ Publish \/ Fetch \/ Crash \/ Restart
    \/ \E m \in Msgs : \/ Handle(m) \/ Fail(m)
                       \/ Ack(m) \/ LoseAck(m)
                       \/ AckTimeout(m)

Spec == Init /\ [][Next]_vars

(* The event loop runs the fetch task, a callback ends (by returning or by *)
(* raising), Kubernetes restarts the pod, and the server's ack timers      *)
(* fire.  Faults are bounded, nothing else is assumed about them.          *)
Fairness ==
    /\ WF_vars(Fetch)
    /\ WF_vars(Restart)
    /\ \A m \in Msgs : /\ WF_vars(Handle(m) \/ Fail(m))
                       /\ WF_vars(Ack(m) \/ LoseAck(m))
                       /\ WF_vars(AckTimeout(m))

FairSpec == Spec /\ Fairness

-----------------------------------------------------------------------------
(* The types; a message is in at most one place of the consumer's record,  *)
(* and the loop is about to ack only a message of its batch.               *)
TypeOK ==
    /\ published \in 0..MaxPublished
    /\ con \in Consumers(1..published)
    /\ con.pending \cap con.due = {}
    /\ (con.pending \cup con.due) \cap con.acked = {}
    /\ up \in BOOLEAN
    /\ batch \subseteq 1..published
    /\ again \subseteq 1..published
    /\ acking # NoMsg => acking \in batch
    /\ handled \in [Msgs -> Nat]
    /\ expiries \in [Msgs -> Nat]
    /\ missed \subseteq 1..published
    /\ faults \in 0..MaxFaults

(* The callback sees a message again only because an ack wait ran out in   *)
(* between: no schedule of fetches, faults and restarts alone repeats one. *)
DuplicatesNeedCause == \A m \in Msgs : handled[m] <= 1 + expiries[m]

(* A message is handled before an older one was handled even once only if  *)
(* the older one's callback failed or a crash took it from the batch: ack  *)
(* waits that run out under a slow process do not reorder first deliveries.*)
OvertakingNeedsCause ==
    \A k, m \in Msgs :
        k < m /\ handled[m] > 0 /\ handled[k] = 0 => k \in missed

Promise == INSTANCE AtLeastOnce WITH times <- handled, settled <- con.acked

(* The loop implements the promise of subscribe_to_shard: nothing is       *)
(* settled before the callback returned for it; what is settled stays so   *)
(* and is not handed over again; the callback is called in the order of    *)
(* the shard and again only after an ack wait; across crashes, lost acks   *)
(* and ack waits that run out while the message is being handled.          *)
ImplementsAtLeastOnce == Promise!Spec

(* Once faults stop, every message of the shard gets acknowledged.         *)
EventuallyAcked == \A m \in Msgs : (m <= published) ~> (m \in con.acked)

=============================================================================
