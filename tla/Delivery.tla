------------------------------ MODULE Delivery ------------------------------
(***************************************************************************)
(* The ticks of one product on their two ways to a client: through the     *)
(* snapshotter into the row of the product, which the gateway reads when   *)
(* the client subscribes, and through the gateway's own subscription as    *)
(* increments.  Each way is a consumer of its own, with its own pace, and  *)
(* the two meet in the client's task, whose _handle_subscribe has awaits.  *)
(*                                                                         *)
(* Each consumer is an AtLeastOnce, as ShardConsumer implements it: what   *)
(* Snapshotter and Gateway model in detail is here the one effect on the   *)
(* row or on this client.  A broadcast takes effect when it comes to the   *)
(* client's entry.                                                         *)
(*                                                                         *)
(* A tick is a message of the shard, named by its position, and has a      *)
(* sequence number, which the row takes over and the client gets to see.   *)
(* The numbers need not rise along the shard (see Snapshotter).            *)
(***************************************************************************)
EXTENDS Naturals

CONSTANTS
    Numberings,    \* the sequence numbers the ticks of the shard may have
    MaxPublished,  \* bound: ticks published
    MaxExpiries,   \* bound: ack waits that run out on the gateway, per tick
    MaxFaults      \* bound: failed statements and broadcasts, crashes, pods
                   \* replaced, ack waits that run out on the snapshotter

ASSUME DeliveryAssumption ==
    /\ MaxPublished \in Nat /\ MaxExpiries \in Nat /\ MaxFaults \in Nat
    /\ Numberings \subseteq [1..MaxPublished -> Nat]

VARIABLES
    published,  \* ticks of the shard so far
    seq,        \* the sequence number of each tick, those to come too
    stimes, ssettled, sexpiries, smissed,  \* the snapshotter's subscription
    gtimes, gsettled, gexpiries, gmissed,  \* the gateway's subscription
    row,        \* the tick the row of the product was last written with, 0
                \* when it has none; its last_seq is the number of that tick
    phase,      \* the client: away, reading or sending (its task is in
                \* get_latest or in the send of the snapshot), subscribed
    snapshot,   \* the row it was sent or is to be sent as a snapshot; 0 for
                \* a placeholder or none
    got,        \* the ticks it was sent as increments
    last,       \* the last of them, or 0
    before,     \* history: what was broadcast before its subscription
    withheld,   \* history: ticks it was not sent though subscribed
    faults      \* faults so far

svars == <<stimes, ssettled, sexpiries, smissed, row>>
gvars == <<gtimes, gsettled, gexpiries, gmissed>>
cvars == <<phase, snapshot, got, last, before, withheld>>
vars  == <<published, seq, svars, gvars, cvars, faults>>

Msgs == 1..MaxPublished

ToStore == INSTANCE AtLeastOnce
    WITH times <- stimes, settled <- ssettled, expiries <- sexpiries, missed <- smissed

ToClients == INSTANCE AtLeastOnce
    WITH times <- gtimes, settled <- gsettled, expiries <- gexpiries, missed <- gmissed

Fault ==
    /\ faults < MaxFaults
    /\ faults' = faults + 1

-----------------------------------------------------------------------------
Init ==
    /\ ToStore!Init /\ ToClients!Init
    /\ seq \in Numberings
    /\ row = 0
    /\ phase = "away"
    /\ snapshot = 0 /\ got = {} /\ last = 0
    /\ before = {} /\ withheld = {}
    /\ faults = 0

Publish ==
    /\ ToStore!Publish /\ ToClients!Publish
    /\ UNCHANGED <<seq, row, cvars, faults>>

-----------------------------------------------------------------------------
(* The snapshotter.                                                        *)

(* Its tick handler upserts the row: last_seq becomes seq[m], whatever     *)
(* number the row has.                                                     *)
Record(m) ==
    /\ ToStore!HandOver(m)
    /\ row' = m
    /\ UNCHANGED <<seq, gvars, cvars, faults>>

(* The upsert raises, executed or not, or the store is not ready. *)
RecordFails(m) ==
    /\ ToStore!HandOver(m)
    /\ Fault
    /\ row' \in {row, m}
    /\ UNCHANGED <<seq, gvars, cvars>>

(* It dies, perhaps with the upsert made and the callback not returned. *)
SnapshotterDies ==
    /\ Fault
    /\ \E S \in SUBSET Msgs :
        /\ ToStore!Miss(S)
        /\ row' \in {row} \cup {m \in S : ToStore!Turn(m)}
    /\ UNCHANGED <<seq, gvars, cvars>>

SettleRecord(m) ==
    /\ ToStore!Settle(m)
    /\ UNCHANGED <<seq, row, gvars, cvars, faults>>

ExpireRecord(m) ==
    /\ ToStore!Expire(m)
    /\ Fault
    /\ UNCHANGED <<seq, row, gvars, cvars>>

-----------------------------------------------------------------------------
(* The gateway's subscription.                                             *)

(* A bug the properties must notice: a client counts as subscribed only    *)
(* once it has its snapshot.                                               *)
ListeningLate == phase = "subscribed"

(* The product is in subscribed_products. *)
Listening == phase # "away"

(* send_message sends the increment. *)
Send(m) ==
    /\ Listening
    /\ got' = got \cup {m}
    /\ last' = m
    /\ UNCHANGED <<phase, snapshot, before, withheld>>

(* It sends a rate limit notice instead; or the iterator over the clients  *)
(* passes the entry over (ReachedUnlessSwapped of Gateway).                *)
Withhold(m) ==
    /\ Listening
    /\ withheld' = withheld \cup {m}
    /\ UNCHANGED <<phase, snapshot, got, last, before>>

Ignore == ~Listening /\ UNCHANGED cvars

Broadcast(m) ==
    /\ ToClients!HandOver(m)
    /\ Send(m) \/ Withhold(m) \/ Ignore
    /\ UNCHANGED <<seq, svars, faults>>

(* Another: the exception of a broadcast is swallowed, and the tick acked. *)
SwallowedRaise(m) ==
    /\ ToClients!HandOver(m)
    /\ Fault
    /\ Send(m) \/ UNCHANGED cvars
    /\ UNCHANGED <<seq, svars>>

(* It raises, at a client before this one or behind it. *)
BroadcastRaises(m) ==
    /\ ToClients!Turn(m)
    /\ ToClients!Miss({m})
    /\ Fault
    /\ Send(m) \/ UNCHANGED cvars
    /\ UNCHANGED <<seq, svars>>

SettleBroadcast(m) ==
    /\ ToClients!Settle(m)
    /\ UNCHANGED <<seq, svars, cvars, faults>>

ExpireBroadcast(m) ==
    /\ gexpiries[m] < MaxExpiries
    /\ ToClients!Expire(m)
    /\ UNCHANGED <<seq, svars, cvars, faults>>

(* Another: a connection begins with what the last one was sent. *)
ForgetLittle ==
    /\ phase' = "away"
    /\ snapshot' = 0 /\ got' = {} /\ last' = last
    /\ before' = {} /\ withheld' = {}

(* What the gateway and the client have of each other. *)
Forget ==
    /\ phase' = "away"
    /\ snapshot' = 0 /\ got' = {} /\ last' = 0
    /\ before' = {} /\ withheld' = {}

(* The process dies and starts again in its pod. *)
GatewayDies ==
    /\ Fault
    /\ \E S \in SUBSET Msgs : ToClients!Miss(S)
    /\ Forget
    /\ UNCHANGED <<seq, svars>>

(* The pod is replaced: another HOSTNAME is another durable name, and the  *)
(* consumer of that name starts at the first tick of the shard.            *)
PodReplaced ==
    /\ Fault
    /\ gtimes' = [m \in Msgs |-> 0] /\ gsettled' = {}
    /\ gexpiries' = [m \in Msgs |-> 0] /\ gmissed' = {}
    /\ Forget
    /\ UNCHANGED <<published, seq, svars>>

-----------------------------------------------------------------------------
(* The client.                                                             *)

(* _handle_subscribe up to its first await, with or without want_snapshot. *)
Subscribe ==
    /\ phase = "away"
    /\ phase' \in {"reading", "subscribed"}
    /\ before' = {m \in Msgs : gtimes[m] > 0}
    /\ UNCHANGED <<published, seq, svars, gvars, snapshot, got, last, withheld, faults>>

(* get_latest returns the row, or raises. *)
ReadSnapshot ==
    /\ phase = "reading"
    /\ phase' = "sending"
    /\ \/ snapshot' = row /\ UNCHANGED faults
       \/ snapshot' = 0 /\ Fault
    /\ UNCHANGED <<published, seq, svars, gvars, got, last, before, withheld>>

(* The snapshot is sent, or a rate limit notice in its place, after which  *)
(* nothing sends it again.                                                 *)
SendSnapshot ==
    /\ phase = "sending"
    /\ phase' = "subscribed"
    /\ snapshot' \in {snapshot, 0}
    /\ UNCHANGED <<published, seq, svars, gvars, got, last, before, withheld, faults>>

Leave ==
    /\ phase # "away"
    /\ Forget
    /\ UNCHANGED <<published, seq, svars, gvars, faults>>

Next ==
    \/ Publish
    \/ \E m \in Msgs : \/ Record(m) \/ RecordFails(m)
                       \/ SettleRecord(m) \/ ExpireRecord(m)
                       \/ Broadcast(m) \/ BroadcastRaises(m)
                       \/ SettleBroadcast(m) \/ ExpireBroadcast(m)
    \/ SnapshotterDies \/ GatewayDies \/ PodReplaced
    \/ Subscribe \/ ReadSnapshot \/ SendSnapshot \/ Leave

Spec == Init /\ [][Next]_vars

(* The gateway's loop comes to every tick that is not settled, the first   *)
(* time or after an ack wait (EventuallyAcked of ShardConsumer).           *)
Fairness ==
    \A m \in Msgs : WF_vars(Broadcast(m)) /\ WF_vars(ExpireBroadcast(m))

FairSpec == Spec /\ Fairness

-----------------------------------------------------------------------------
(* The types; only what was published is recorded, broadcast or sent. *)
TypeOK ==
    /\ published \in 0..MaxPublished
    /\ seq \in [Msgs -> Nat]
    /\ stimes \in [Msgs -> Nat] /\ gtimes \in [Msgs -> Nat]
    /\ sexpiries \in [Msgs -> Nat] /\ gexpiries \in [Msgs -> Nat]
    /\ ssettled \subseteq Msgs /\ gsettled \subseteq Msgs
    /\ smissed \subseteq Msgs /\ gmissed \subseteq Msgs
    /\ \A m \in Msgs : gtimes[m] > 0 => m <= published
    /\ row \in 0..published
    /\ phase \in {"away", "reading", "sending", "subscribed"}
    /\ snapshot \in 0..published
    /\ got \subseteq 1..published
    /\ last \in got \cup {0}
    /\ before \subseteq 1..published
    /\ withheld \subseteq 1..published
    /\ faults \in 0..MaxFaults

(* The client has all there is up to its snapshot. *)
CaughtUp == phase = "subscribed" /\ \A m \in before : m <= snapshot

Has(m) == m <= snapshot \/ m \in got

(* Nothing falls between the snapshot and the increments: if the snapshot  *)
(* is as new as what was broadcast before the subscription, the client has *)
(* every tick broadcast since, but for those withheld from it.  That is    *)
(* why _handle_subscribe subscribes first and reads then.                  *)
NoGap ==
    CaughtUp => \A m \in Msgs : gtimes[m] > 0 => Has(m) \/ m \in withheld

(* On one connection the increments go back in sequence numbers only with  *)
(* a tick whose ack wait ran out, or because the shard itself has the      *)
(* smaller number behind the greater: not because broadcasts raise, nor    *)
(* while a new pod replays the shard.                                      *)
IncrementsInOrder ==
    [][last # 0 /\ last' # 0 /\ seq'[last'] < seq[last]
           => gexpiries[last'] > 0 \/ last < last']_vars

(* A client that was caught up gets each tick in the end, if it stays and  *)
(* the tick is not withheld from it.                                       *)
EventuallyTold ==
    \A m \in Msgs :
        CaughtUp /\ m <= published ~> Has(m) \/ m \in withheld \/ ~CaughtUp

(* README.md, "Gateway": clients read up to date price data directly from  *)
(* Postgres.  The row that is read for a snapshot is not older, in the     *)
(* order of the shard, than what the client was sent before the read.      *)
SnapshotUpToDate ==
    [][phase = "reading" /\ phase' = "sending" /\ snapshot' # 0
           => \A m \in got : m <= snapshot']_vars

=============================================================================
