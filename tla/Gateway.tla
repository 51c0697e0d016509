------------------------------ MODULE Gateway ------------------------------
(***************************************************************************)
(* One gateway process (src/services/gateway/app.py): websocket clients    *)
(* connect, subscribe, unsubscribe, ping and leave, each served by a task  *)
(* of its own, while the fetch task of a shard broadcasts every tick to    *)
(* the clients subscribed to its product.                                  *)
(*                                                                         *)
(* Every frame to a client passes send_message, which sends it or, when    *)
(* the client's bucket is empty (RateLimiter), a rate limit notice in its  *)
(* place; which of the two changes nothing else, and both count as sent.   *)
(*                                                                         *)
(* The tasks share one event loop: they interleave at their awaits only.   *)
(* The one that matters is the await of a send inside the loop             *)
(*     for client in self.clients.values()                                 *)
(* because clients join and leave the dict meanwhile.  So the dict is kept *)
(* as CPython keeps it: a table of entries in insertion order, in which a  *)
(* deleted entry leaves a hole, and an iterator that holds an index into   *)
(* that table, the size it saw first and the number of entries it still    *)
(* expects.  An insertion into a full table rebuilds it without the holes, *)
(* and moves the entries under the iterator.                               *)
(***************************************************************************)
EXTENDS JetStream, Integers, Sequences, Functions

CONSTANTS
    Products,      \* products of this shard
    Requests,      \* product lists a client may send (validated, not empty)
    BatchSize,     \* messages per fetch: 10 in the code
    MaxConns,      \* bound: connections ever accepted
    MaxPublished,  \* bound: ticks published to the shard
    MaxRequests    \* bound: messages the clients send

ASSUME GatewayAssumption ==
    /\ \A req \in Requests : req \in Seq(Products) /\ req # << >>
    /\ BatchSize \in Nat \ {0}
    /\ MaxConns \in Nat /\ MaxPublished \in Nat /\ MaxRequests \in Nat

VARIABLES
    ticks,     \* the shard: the product of each tick published
    con,       \* the server's record of the consumer gateway-<host>-<shard>
    batch,     \* msgs: what is left of the last fetch, the current one too
    again,     \* the messages of the last fetch that were delivered again
    at,        \* the message being broadcast or acked, or NoMsg
    phase,     \* the fetch task: idle, in a send of the broadcast, or at the ack
    iter,      \* the iterator over the clients, and the client being sent to
    entries,   \* the table of self.clients: connections in order, Gone for holes
    conns,     \* connections accepted so far, numbered from 1
    subs,      \* subscribed_products per connection
    dead,      \* connections whose peer went away
    handler,   \* what the task of each connection waits for
    todo,      \* products whose snapshot its subscribe has yet to send
    gauge,     \* gateway_active_subscriptions per product
    requests,  \* messages the clients sent so far
    round,     \* history of the current broadcast: who was sent the tick, who
               \* is subscribed since it began, whether anyone joined or left
    sloppy     \* history: products subscribed or unsubscribed redundantly

shardVars == <<ticks, con, batch, again>>
loopVars  == <<at, phase, iter, round>>
connVars  == <<entries, conns, subs, dead, handler, todo, gauge,
               requests, sloppy>>
vars      == <<shardVars, loopVars, connVars>>

Msgs  == 1..MaxPublished
Conns == 1..MaxConns
Gone  == 0

Live    == {i \in DOMAIN entries : entries[i] # Gone}
Clients == {entries[i] : i \in Live}
Subscribers(p) == {c \in Clients : p \in subs[c]}

NoRound == [reached |-> {}, loyal |-> {}, joined |-> FALSE, left |-> FALSE]
NoIter  == [pos |-> 0, used |-> 0, expect |-> 0, to |-> Gone]

(* The `for msg in msgs` loop comes to message m. *)
Turn(m) == phase = "idle" /\ m \in NextOf(batch, again)

-----------------------------------------------------------------------------
Init ==
    /\ ticks = << >>
    /\ con = NewConsumer
    /\ batch = {}
    /\ again = {}
    /\ at = NoMsg
    /\ phase = "idle"
    /\ iter = NoIter
    /\ entries = << >>
    /\ conns = 0
    /\ subs = [c \in Conns |-> {}]
    /\ dead = {}
    /\ handler = [c \in Conns |-> "absent"]
    /\ todo = [c \in Conns |-> << >>]
    /\ gauge = [p \in Products |-> 0]
    /\ requests = 0
    /\ round = NoRound
    /\ sloppy = {}

-----------------------------------------------------------------------------
(* The clients.                                                            *)

(* A table that was full is rebuilt without its holes: the live entries    *)
(* move down and keep their order.                                         *)
Compact(table) ==
    \E place \in Bijection(1..Cardinality(Live), Live) :
        /\ \A i, k \in DOMAIN place : i < k => place[i] < place[k]
        /\ table = [i \in DOMAIN place |-> entries[place[i]]]

(* self.clients[websocket] = client: the entry goes to the end of the      *)
(* table; how full that is depends on every connection since the process   *)
(* started.                                                                *)
Connect ==
    /\ conns < MaxConns
    /\ conns' = conns + 1
    /\ \/ entries' = Append(entries, conns')
       \/ \E table \in [1..Cardinality(Live) -> Clients] :
            Compact(table) /\ entries' = Append(table, conns')
    /\ handler' = [handler EXCEPT ![conns'] = "receive"]
    /\ round' = [round EXCEPT !.joined = @ \/ phase = "sending"]
    /\ UNCHANGED <<shardVars, at, phase, iter, subs, dead, todo, gauge, requests, sloppy>>

Request(c) ==
    /\ handler[c] = "receive" /\ c \notin dead
    /\ requests < MaxRequests
    /\ requests' = requests + 1

(* The client itself, if the request takes a subscription from it. *)
Deserters(c, req) == IF Range(req) \cap subs[c] # {} THEN {c} ELSE {}

Times(p, req) == Cardinality({i \in DOMAIN req : req[i] = p})

(* A bug the properties must notice: the gauge follows the disconnects but *)
(* not the unsubscribes.                                                   *)
UncountedUnsubscribe(c) ==
    /\ Request(c)
    /\ \E req \in Requests :
        /\ subs' = [subs EXCEPT ![c] = @ \ Range(req)]
        /\ round' = [round EXCEPT !.loyal = @ \ Deserters(c, req)]
        /\ UNCHANGED <<gauge, sloppy>>
    /\ UNCHANGED <<shardVars, at, phase, iter, entries, conns,
                   dead, handler, todo>>

(* _handle_subscribe up to its first await: the subscription counts at     *)
(* once, and the gauge once per product listed.                            *)
Subscribe(c) ==
    /\ Request(c)
    /\ \E req \in Requests, wantSnapshot \in BOOLEAN :
        /\ subs' = [subs EXCEPT ![c] = @ \cup Range(req)]
        /\ gauge' = [p \in Products |-> gauge[p] + Times(p, req)]
        /\ sloppy' = sloppy \cup {p \in Range(req) : p \in subs[c] \/ Times(p, req) > 1}
        /\ IF wantSnapshot
           THEN /\ handler' = [handler EXCEPT ![c] = "snapshot"]
                /\ todo' = [todo EXCEPT ![c] = req]
           ELSE UNCHANGED <<handler, todo>>
    /\ UNCHANGED <<shardVars, loopVars, entries, conns, dead>>

(* store.get_latest(product) returned a row, nothing, or raised: in each   *)
(* case one snapshot is sent, the last two times a placeholder.            *)
ReadSnapshot(c) ==
    /\ handler[c] = "snapshot"
    /\ handler' = [handler EXCEPT ![c] = "send"]
    /\ UNCHANGED <<shardVars, loopVars, entries, conns, subs, dead, todo, gauge,
                   requests, sloppy>>

(* _handle_ping: the pong goes through the rate limiter, too. *)
Ping(c) ==
    /\ Request(c)
    /\ handler' = [handler EXCEPT ![c] = "send"]
    /\ UNCHANGED <<shardVars, loopVars, entries, conns, subs, dead, todo, gauge,
                   sloppy>>

(* The send of a snapshot or a pong returns: on to the next product, or to *)
(* the next message of the client.                                         *)
Sent(c) ==
    /\ handler[c] = "send"
    /\ IF Len(todo[c]) > 1
       THEN /\ handler' = [handler EXCEPT ![c] = "snapshot"]
            /\ todo' = [todo EXCEPT ![c] = Tail(@)]
       ELSE /\ handler' = [handler EXCEPT ![c] = "receive"]
            /\ todo' = [todo EXCEPT ![c] = << >>]
    /\ UNCHANGED <<shardVars, loopVars, entries, conns, subs, dead, gauge,
                   requests, sloppy>>

(* _handle_unsubscribe: the gauge goes down whether or not the client was  *)
(* subscribed.                                                             *)
Unsubscribe(c) ==
    /\ Request(c)
    /\ \E req \in Requests :
        /\ subs' = [subs EXCEPT ![c] = @ \ Range(req)]
        /\ gauge' = [p \in Products |-> gauge[p] - Times(p, req)]
        /\ sloppy' = sloppy \cup {p \in Range(req) : p \notin subs[c] \/ Times(p, req) > 1}
        /\ round' = [round EXCEPT !.loyal = @ \ Deserters(c, req)]
    /\ UNCHANGED <<shardVars, at, phase, iter, entries, conns,
                   dead, handler, todo>>

(* The peer goes away; its task has not noticed. *)
Close(c) ==
    /\ c \in Clients \ dead
    /\ dead' = dead \cup {c}
    /\ UNCHANGED <<shardVars, loopVars, entries, conns, subs, handler, todo,
                   gauge, requests, sloppy>>

(* Another: a disconnect that leaves the client in the dict. *)
LeaveEntry(c) ==
    /\ c \in dead
    /\ handler[c] \in {"receive", "send"}
    /\ handler' = [handler EXCEPT ![c] = "absent"]
    /\ gauge' = [p \in Products |-> IF p \in subs[c] THEN gauge[p] - 1 ELSE gauge[p]]
    /\ subs' = [subs EXCEPT ![c] = {}]
    /\ todo' = [todo EXCEPT ![c] = << >>]
    /\ dead' = dead \ {c}
    /\ round' = [round EXCEPT !.loyal = @ \ {c}, !.left = @ \/ phase = "sending"]
    /\ UNCHANGED <<shardVars, at, phase, iter, entries, conns, requests, sloppy>>

(* The task of a dead connection wakes up in receive_text or in a send,    *)
(* which raises: the finally block of _handle_websocket.                   *)
Leave(c) ==
    /\ c \in dead
    /\ handler[c] \in {"receive", "send"}
    /\ handler' = [handler EXCEPT ![c] = "absent"]
    /\ entries' = [i \in DOMAIN entries |-> IF entries[i] = c THEN Gone ELSE entries[i]]
    /\ gauge' = [p \in Products |-> IF p \in subs[c] THEN gauge[p] - 1 ELSE gauge[p]]
    /\ subs' = [subs EXCEPT ![c] = {}]
    /\ todo' = [todo EXCEPT ![c] = << >>]
    /\ dead' = dead \ {c}
    /\ round' = [round EXCEPT !.loyal = @ \ {c}, !.left = @ \/ phase = "sending"]
    /\ UNCHANGED <<shardVars, at, phase, iter, conns, requests, sloppy>>

-----------------------------------------------------------------------------
(* The fetch task and its broadcasts.                                      *)

(* A tick is published to the shard. *)
PublishTick ==
    /\ Len(ticks) < MaxPublished
    /\ \E p \in Products : ticks' = Append(ticks, p)
    /\ UNCHANGED <<con, batch, again, loopVars, connVars>>

(* sub.fetch(10, timeout=1.0) returns messages. *)
Fetch ==
    /\ phase = "idle" /\ batch = {}
    /\ \E B \in Batches(con, Len(ticks), BatchSize) :
        /\ con' = Deliver(con, B)
        /\ batch' = B
        /\ again' = B \cap con.due
    /\ UNCHANGED <<ticks, loopVars, connVars>>

(* What next() on the iterator meets from index pos on, with `expect`      *)
(* entries to come, for a tick of product p.  It raises if the size of the *)
(* dict changed, or if it finds an entry though it expects none.           *)
Ahead(pos)     == {i \in Live : i > pos}
Wanted(pos, p) == {i \in Ahead(pos) : p \in subs[entries[i]]}
Before(pos, i) == Cardinality({k \in Ahead(pos) : k < i})

SameSize(it) == Cardinality(Live) = it.used

(* Another: the loop starts again when the dict changed under it. *)
FindsAgain(it, p, i) ==
    LET from == IF SameSize(it) THEN it.pos ELSE 0
    IN  i \in Wanted(from, p) /\ \A k \in Wanted(from, p) : i <= k

Finds(it, p, i) ==
    /\ SameSize(it)
    /\ i \in Wanted(it.pos, p) /\ \A k \in Wanted(it.pos, p) : i <= k
    /\ Before(it.pos, i) < it.expect

Ends(it, p) ==
    /\ SameSize(it)
    /\ Wanted(it.pos, p) = {}
    /\ Cardinality(Ahead(it.pos)) <= it.expect

Raises(it, p) == ~Ends(it, p) /\ ~\E i \in Live : Finds(it, p, i)

(* The fetch task is done with the current message, acked or not. *)
Finish(m) ==
    /\ at' = NoMsg
    /\ phase' = "idle"
    /\ iter' = NoIter
    /\ round' = NoRound
    /\ batch' = batch \ {m}

(* The loop of _broadcast_tick from one await to the next: it calls        *)
(* send_message for the next subscribed client, ends, or raises, and then  *)
(* the fetch task logs the exception and goes on to the next message.      *)
Continue(m, it, r) ==
    \/ \E i \in Live :
        /\ Finds(it, ticks[m], i)
        /\ at' = m
        /\ phase' = "sending"
        /\ iter' = [it EXCEPT !.pos = i, !.to = entries[i],
                              !.expect = @ - Before(it.pos, i) - 1]
        /\ round' = r
        /\ UNCHANGED batch
    \/ /\ Ends(it, ticks[m])
       /\ at' = m
       /\ phase' = "ack"
       /\ iter' = NoIter
       /\ round' = r
       /\ UNCHANGED batch
    \/ Raises(it, ticks[m]) /\ Finish(m)

(* _broadcast_tick is called.  Without clients the loop ends at once. *)
Broadcast(m) ==
    /\ Turn(m)
    /\ Continue(m,
                [pos |-> 0, used |-> Cardinality(Live),
                 expect |-> Cardinality(Live), to |-> Gone],
                [NoRound EXCEPT !.loyal = Subscribers(ticks[m])])
    /\ UNCHANGED <<ticks, con, again, connVars>>

(* The send of the broadcast returns. *)
Delivered(m) ==
    /\ phase = "sending" /\ at = m
    /\ Continue(m, iter, [round EXCEPT !.reached = @ \cup {iter.to}])
    /\ UNCHANGED <<ticks, con, again, connVars>>

(* A bug the properties must notice: the exception ends the fetch task. *)
FatalSend(m) ==
    /\ phase = "sending" /\ at = m
    /\ iter.to \notin Clients \ dead
    /\ phase' = "stopped"
    /\ UNCHANGED <<shardVars, at, iter, round, connVars>>

(* Another: the exception is swallowed, and the tick acked. *)
SwallowedSend(m) ==
    /\ phase = "sending" /\ at = m
    /\ iter.to \notin Clients \ dead
    /\ phase' = "ack"
    /\ iter' = NoIter
    /\ UNCHANGED <<shardVars, at, round, connVars>>

(* The send raises because the peer is gone: the exception ends the        *)
(* broadcast for every client that comes after.                            *)
SendRaises(m) ==
    /\ phase = "sending" /\ at = m
    /\ iter.to \notin Clients \ dead
    /\ Finish(m)
    /\ UNCHANGED <<ticks, con, again, connVars>>

(* await msg.ack(). *)
Ack(m) ==
    /\ phase = "ack" /\ at = m
    /\ con' = AckMessage(con, m)
    /\ Finish(m)
    /\ UNCHANGED <<ticks, again, connVars>>

(* The server's ack wait for a delivered tick runs out. *)
AckTimeout(m) ==
    /\ m \in con.pending
    /\ con' = Expire(con, m)
    /\ UNCHANGED <<ticks, batch, again, loopVars, connVars>>

Next ==
    \/ Connect \/ PublishTick \/ Fetch
    \/ \E c \in Conns : \/ Subscribe(c) \/ Unsubscribe(c) \/ Ping(c)
                        \/ ReadSnapshot(c) \/ Sent(c)
                        \/ Close(c) \/ Leave(c)
    \/ \E m \in Msgs : \/ Broadcast(m) \/ Delivered(m) \/ SendRaises(m)
                       \/ Ack(m) \/ AckTimeout(m)

Spec == Init /\ [][Next]_vars

(* Every task that is not waiting for a peer runs; a send returns or       *)
(* raises (uvicorn closes a connection that stops answering its pings);    *)
(* a query returns or raises; the server's ack timers fire.                *)
Fairness ==
    /\ WF_vars(Fetch)
    /\ \A c \in Conns : WF_vars(ReadSnapshot(c)) /\ WF_vars(Leave(c))
                        /\ WF_vars(Sent(c))
    /\ \A m \in Msgs : /\ WF_vars(Broadcast(m))
                       /\ WF_vars(Delivered(m) \/ SendRaises(m))
                       /\ WF_vars(Ack(m))
                       /\ WF_vars(AckTimeout(m))

FairSpec == Spec /\ Fairness

-----------------------------------------------------------------------------
(* The types; the broadcast waits for a send only to a client it knew, and *)
(* a table holds a connection once, in the order they came.                *)
TypeOK ==
    /\ con \in Consumers(DOMAIN ticks)
    /\ batch \subseteq con.pending \cup con.due
    /\ phase \in {"idle", "sending", "ack"}
    /\ again \subseteq DOMAIN ticks
    /\ IF phase = "idle" THEN at = NoMsg ELSE at \in batch
    /\ phase = "sending" <=> iter.to # Gone
    /\ iter.expect \in 0..iter.used
    /\ \A i, k \in Live : i < k => entries[i] < entries[k]
    /\ \A c \in Conns : handler[c] # "absent" <=> c \in Clients
    /\ \A c \in Conns : handler[c] = "snapshot" => todo[c] # << >>

(* A tick is acked only when every client that was subscribed since its    *)
(* broadcast began got it (or a rate limit notice), unless one client      *)
(* joined while another left during that broadcast: then the size of the   *)
(* dict hides the change from the iterator.                                *)
ReachedUnlessSwapped ==
    phase = "ack" => \/ round.loyal \subseteq round.reached
                     \/ round.joined /\ round.left

(* One broadcast never sends a tick twice to a client, however the dict    *)
(* changes under it.                                                       *)
OncePerBroadcast == phase = "sending" => iter.to \notin round.reached

(* The gauge of a product is the number of its subscribers, across clients *)
(* that leave in the middle of a request, unless some client subscribed    *)
(* or unsubscribed redundantly.                                            *)
GaugeDriftNeedsCause ==
    \A p \in Products \ sloppy : gauge[p] = Cardinality(Subscribers(p))

(* However clients come, go and break off broadcasts, every tick is in the *)
(* end acknowledged, once they stop doing so.                              *)
EventuallyAcked == \A m \in Msgs : (m \in DOMAIN ticks) ~> (m \in con.acked)

(* README.md, "Gateway": subscribed clients receive incremental updates.   *)
(* No tick is acked that a client subscribed all along was not sent.       *)
SubscribersReached == phase = "ack" => round.loyal \subseteq round.reached

=============================================================================
