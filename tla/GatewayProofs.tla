--------------------------- MODULE GatewayProofs ---------------------------
(***************************************************************************)
(* Proofs about Gateway, for all products, request lists and sizes of      *)
(* batches, and every number of connections, ticks and requests: its       *)
(* types, and what a broadcast and the gauge promise while clients join,   *)
(* leave and move in the table under the iterator.                         *)
(***************************************************************************)
EXTENDS Gateway, JetStreamProofs, FiniteSetTheorems, FunctionTheorems, TLAPS

Iters  == [pos : Nat, used : Nat, expect : Nat, to : 0..MaxConns]
Rounds == [reached : SUBSET Conns, loyal : SUBSET Conns,
           joined : BOOLEAN, left : BOOLEAN]

(* The types in two parts: the fetch task,                                 *)
LoopTyped ==
    /\ ticks \in Seq(Products)
    /\ con \in Consumers(DOMAIN ticks)
    /\ batch \subseteq con.pending \cup con.due
    /\ again \subseteq DOMAIN ticks
    /\ phase \in {"idle", "sending", "ack"}
    /\ IF phase = "idle" THEN at = NoMsg ELSE at \in batch
    /\ iter \in Iters
    /\ iter.expect <= iter.used
    /\ phase = "sending" <=> iter.to # Gone
    /\ round \in Rounds

(* and the table of the clients, and what is kept of each.                 *)
TableTyped ==
    /\ conns \in 0..MaxConns
    /\ entries \in Seq(0..conns)
    /\ \A i, k \in Live : i < k => entries[i] < entries[k]

ClientsTyped ==
    /\ subs \in [Conns -> SUBSET Products]
    /\ handler \in [Conns -> {"absent", "receive", "snapshot", "send"}]
    /\ todo \in [Conns -> Seq(Products)]
    /\ \A c \in Conns : handler[c] # "absent" <=> c \in Clients
    /\ \A c \in Conns : handler[c] = "snapshot" => todo[c] # << >>

Typed == LoopTyped /\ TableTyped /\ ClientsTyped

-----------------------------------------------------------------------------
(* The table.                                                              *)

LEMMA TableFacts ==
    ASSUME TableTyped
    PROVE  /\ Len(entries) \in Nat /\ DOMAIN entries = 1..Len(entries)
           /\ Live \subseteq 1..Len(entries)
           /\ IsFiniteSet(Live) /\ Cardinality(Live) \in Nat
           /\ \A i \in Live : entries[i] \in 1..conns
           /\ Clients \subseteq 1..conns /\ 1..conns \subseteq Conns
           /\ conns \in Nat /\ MaxConns \in Nat
  <1>1. /\ Len(entries) \in Nat /\ DOMAIN entries = 1..Len(entries)
        /\ \A i \in DOMAIN entries : entries[i] \in 0..conns
        /\ conns \in Nat /\ MaxConns \in Nat /\ conns <= MaxConns
    BY GatewayAssumption DEF TableTyped
  <1>2. Live \subseteq 1..Len(entries) /\ \A i \in Live : entries[i] \in 1..conns
    BY <1>1 DEF Live, Gone
  <1>3. IsFiniteSet(Live) /\ Cardinality(Live) \in Nat
    <2>1. IsFiniteSet(1..Len(entries))
      BY <1>1, FS_Interval
    <2>2. IsFiniteSet(Live)
      BY <1>2, <2>1, FS_Subset
    <2> QED
      BY <2>2, FS_CardinalityType
  <1> QED
    BY <1>1, <1>2, <1>3 DEF Clients, Conns

(* What an insertion may put in the place of the table: the same clients,  *)
(* in their order, none of them moved back.                                *)
LiveIn(table) == {i \in DOMAIN table : table[i] # Gone}

Keeps(table) ==
    /\ table \in Seq(0..conns)
    /\ {table[i] : i \in LiveIn(table)} = Clients
    /\ \A i, k \in LiveIn(table) : i < k => table[i] < table[k]
    /\ Cardinality(LiveIn(table)) = Cardinality(Live) /\ IsFiniteSet(LiveIn(table))
    /\ \A i \in LiveIn(table) : \E j \in Live : i <= j /\ table[i] = entries[j]

LEMMA SameTableKeeps ==
    ASSUME TableTyped
    PROVE  Keeps(entries)
  <1>1. LiveIn(entries) = Live
    BY DEF LiveIn, Live
  <1>2. \A i \in Live : i <= i
    BY TableFacts
  <1> QED
    BY <1>1, <1>2, TableFacts DEF Keeps, TableTyped, Clients

(* An increasing enumeration takes none of its values back: the places up  *)
(* to i are i of those up to f[i].                                         *)
LEMMA NoneBack ==
    ASSUME NEW n \in Nat, NEW top \in Nat, NEW f \in [1..n -> 1..top],
           \A i, k \in 1..n : i < k => f[i] < f[k],
           NEW i \in 1..n
    PROVE  i <= f[i]
  <1> DEFINE g == [k \in 1..i |-> f[k]]
  <1>1. f[i] \in Nat /\ i \in Nat
    OBVIOUS
  <1>2. \A k \in 1..i : f[k] \in 1..f[i]
    <2> SUFFICES ASSUME NEW k \in 1..i PROVE f[k] \in 1..f[i]
      OBVIOUS
    <2>1. k \in 1..n /\ f[k] \in 1..top /\ (k = i \/ k < i)
      OBVIOUS
    <2> QED
      BY <1>1, <2>1
  <1>3. \A j, k \in 1..i : f[j] = f[k] => j = k
    <2> SUFFICES ASSUME NEW j \in 1..i, NEW k \in 1..i, f[j] = f[k], j < k
                 PROVE  FALSE
      OBVIOUS
    <2>1. j \in 1..n /\ k \in 1..n /\ f[j] \in 1..top /\ f[k] \in 1..top
      OBVIOUS
    <2> QED
      BY <2>1
  <1>4. g \in Injection(1..i, 1..f[i])
    BY <1>2, <1>3 DEF Injection, IsInjective
  <1> QED
    BY <1>1, <1>4, Fun_NatInjLeq DEF ExistsInjection

LEMMA CompactKeeps ==
    ASSUME TableTyped, NEW table, Compact(table)
    PROVE  Keeps(table)
  <1> DEFINE n == Cardinality(Live)
  <1>1. PICK place \in Bijection(1..n, Live) :
            /\ \A i, k \in DOMAIN place : i < k => place[i] < place[k]
            /\ table = [i \in DOMAIN place |-> entries[place[i]]]
    BY DEF Compact
  <1>2. /\ n \in Nat /\ Live \subseteq 1..Len(entries) /\ Len(entries) \in Nat
        /\ \A i \in Live : entries[i] \in 1..conns
        /\ conns \in Nat
    BY TableFacts
  <1> HIDE DEF n
  <1>3. /\ place \in [1..n -> Live] /\ DOMAIN place = 1..n
        /\ \A j \in Live : \E i \in 1..n : place[i] = j
    BY <1>1 DEF Bijection, Injection, Surjection
  <1>4. /\ table = [i \in 1..n |-> entries[place[i]]]
        /\ \A i, k \in 1..n : i < k => place[i] < place[k]
    BY <1>1, <1>3
  <1>5. /\ table \in [1..n -> 1..conns] /\ DOMAIN table = 1..n
        /\ \A i \in 1..n : table[i] = entries[place[i]] /\ place[i] \in Live
    BY <1>2, <1>3, <1>4
  <1>6. table \in Seq(0..conns)
    BY <1>2, <1>5
  <1>7. LiveIn(table) = 1..n
    BY <1>2, <1>5 DEF LiveIn, Gone
  <1>8. {table[i] : i \in 1..n} = Clients
    BY <1>3, <1>5 DEF Clients
  <1>9. \A i, k \in 1..n : i < k => table[i] < table[k]
    BY <1>3, <1>4, <1>5 DEF TableTyped
  <1>10. Cardinality(1..n) = n /\ IsFiniteSet(1..n)
    BY <1>2, FS_Interval
  <1>11. \A i \in 1..n : i <= place[i]
    <2>1. place \in [1..n -> 1..Len(entries)]
      BY <1>2, <1>3
    <2> QED
      BY <1>2, <1>4, <2>1, NoneBack
  <1> QED
    BY <1>5, <1>6, <1>7, <1>8, <1>9, <1>10, <1>11 DEF Keeps, n

LEMMA WiderSeq ==
    ASSUME NEW S, NEW T, S \subseteq T, NEW s \in Seq(S)
    PROVE  s \in Seq(T) /\ Len(s) \in Nat /\ DOMAIN s = 1..Len(s)
  <1>1. /\ Len(s) \in Nat /\ DOMAIN s = 1..Len(s) /\ s \in [1..Len(s) -> S]
    OBVIOUS
  <1>2. s \in [1..Len(s) -> T]
    BY <1>1
  <1> QED
    BY <1>1, <1>2

(* A connection is added behind all others.                                *)
LEMMA ConnectEffect ==
    ASSUME TableTyped, Connect
    PROVE  /\ conns' = conns + 1 /\ conns' \in Conns /\ conns' \in 0..MaxConns
           /\ TableTyped'
           /\ conns' \notin Clients /\ Clients' = Clients \cup {conns'}
           /\ Cardinality(Live') = Cardinality(Live) + 1
           /\ \A i \in Live' : \/ entries'[i] = conns'
                               \/ \E j \in Live : i <= j /\ entries'[i] = entries[j]
  <1>1. /\ conns' = conns + 1 /\ conns < MaxConns
        /\ \E table : Keeps(table) /\ entries' = Append(table, conns')
    BY SameTableKeeps, CompactKeeps DEF Connect
  <1>2. PICK table : Keeps(table) /\ entries' = Append(table, conns')
    BY <1>1
  <1>3. /\ conns \in Nat /\ MaxConns \in Nat /\ Clients \subseteq 1..conns
    BY TableFacts
  <1>4. /\ conns' \in Conns /\ conns' \in 0..MaxConns /\ conns' # Gone
        /\ conns' \notin Clients /\ 0..conns \subseteq 0..conns'
    BY <1>1, <1>3 DEF Conns, Gone
  <1> DEFINE n == Len(table) + 1
  <1>5. table \in Seq(0..conns') /\ Len(table) \in Nat /\ DOMAIN table = 1..Len(table)
    <2>1. table \in Seq(0..conns) /\ 0..conns \subseteq 0..conns'
      BY <1>2, <1>4 DEF Keeps
    <2> QED
      BY <2>1, WiderSeq
  <1>6. /\ entries' \in Seq(0..conns')
        /\ DOMAIN entries' = DOMAIN table \cup {n} /\ n \notin DOMAIN table
        /\ entries'[n] = conns'
        /\ \A i \in DOMAIN table : entries'[i] = table[i] /\ i < n
    BY <1>2, <1>4, <1>5
  <1> HIDE DEF n
  <1>7. Live' = LiveIn(table) \cup {n} /\ n \notin LiveIn(table)
    BY <1>4, <1>6 DEF Live, LiveIn
  <1>8. \A i \in LiveIn(table) : /\ entries'[i] = table[i] /\ i < n
                                 /\ table[i] \in Clients
    BY <1>2, <1>6 DEF LiveIn, Keeps
  <1>9. Clients' = Clients \cup {conns'}
    <2>1. Clients' = {entries'[i] : i \in Live'}
      BY DEF Clients
    <2>2. {entries'[i] : i \in LiveIn(table)} = {table[i] : i \in LiveIn(table)}
      BY <1>8
    <2>3. Clients' = {entries'[i] : i \in LiveIn(table)} \cup {conns'}
      BY <1>6, <1>7, <2>1
    <2> QED
      BY <1>2, <2>2, <2>3 DEF Keeps
  <1>10. Cardinality(Live') = Cardinality(Live) + 1
    BY <1>2, <1>7, FS_AddElement DEF Keeps
  <1>11. \A i, k \in Live' : i < k => entries'[i] < entries'[k]
    <2> SUFFICES ASSUME NEW i \in Live', NEW k \in Live', i < k
                 PROVE  entries'[i] < entries'[k]
      OBVIOUS
    <2>1. i \in LiveIn(table)
      BY <1>5, <1>6, <1>7, <1>8 DEF LiveIn, n
    <2>2. CASE k \in LiveIn(table)
      BY <1>2, <1>8, <2>1, <2>2 DEF Keeps
    <2>3. CASE k = n
      <3>1. entries'[i] \in 1..conns /\ entries'[k] = conns + 1
        BY <1>1, <1>3, <1>6, <1>8, <2>1, <2>3
      <3> QED
        BY <1>3, <3>1
    <2> QED
      BY <1>7, <2>2, <2>3
  <1>12. \A i \in Live' : \/ entries'[i] = conns'
                          \/ \E j \in Live : i <= j /\ entries'[i] = entries[j]
    BY <1>2, <1>6, <1>7, <1>8 DEF Keeps
  <1> QED
    BY <1>1, <1>4, <1>6, <1>9, <1>10, <1>11, <1>12 DEF TableTyped

(* The entry of a client that leaves becomes a hole.                       *)
LEMMA LeaveEffect ==
    ASSUME TableTyped, NEW c \in Conns, Leave(c)
    PROVE  /\ TableTyped' /\ conns' = conns
           /\ Live' = {i \in Live : entries[i] # c}
           /\ \A i \in Live' : entries'[i] = entries[i]
           /\ Clients' = Clients \ {c}
  <1>1. /\ entries' = [i \in DOMAIN entries |-> IF entries[i] = c THEN Gone ELSE entries[i]]
        /\ conns' = conns
    BY DEF Leave
  <1>2. /\ Len(entries) \in Nat /\ DOMAIN entries = 1..Len(entries)
        /\ \A i \in DOMAIN entries : entries[i] \in 0..conns
        /\ conns \in Nat
    BY TableFacts DEF TableTyped
  <1>3. /\ DOMAIN entries' = DOMAIN entries
        /\ \A i \in DOMAIN entries : entries'[i] \in 0..conns
        /\ entries' \in Seq(0..conns)
    BY <1>1, <1>2 DEF Gone
  <1>4. Live' = {i \in Live : entries[i] # c}
    BY <1>1, <1>3 DEF Live, Conns, Gone
  <1>5. \A i \in Live' : entries'[i] = entries[i]
    BY <1>1, <1>4 DEF Live
  <1>6. Clients' = Clients \ {c}
    <2>1. Clients' = {entries'[i] : i \in Live'}
      BY DEF Clients
    <2> QED
      BY <1>4, <1>5, <2>1 DEF Clients
  <1> QED
    BY <1>1, <1>3, <1>4, <1>5, <1>6 DEF TableTyped

-----------------------------------------------------------------------------
(* The fetch task.                                                         *)

LEMMA LoopFacts ==
    ASSUME LoopTyped
    PROVE  /\ Len(ticks) \in Nat /\ DOMAIN ticks = 1..Len(ticks)
           /\ \A m \in DOMAIN ticks : ticks[m] \in Products /\ m # NoMsg
           /\ batch \subseteq DOMAIN ticks
           /\ phase # "idle" => at \in batch /\ at # NoMsg
           /\ iter.to # Gone => iter.to \in Conns
  <1>1. /\ Len(ticks) \in Nat /\ DOMAIN ticks = 1..Len(ticks)
        /\ \A m \in DOMAIN ticks : ticks[m] \in Products
    BY DEF LoopTyped
  <1>2. batch \subseteq DOMAIN ticks
    BY DEF LoopTyped, Consumers
  <1>3. iter.to # Gone => iter.to \in Conns
    BY GatewayAssumption DEF LoopTyped, Iters, Gone, Conns
  <1> QED
    BY <1>1, <1>2, <1>3 DEF LoopTyped, NoMsg

LEMMA NoneFacts ==
    /\ NoRound \in Rounds /\ NoRound.reached = {} /\ NoRound.loyal = {}
    /\ ~NoRound.joined /\ ~NoRound.left
    /\ NoIter \in Iters /\ NoIter.to = Gone /\ NoIter.expect <= NoIter.used
  BY GatewayAssumption DEF NoRound, Rounds, NoIter, Iters, Gone

(* What a client does to the broadcast under way.                          *)
LEMMA ConnectRound ==
    ASSUME LoopTyped, Connect
    PROVE  /\ UNCHANGED <<ticks, con, batch, again, at, phase, iter>>
           /\ round' \in Rounds /\ round'.reached = round.reached
           /\ round'.loyal = round.loyal /\ round'.left = round.left
           /\ round'.joined = (round.joined \/ phase = "sending")
  <1>1. /\ UNCHANGED <<ticks, con, batch, again, at, phase, iter>>
        /\ round' = [round EXCEPT !.joined = round.joined \/ phase = "sending"]
    BY DEF Connect, shardVars
  <1> DEFINE b == round.joined \/ phase = "sending"
  <1>2. round \in Rounds /\ b \in BOOLEAN /\ round' = [round EXCEPT !.joined = b]
    BY <1>1 DEF LoopTyped
  <1> HIDE DEF b
  <1>3. /\ round' \in Rounds /\ round'.reached = round.reached
        /\ round'.loyal = round.loyal /\ round'.left = round.left
        /\ round'.joined = b
    BY <1>2 DEF Rounds
  <1> QED
    BY <1>1, <1>3 DEF b

LEMMA LeaveRound ==
    ASSUME LoopTyped, NEW c \in Conns, Leave(c)
    PROVE  /\ UNCHANGED <<ticks, con, batch, again, at, phase, iter>>
           /\ round' \in Rounds /\ round'.reached = round.reached
           /\ round'.loyal = round.loyal \ {c} /\ round'.joined = round.joined
           /\ round'.left = (round.left \/ phase = "sending")
  <1>1. /\ UNCHANGED <<ticks, con, batch, again, at, phase, iter>>
        /\ round' = [round EXCEPT !.loyal = round.loyal \ {c},
                                  !.left = round.left \/ phase = "sending"]
    BY DEF Leave, shardVars
  <1> DEFINE b == round.left \/ phase = "sending"
             L == round.loyal \ {c}
  <1>2. /\ round \in Rounds /\ b \in BOOLEAN /\ L \in SUBSET Conns
        /\ round' = [round EXCEPT !.loyal = L, !.left = b]
    BY <1>1 DEF LoopTyped, Rounds
  <1> HIDE DEF b, L
  <1>3. /\ round' \in Rounds /\ round'.reached = round.reached
        /\ round'.loyal = L /\ round'.left = b /\ round'.joined = round.joined
    BY <1>2 DEF Rounds
  <1> QED
    BY <1>1, <1>3 DEF b, L

LEMMA UnsubscribeRound ==
    ASSUME LoopTyped, NEW c \in Conns, Unsubscribe(c)
    PROVE  /\ UNCHANGED <<ticks, con, batch, again, at, phase, iter>>
           /\ round' \in Rounds /\ round'.reached = round.reached
           /\ round'.joined = round.joined /\ round'.left = round.left
           /\ \E req \in Requests : /\ subs' = [subs EXCEPT ![c] = @ \ Range(req)]
                                    /\ round'.loyal = round.loyal \ Deserters(c, req)
  <1>1. PICK req \in Requests :
            /\ subs' = [subs EXCEPT ![c] = @ \ Range(req)]
            /\ round' = [round EXCEPT !.loyal = @ \ Deserters(c, req)]
    BY DEF Unsubscribe
  <1>2. UNCHANGED <<ticks, con, batch, again, at, phase, iter>>
    BY DEF Unsubscribe, shardVars
  <1> DEFINE L == round.loyal \ Deserters(c, req)
  <1>3. /\ round \in Rounds /\ L \in SUBSET Conns
        /\ round' = [round EXCEPT !.loyal = L]
    BY <1>1 DEF LoopTyped, Rounds
  <1> HIDE DEF L
  <1>4. /\ round' \in Rounds /\ round'.reached = round.reached
        /\ round'.loyal = L /\ round'.left = round.left /\ round'.joined = round.joined
    BY <1>3 DEF Rounds
  <1> QED
    BY <1>1, <1>2, <1>4 DEF L

(* The other steps of the tasks of the clients.                            *)
Serving(c) ==
    Subscribe(c) \/ Ping(c) \/ ReadSnapshot(c) \/ Sent(c) \/ Close(c)

LEMMA ServingFacts ==
    ASSUME NEW c, Serving(c)
    PROVE  /\ UNCHANGED <<ticks, con, batch, again, at, phase, iter, round>>
           /\ UNCHANGED <<entries, conns>>
  BY DEF Serving, Subscribe, Ping, ReadSnapshot, Sent, Close, shardVars, loopVars

(* The iterator goes to the next entry of a subscriber, behind it, or the  *)
(* loop is over, in one way or the other.                                  *)
LEMMA ContinueEffect ==
    ASSUME LoopTyped, TableTyped, NEW m \in DOMAIN ticks, NEW it \in Iters, NEW r,
           it.expect <= it.used, Continue(m, it, r)
    PROVE  \/ /\ at' = m /\ phase' = "sending" /\ round' = r /\ batch' = batch
              /\ iter' \in Iters /\ iter'.expect <= iter'.used /\ iter'.used = it.used
              /\ iter'.pos \in Ahead(it.pos) /\ iter'.pos \in Live
              /\ iter'.to = entries[iter'.pos] /\ iter'.to # Gone
              /\ SameSize(it)
              /\ \A k \in Wanted(it.pos, ticks[m]) : iter'.pos <= k
           \/ /\ at' = m /\ phase' = "ack" /\ round' = r /\ batch' = batch
              /\ iter' = NoIter
              /\ SameSize(it) /\ Wanted(it.pos, ticks[m]) = {}
           \/ /\ at' = NoMsg /\ phase' = "idle" /\ round' = NoRound
              /\ batch' = batch \ {m} /\ iter' = NoIter
  <1>1. CASE \E i \in Live :
                /\ Finds(it, ticks[m], i)
                /\ at' = m /\ phase' = "sending" /\ round' = r /\ UNCHANGED batch
                /\ iter' = [it EXCEPT !.pos = i, !.to = entries[i],
                                      !.expect = @ - Before(it.pos, i) - 1]
    <2>1. PICK i \in Live :
                /\ Finds(it, ticks[m], i)
                /\ at' = m /\ phase' = "sending" /\ round' = r /\ UNCHANGED batch
                /\ iter' = [it EXCEPT !.pos = i, !.to = entries[i],
                                      !.expect = @ - Before(it.pos, i) - 1]
      BY <1>1
    <2>2. /\ SameSize(it) /\ Before(it.pos, i) < it.expect
          /\ i \in Wanted(it.pos, ticks[m])
          /\ \A k \in Wanted(it.pos, ticks[m]) : i <= k
      BY <2>1 DEF Finds
    <2>3. i \in Ahead(it.pos)
      BY <2>2 DEF Wanted
    <2>4. Before(it.pos, i) \in Nat
      <3>1. {k \in Ahead(it.pos) : k < i} \subseteq Live
        BY DEF Ahead
      <3>2. IsFiniteSet({k \in Ahead(it.pos) : k < i})
        BY <3>1, TableFacts, FS_Subset
      <3> QED
        BY <3>2, FS_CardinalityType DEF Before
    <2>5. i \in Nat /\ entries[i] \in 1..conns /\ conns \in 0..MaxConns /\ MaxConns \in Nat
      BY TableFacts DEF TableTyped
    <2>6. entries[i] \in 0..MaxConns /\ entries[i] # Gone
      BY <2>5 DEF Gone
    <2>7. it.expect - Before(it.pos, i) - 1 \in Nat
          /\ it.expect - Before(it.pos, i) - 1 <= it.used
      BY <2>2, <2>4 DEF Iters
    <2>8. /\ iter' \in Iters /\ iter'.used = it.used /\ iter'.pos = i
          /\ iter'.to = entries[i] /\ iter'.expect = it.expect - Before(it.pos, i) - 1
      BY <2>1, <2>5, <2>6, <2>7 DEF Iters
    <2> QED
      BY <2>1, <2>2, <2>3, <2>6, <2>7, <2>8
  <1>2. CASE /\ Ends(it, ticks[m]) /\ at' = m /\ phase' = "ack" /\ iter' = NoIter
             /\ round' = r /\ UNCHANGED batch
    BY <1>2 DEF Ends
  <1>3. CASE Finish(m)
    BY <1>3 DEF Finish
  <1> QED
    BY <1>1, <1>2, <1>3 DEF Continue

(* The same of the first step of a broadcast, and of a later one.          *)
LEMMA BroadcastFacts ==
    ASSUME LoopTyped, TableTyped, NEW m, Broadcast(m)
    PROVE  /\ phase = "idle" /\ m \in batch /\ m \in DOMAIN ticks
           /\ UNCHANGED <<ticks, con, again, connVars>>
           /\ \E it \in Iters, r \in Rounds :
                /\ it.pos = 0 /\ it.used = Cardinality(Live) /\ it.expect <= it.used
                /\ r.reached = {} /\ r.loyal = Subscribers(ticks[m])
                /\ ~r.joined /\ ~r.left
                /\ Continue(m, it, r)
  <1> DEFINE it == [pos |-> 0, used |-> Cardinality(Live),
                    expect |-> Cardinality(Live), to |-> Gone]
             r  == [NoRound EXCEPT !.loyal = Subscribers(ticks[m])]
  <1>1. /\ phase = "idle" /\ m \in batch /\ m \in DOMAIN ticks
        /\ UNCHANGED <<ticks, con, again, connVars>>
        /\ Continue(m, it, r)
    BY NextFacts, LoopFacts DEF Broadcast, Turn
  <1>2. it \in Iters /\ it.pos = 0 /\ it.used = Cardinality(Live) /\ it.expect <= it.used
    BY TableFacts DEF Iters, Gone
  <1>3. Subscribers(ticks[m]) \in SUBSET Conns
    BY TableFacts DEF Subscribers
  <1>4. /\ r \in Rounds /\ r.reached = {} /\ r.loyal = Subscribers(ticks[m])
        /\ ~r.joined /\ ~r.left
    BY <1>3, NoneFacts DEF Rounds
  <1> HIDE DEF it, r
  <1> QED
    BY <1>1, <1>2, <1>4

LEMMA DeliveredFacts ==
    ASSUME LoopTyped, TableTyped, NEW m, Delivered(m)
    PROVE  /\ phase = "sending" /\ at = m /\ m \in batch /\ m \in DOMAIN ticks
           /\ iter.to # Gone /\ iter \in Iters /\ iter.expect <= iter.used
           /\ UNCHANGED <<ticks, con, again, connVars>>
           /\ \E r \in Rounds :
                /\ r.reached = round.reached \cup {iter.to} /\ r.loyal = round.loyal
                /\ r.joined = round.joined /\ r.left = round.left
                /\ Continue(m, iter, r)
  <1> DEFINE r == [round EXCEPT !.reached = @ \cup {iter.to}]
  <1>1. /\ phase = "sending" /\ at = m /\ m \in batch /\ m \in DOMAIN ticks
        /\ UNCHANGED <<ticks, con, again, connVars>>
        /\ Continue(m, iter, r)
        /\ iter.to # Gone /\ iter \in Iters /\ iter.expect <= iter.used
    BY LoopFacts DEF Delivered, LoopTyped
  <1>2. round \in Rounds /\ round.reached \cup {iter.to} \in SUBSET Conns
    BY <1>1, LoopFacts DEF LoopTyped, Rounds
  <1>3. /\ r \in Rounds /\ r.reached = round.reached \cup {iter.to}
        /\ r.loyal = round.loyal /\ r.joined = round.joined /\ r.left = round.left
    BY <1>2 DEF Rounds
  <1> HIDE DEF r
  <1> QED
    BY <1>1, <1>3

-----------------------------------------------------------------------------
LEMMA StepCases ==
    ASSUME [Next]_vars
    PROVE  \/ PublishTick \/ Fetch \/ Connect \/ UNCHANGED vars
           \/ \E c \in Conns : Serving(c) \/ Unsubscribe(c) \/ Leave(c)
           \/ \E m \in Msgs : \/ Broadcast(m) \/ Delivered(m) \/ SendRaises(m)
                              \/ Ack(m) \/ AckTimeout(m)
  BY DEF Next, Serving

LEMMA LoopTypedStep ==
    ASSUME LoopTyped, TableTyped, [Next]_vars
    PROVE  LoopTyped'
  <1>0. /\ con \in Consumers(DOMAIN ticks) /\ batch \subseteq DOMAIN ticks
        /\ DOMAIN ticks = 1..Len(ticks) /\ Len(ticks) \in Nat
    BY LoopFacts DEF LoopTyped
  <1>1. ASSUME NEW m \in DOMAIN ticks, NEW it \in Iters, NEW r \in Rounds,
               it.expect <= it.used, m \in batch, Continue(m, it, r),
               UNCHANGED <<ticks, con, again>>
        PROVE  LoopTyped'
    <2>1. \/ /\ at' = m /\ phase' = "sending" /\ round' = r /\ batch' = batch
             /\ iter' \in Iters /\ iter'.expect <= iter'.used /\ iter'.to # Gone
          \/ /\ at' = m /\ phase' = "ack" /\ round' = r /\ batch' = batch
             /\ iter' = NoIter
          \/ /\ at' = NoMsg /\ phase' = "idle" /\ round' = NoRound
             /\ batch' = batch \ {m} /\ iter' = NoIter
      BY <1>1, ContinueEffect
    <2> QED
      BY <1>1, <2>1, NoneFacts DEF LoopTyped
  <1>2. CASE PublishTick
    <2>1. PICK p \in Products : ticks' = Append(ticks, p)
      BY <1>2 DEF PublishTick
    <2>2. UNCHANGED <<con, batch, again, at, phase, iter, round>>
      BY <1>2 DEF PublishTick, loopVars
    <2>3. ticks' \in Seq(Products) /\ DOMAIN ticks \subseteq DOMAIN ticks'
      BY <2>1 DEF LoopTyped
    <2>4. con' \in Consumers(DOMAIN ticks')
      BY <1>0, <2>2, <2>3 DEF Consumers
    <2> QED
      BY <2>2, <2>3, <2>4 DEF LoopTyped
  <1>3. CASE Fetch
    <2>1. PICK B \in Batches(con, Len(ticks), BatchSize) :
              con' = Deliver(con, B) /\ batch' = B /\ again' = B \cap con.due
      BY <1>3 DEF Fetch
    <2>2. UNCHANGED <<ticks, at, phase, iter, round>> /\ phase = "idle"
      BY <1>3 DEF Fetch, loopVars
    <2>3. /\ B \subseteq 1..Len(ticks) /\ con' \in Consumers(1..Len(ticks))
          /\ con'.pending = con.pending \cup B
      BY <1>0, <2>1, DeliverFacts, GatewayAssumption
    <2> QED
      BY <1>0, <2>1, <2>2, <2>3 DEF LoopTyped
  <1>4. CASE Connect
    BY <1>4, ConnectRound DEF LoopTyped
  <1>5. ASSUME NEW c \in Conns, Serving(c) \/ Unsubscribe(c) \/ Leave(c)
        PROVE  LoopTyped'
    BY <1>5, ServingFacts, UnsubscribeRound, LeaveRound DEF LoopTyped
  <1>6. ASSUME NEW m \in Msgs, Broadcast(m)
        PROVE  LoopTyped'
    BY <1>1, <1>6, BroadcastFacts
  <1>7. ASSUME NEW m \in Msgs, Delivered(m)
        PROVE  LoopTyped'
    BY <1>1, <1>7, DeliveredFacts
  <1>8. ASSUME NEW m \in Msgs, SendRaises(m)
        PROVE  LoopTyped'
    <2>1. /\ UNCHANGED <<ticks, con, again>> /\ at' = NoMsg /\ phase' = "idle"
          /\ iter' = NoIter /\ round' = NoRound /\ batch' = batch \ {m}
      BY <1>8 DEF SendRaises, Finish
    <2> QED
      BY <2>1, NoneFacts DEF LoopTyped
  <1>9. ASSUME NEW m \in Msgs, Ack(m)
        PROVE  LoopTyped'
    <2>1. /\ UNCHANGED <<ticks, again>> /\ at' = NoMsg /\ phase' = "idle"
          /\ iter' = NoIter /\ round' = NoRound /\ batch' = batch \ {m}
          /\ con' = AckMessage(con, m) /\ m \in batch
      BY <1>9 DEF Ack, Finish, LoopTyped
    <2>2. /\ con' \in Consumers(DOMAIN ticks)
          /\ con'.pending = con.pending \ {m} /\ con'.due = con.due \ {m}
      BY <1>0, <2>1, AckFacts
    <2> QED
      BY <2>1, <2>2, NoneFacts DEF LoopTyped
  <1>10. ASSUME NEW m \in Msgs, AckTimeout(m)
         PROVE  LoopTyped'
    <2>1. /\ UNCHANGED <<ticks, batch, again, at, phase, iter, round>>
          /\ con' = Expire(con, m) /\ m \in con.pending
      BY <1>10 DEF AckTimeout, loopVars
    <2>2. m \in DOMAIN ticks
      BY <1>0, <2>1 DEF Consumers
    <2>3. /\ con' \in Consumers(DOMAIN ticks)
          /\ con'.pending = con.pending \ {m} /\ con'.due = con.due \cup {m}
      BY <1>0, <2>1, <2>2, ExpireFacts
    <2> QED
      BY <2>1, <2>3 DEF LoopTyped
  <1>11. CASE UNCHANGED vars
    BY <1>11 DEF vars, shardVars, loopVars, LoopTyped
  <1> QED
    BY <1>2, <1>3, <1>4, <1>5, <1>6, <1>7, <1>8, <1>9, <1>10, <1>11, StepCases

(* The steps of the fetch task and of the server leave the clients alone.  *)
LEMMA FetchTaskFacts ==
    ASSUME \/ PublishTick \/ Fetch \/ UNCHANGED vars
           \/ \E m \in Msgs : \/ Broadcast(m) \/ Delivered(m) \/ SendRaises(m)
                              \/ Ack(m) \/ AckTimeout(m)
    PROVE  UNCHANGED <<entries, conns, subs, dead, handler, todo, gauge, requests,
                       sloppy>>
  BY DEF PublishTick, Fetch, Broadcast, Delivered, SendRaises, Ack, AckTimeout, vars,
         connVars

LEMMA TableTypedStep ==
    ASSUME LoopTyped, TableTyped, [Next]_vars
    PROVE  TableTyped'
  <1>1. CASE Connect
    BY <1>1, ConnectEffect
  <1>2. CASE \E c \in Conns : Leave(c)
    BY <1>2, LeaveEffect
  <1>3. CASE UNCHANGED <<entries, conns>>
    <2>1. Live' = Live
      BY <1>3 DEF Live
    <2> QED
      BY <1>3, <2>1 DEF TableTyped
  <1>4. ASSUME NEW c \in Conns, Serving(c) \/ Unsubscribe(c)
        PROVE  TableTyped'
    BY <1>3, <1>4, ServingFacts DEF Unsubscribe
  <1> QED
    BY <1>1, <1>2, <1>3, <1>4, StepCases, FetchTaskFacts

LEMMA TailFacts ==
    ASSUME NEW S, NEW s \in Seq(S), Len(s) > 1
    PROVE  Tail(s) \in Seq(S) /\ Tail(s) # << >>
  <1>1. s # << >> /\ Len(s) \in Nat
    OBVIOUS
  <1>2. Tail(s) \in Seq(S) /\ Len(Tail(s)) = Len(s) - 1
    BY <1>1
  <1> DEFINE t == Tail(s)
  <1>3. t \in Seq(S) /\ Len(t) # 0
    BY <1>1, <1>2
  <1> HIDE DEF t
  <1>4. t # << >>
    BY <1>3
  <1> QED
    BY <1>3, <1>4 DEF t

LEMMA ClientsTypedStep ==
    ASSUME LoopTyped, TableTyped, ClientsTyped, [Next]_vars
    PROVE  ClientsTyped'
  <1>1. ASSUME UNCHANGED entries
        PROVE  Clients' = Clients
    BY <1>1 DEF Clients, Live
  <1>2. CASE UNCHANGED <<entries, subs, handler, todo>>
    BY <1>1, <1>2 DEF ClientsTyped
  <1>3. CASE Connect
    <2>1. /\ handler' = [handler EXCEPT ![conns'] = "receive"]
          /\ UNCHANGED <<subs, todo>>
      BY <1>3 DEF Connect
    <2>2. conns' \in Conns /\ Clients' = Clients \cup {conns'}
      BY <1>3, ConnectEffect
    <2> QED
      BY <2>1, <2>2 DEF ClientsTyped
  <1>4. ASSUME NEW c \in Conns, Leave(c)
        PROVE  ClientsTyped'
    <2>1. /\ handler' = [handler EXCEPT ![c] = "absent"]
          /\ subs' = [subs EXCEPT ![c] = {}] /\ todo' = [todo EXCEPT ![c] = << >>]
      BY <1>4 DEF Leave
    <2>2. Clients' = Clients \ {c}
      BY <1>4, LeaveEffect
    <2> QED
      BY <2>1, <2>2 DEF ClientsTyped
  <1>5. ASSUME NEW c \in Conns, Unsubscribe(c)
        PROVE  ClientsTyped'
    <2>1. UNCHANGED <<entries, handler, todo>>
      BY <1>5 DEF Unsubscribe
    <2>2. PICK req \in Requests : subs' = [subs EXCEPT ![c] = @ \ Range(req)]
      BY <1>5 DEF Unsubscribe
    <2> QED
      BY <1>1, <2>1, <2>2 DEF ClientsTyped
  <1>6. ASSUME NEW c \in Conns, Subscribe(c)
        PROVE  ClientsTyped'
    <2>1. PICK req \in Requests :
              /\ subs' = [subs EXCEPT ![c] = @ \cup Range(req)]
              /\ \/ UNCHANGED <<handler, todo>>
                 \/ /\ handler' = [handler EXCEPT ![c] = "snapshot"]
                    /\ todo' = [todo EXCEPT ![c] = req]
      BY <1>6 DEF Subscribe
    <2>2. /\ req \in Seq(Products) /\ req # << >> /\ Range(req) \subseteq Products
          /\ handler[c] = "receive" /\ Clients' = Clients
      BY <1>1, <1>6, GatewayAssumption DEF Subscribe, Request, Range
    <2>3. subs' \in [Conns -> SUBSET Products]
      BY <2>1, <2>2 DEF ClientsTyped
    <2>4. CASE UNCHANGED <<handler, todo>>
      BY <2>2, <2>3, <2>4 DEF ClientsTyped
    <2>5. CASE /\ handler' = [handler EXCEPT ![c] = "snapshot"]
               /\ todo' = [todo EXCEPT ![c] = req]
      BY <2>2, <2>3, <2>5 DEF ClientsTyped
    <2> QED
      BY <2>1, <2>4, <2>5
  <1>7. ASSUME NEW c \in Conns, Ping(c) \/ ReadSnapshot(c)
        PROVE  ClientsTyped'
    <2>1. /\ UNCHANGED <<entries, subs, todo>> /\ handler[c] # "absent"
          /\ handler' = [handler EXCEPT ![c] = "send"]
      BY <1>7 DEF Ping, ReadSnapshot, Request
    <2> QED
      BY <1>1, <2>1 DEF ClientsTyped
  <1>8. ASSUME NEW c \in Conns, Sent(c)
        PROVE  ClientsTyped'
    <2>1. /\ UNCHANGED <<entries, subs>> /\ handler[c] = "send"
          /\ \/ /\ Len(todo[c]) > 1 /\ handler' = [handler EXCEPT ![c] = "snapshot"]
                /\ todo' = [todo EXCEPT ![c] = Tail(todo[c])]
             \/ /\ handler' = [handler EXCEPT ![c] = "receive"]
                /\ todo' = [todo EXCEPT ![c] = << >>]
      BY <1>8 DEF Sent
    <2>2. todo[c] \in Seq(Products)
      BY DEF ClientsTyped
    <2>3. CASE /\ Len(todo[c]) > 1 /\ handler' = [handler EXCEPT ![c] = "snapshot"]
               /\ todo' = [todo EXCEPT ![c] = Tail(todo[c])]
      <3>1. Tail(todo[c]) \in Seq(Products) /\ Tail(todo[c]) # << >>
        BY <2>2, <2>3, TailFacts
      <3> QED
        BY <1>1, <2>1, <2>3, <3>1 DEF ClientsTyped
    <2>4. CASE /\ handler' = [handler EXCEPT ![c] = "receive"]
               /\ todo' = [todo EXCEPT ![c] = << >>]
      BY <1>1, <2>1, <2>4 DEF ClientsTyped
    <2> QED
      BY <2>1, <2>3, <2>4
  <1>9. ASSUME NEW c \in Conns, Close(c)
        PROVE  ClientsTyped'
    BY <1>2, <1>9 DEF Close
  <1> QED
    BY <1>2, <1>3, <1>4, <1>5, <1>6, <1>7, <1>8, <1>9, StepCases, FetchTaskFacts
       DEF Serving

LEMMA TypedStarts == Init => Typed
  <1> SUFFICES ASSUME Init PROVE Typed
    OBVIOUS
  <1>1. LoopTyped
    <2>1. /\ ticks \in Seq(Products) /\ con \in Consumers(DOMAIN ticks)
      BY NewConsumerFacts DEF Init
    <2> QED
      BY <2>1, NoneFacts DEF Init, LoopTyped
  <1>2. TableTyped
    <2>1. entries \in Seq(0..conns) /\ DOMAIN entries = {} /\ conns = 0
      BY DEF Init
    <2>2. Live = {}
      BY <2>1 DEF Live
    <2> QED
      BY <2>1, <2>2, GatewayAssumption DEF TableTyped
  <1>3. ClientsTyped
    <2>1. DOMAIN entries = {}
      BY DEF Init
    <2>2. Clients = {}
      BY <2>1 DEF Live, Clients
    <2> QED
      BY <2>2 DEF Init, ClientsTyped
  <1> QED
    BY <1>1, <1>2, <1>3 DEF Typed

LEMMA TypedStep == Typed /\ [Next]_vars => Typed'
  BY LoopTypedStep, TableTypedStep, ClientsTypedStep DEF Typed

LEMMA TypedAlways == Spec => []Typed
  BY TypedStarts, TypedStep, PTL DEF Spec

(* The types; a connection is in the table once and as long as its task    *)
(* runs.                                                                   *)
THEOREM TypeCorrect == Spec => []TypeOK
  <1>1. Typed => TypeOK
    <2> SUFFICES ASSUME Typed PROVE TypeOK
      OBVIOUS
    <2>1. iter.expect \in 0..iter.used
      BY DEF Typed, LoopTyped, Iters
    <2> QED
      BY <2>1 DEF Typed, LoopTyped, TableTyped, ClientsTyped, TypeOK
  <1> QED
    BY <1>1, TypedAlways, PTL

-----------------------------------------------------------------------------
(* Why a broadcast reaches nobody twice.                                   *)

(* The clients in the table are in the order of their connections, and     *)
(* neither an insertion nor a deletion moves an entry back: what is ahead  *)
(* of the iterator came later than the client it sends to, and that one    *)
(* later than those it has reached.                                        *)
Onward ==
    phase = "sending" =>
        /\ iter.to <= conns
        /\ \A c \in round.reached : c < iter.to
        /\ \A i \in Ahead(iter.pos) : iter.to < entries[i]

LEMMA OnwardStep ==
    ASSUME Typed, Onward, [Next]_vars
    PROVE  Onward'
  <1> USE DEF Typed
  <1>0. /\ conns \in Nat /\ Live \subseteq Nat
        /\ \A i \in Live : entries[i] \in 1..conns
        /\ iter.pos \in Nat /\ iter.to \in Nat
        /\ round.reached \subseteq Nat
    BY TableFacts DEF LoopTyped, Iters, Rounds, Conns
  <1>1. CASE phase' # "sending"
    BY <1>1 DEF Onward
  <1>2. CASE UNCHANGED <<phase, iter, entries, conns>> /\ round'.reached = round.reached
    <2>1. Ahead(iter.pos)' = Ahead(iter.pos)
      BY <1>2 DEF Ahead, Live
    <2> QED
      BY <1>2, <2>1 DEF Onward
  <1>3. ASSUME NEW m \in DOMAIN ticks, NEW it \in Iters, NEW r, it.expect <= it.used,
               Continue(m, it, r), UNCHANGED <<entries, conns>>, phase' = "sending",
               \A i \in Ahead(it.pos), c \in r.reached : c < entries[i]
        PROVE  Onward'
    <2>1. /\ iter'.pos \in Ahead(it.pos) /\ iter'.pos \in Live
          /\ iter'.to = entries[iter'.pos] /\ round' = r
      BY <1>3, ContinueEffect
    <2>2. Ahead(iter.pos)' = Ahead(iter'.pos)
      BY <1>3 DEF Ahead, Live
    <2>3. \A i \in Ahead(iter'.pos) : entries[iter'.pos] < entries[i]
      BY <2>1 DEF Ahead, TableTyped
    <2>4. iter'.to <= conns
      <3>1. entries[iter'.pos] \in 1..conns /\ conns \in Nat
        BY <1>0, <2>1
      <3>2. iter'.to \in 1..conns /\ conns \in Nat
        BY <2>1, <3>1
      <3> QED
        BY <3>2
    <2> QED
      BY <1>3, <2>1, <2>2, <2>3, <2>4 DEF Onward
  <1>4. CASE Connect
    <2>1. /\ UNCHANGED <<phase, iter>> /\ round'.reached = round.reached
          /\ conns' = conns + 1
          /\ \A i \in Live' : \/ entries'[i] = conns'
                              \/ \E j \in Live : i <= j /\ entries'[i] = entries[j]
          /\ Live' \subseteq Nat
      <3>1. TableTyped'
        BY <1>4, ConnectEffect
      <3>2. Live' \subseteq Nat
        BY <3>1 DEF TableTyped, Live
      <3> QED
        BY <1>4, <3>2, ConnectEffect, ConnectRound
    <2>2. CASE phase = "sending"
      <3>1. iter.to <= conns /\ \A j \in Live : j > iter.pos => iter.to < entries[j]
        BY <2>2 DEF Onward, Ahead
      <3>2. ASSUME NEW i \in Live', i > iter.pos
            PROVE  iter.to < entries'[i]
        <4>1. CASE entries'[i] = conns'
          BY <1>0, <2>1, <3>1, <4>1
        <4>2. CASE \E j \in Live : i <= j /\ entries'[i] = entries[j]
          BY <1>0, <2>1, <3>1, <3>2, <4>2
        <4> QED
          BY <2>1, <4>1, <4>2
      <3>3. \A i \in Ahead(iter.pos)' : iter'.to < entries'[i]
        BY <2>1, <3>2 DEF Ahead
      <3> QED
        BY <1>0, <2>1, <2>2, <3>1, <3>3 DEF Onward
    <2> QED
      BY <1>1, <2>1, <2>2
  <1>5. ASSUME NEW c \in Conns, Leave(c)
        PROVE  Onward'
    <2>1. /\ UNCHANGED <<phase, iter, conns>> /\ round'.reached = round.reached
          /\ Live' \subseteq Live /\ \A i \in Live' : entries'[i] = entries[i]
      BY <1>5, LeaveEffect, LeaveRound
    <2>2. \A i \in Ahead(iter.pos)' : i \in Ahead(iter.pos) /\ entries'[i] = entries[i]
      BY <2>1 DEF Ahead
    <2> QED
      BY <2>1, <2>2 DEF Onward
  <1>6. ASSUME NEW c \in Conns, Serving(c) \/ Unsubscribe(c)
        PROVE  Onward'
    <2>1. UNCHANGED <<phase, iter, entries, conns>> /\ round'.reached = round.reached
      BY <1>6, ServingFacts, UnsubscribeRound DEF Unsubscribe
    <2> QED
      BY <1>2, <2>1
  <1>7. ASSUME NEW m \in Msgs, Broadcast(m)
        PROVE  Onward'
    <2>1. UNCHANGED <<entries, conns>> /\ m \in DOMAIN ticks
      BY <1>7, BroadcastFacts DEF connVars
    <2>2. PICK it \in Iters, r \in Rounds :
              it.expect <= it.used /\ r.reached = {} /\ Continue(m, it, r)
      BY <1>7, BroadcastFacts
    <2> QED
      BY <1>1, <1>3, <2>1, <2>2
  <1>8. ASSUME NEW m \in Msgs, Delivered(m)
        PROVE  Onward'
    <2>1. /\ UNCHANGED <<entries, conns>> /\ m \in DOMAIN ticks /\ phase = "sending"
          /\ iter \in Iters /\ iter.expect <= iter.used
      BY <1>8, DeliveredFacts DEF connVars
    <2>2. PICK r \in Rounds :
              r.reached = round.reached \cup {iter.to} /\ Continue(m, iter, r)
      BY <1>8, DeliveredFacts
    <2>3. \A i \in Ahead(iter.pos), c \in r.reached : c < entries[i]
      <3> SUFFICES ASSUME NEW i \in Ahead(iter.pos), NEW c \in r.reached
                   PROVE  c < entries[i]
        OBVIOUS
      <3>1. iter.to < entries[i] /\ (c = iter.to \/ c < iter.to)
        BY <2>1, <2>2 DEF Onward
      <3>2. c \in Nat /\ entries[i] \in Nat
        BY <1>0, <2>2 DEF Ahead
      <3> QED
        BY <1>0, <3>1, <3>2
    <2> QED
      BY <1>1, <1>3, <2>1, <2>2, <2>3
  <1>9. ASSUME NEW m \in Msgs, SendRaises(m) \/ Ack(m)
        PROVE  Onward'
    BY <1>1, <1>9 DEF SendRaises, Ack, Finish
  <1>10. CASE PublishTick \/ Fetch \/ UNCHANGED vars \/ \E m \in Msgs : AckTimeout(m)
    <2>1. UNCHANGED <<phase, iter, round, entries, conns>>
      BY <1>10 DEF PublishTick, Fetch, AckTimeout, vars, loopVars, connVars
    <2> QED
      BY <1>2, <2>1
  <1> QED
    BY <1>4, <1>5, <1>6, <1>7, <1>8, <1>9, <1>10, StepCases

(* The client that a broadcast sends to was not sent the tick before,      *)
(* however clients join, leave and move in the table meanwhile.            *)
THEOREM NobodyTwice == Spec => []OncePerBroadcast
  <1>1. Init => Onward
    BY DEF Init, Onward
  <1>2. Typed /\ Onward => OncePerBroadcast
    <2> SUFFICES ASSUME Typed, Onward, phase = "sending", iter.to \in round.reached
                 PROVE  FALSE
      BY DEF OncePerBroadcast
    <2>1. iter.to < iter.to /\ iter.to \in Nat
      BY GatewayAssumption DEF Onward, Typed, LoopTyped, Iters
    <2> QED
      BY <2>1
  <1>3. Typed /\ Onward /\ [Next]_vars => Onward'
    BY OnwardStep
  <1> QED
    BY <1>1, <1>2, <1>3, TypedAlways, PTL DEF Spec

-----------------------------------------------------------------------------
(* Why the gauge counts the subscribers.                                   *)

(* Who is not in the table has no subscription left: one that joins starts *)
(* without.                                                                *)
Counted ==
    /\ \A c \in Conns \ Clients : subs[c] = {}
    /\ GaugeDriftNeedsCause

LEMMA TimesFacts ==
    ASSUME NEW p, NEW req \in Seq(Products)
    PROVE  /\ Times(p, req) \in Nat
           /\ p \in Range(req) <=> Times(p, req) # 0
  <1> DEFINE S == {i \in DOMAIN req : req[i] = p}
  <1>1. IsFiniteSet(S)
    <2>1. DOMAIN req = 1..Len(req) /\ Len(req) \in Nat
      OBVIOUS
    <2>2. IsFiniteSet(1..Len(req)) /\ S \subseteq 1..Len(req)
      BY <2>1, FS_Interval
    <2> QED
      BY <2>2, FS_Subset
  <1>2. Cardinality(S) \in Nat /\ (Cardinality(S) = 0 <=> S = {})
    BY <1>1, FS_CardinalityType, FS_EmptySet
  <1>3. p \in Range(req) <=> S # {}
    BY DEF Range
  <1> QED
    BY <1>2, <1>3 DEF Times

LEMMA SubscribersFinite ==
    ASSUME TableTyped, NEW p
    PROVE  IsFiniteSet(Subscribers(p)) /\ Cardinality(Subscribers(p)) \in Nat
  <1>1. conns \in Nat /\ Subscribers(p) \subseteq 1..conns
    BY TableFacts DEF Subscribers
  <1>2. IsFiniteSet(1..conns)
    BY <1>1, FS_Interval
  <1>3. IsFiniteSet(Subscribers(p))
    BY <1>1, <1>2, FS_Subset
  <1> QED
    BY <1>3, FS_CardinalityType

LEMMA CountedStep ==
    ASSUME Typed, Counted, [Next]_vars
    PROVE  Counted'
  <1> USE DEF Typed
  <1>0. ASSUME UNCHANGED entries
        PROVE  Clients' = Clients
    BY <1>0 DEF Clients, Live
  <1>1. CASE UNCHANGED <<entries, subs, gauge, sloppy>>
    <2>1. \A p : Subscribers(p)' = Subscribers(p)
      BY <1>0, <1>1 DEF Subscribers
    <2> QED
      BY <1>0, <1>1, <2>1 DEF Counted, GaugeDriftNeedsCause
  <1>2. CASE Connect
    <2>1. /\ UNCHANGED <<subs, gauge, sloppy>>
          /\ Clients' = Clients \cup {conns'} /\ conns' \in Conns \ Clients
      BY <1>2, ConnectEffect DEF Connect
    <2>2. \A p : Subscribers(p)' = Subscribers(p)
      BY <2>1 DEF Subscribers, Counted
    <2> QED
      BY <2>1, <2>2 DEF Counted, GaugeDriftNeedsCause
  <1>3. ASSUME NEW c \in Conns, Leave(c)
        PROVE  Counted'
    <2>1. /\ gauge' = [p \in Products |->
                           IF p \in subs[c] THEN gauge[p] - 1 ELSE gauge[p]]
          /\ subs' = [subs EXCEPT ![c] = {}] /\ sloppy' = sloppy
          /\ c \in Clients /\ Clients' = Clients \ {c}
      BY <1>3, LeaveEffect DEF Leave, ClientsTyped
    <2>2. \A d \in (Conns \ Clients)' : subs'[d] = {}
      BY <2>1 DEF Counted, ClientsTyped
    <2>3. ASSUME NEW p \in Products \ sloppy
          PROVE  gauge'[p] = Cardinality(Subscribers(p)')
      <3>1. Subscribers(p)' = Subscribers(p) \ {c}
        BY <1>3, <2>1, TableFacts DEF Subscribers, ClientsTyped
      <3>2. c \in Subscribers(p) <=> p \in subs[c]
        BY <2>1 DEF Subscribers
      <3>3. gauge[p] = Cardinality(Subscribers(p)) /\ IsFiniteSet(Subscribers(p))
        BY SubscribersFinite DEF Counted, GaugeDriftNeedsCause
      <3>4. CASE p \in subs[c]
        <4>1. Cardinality(Subscribers(p) \ {c}) = Cardinality(Subscribers(p)) - 1
          BY <3>2, <3>3, <3>4, FS_RemoveElement
        <4> QED
          BY <2>1, <3>1, <3>3, <3>4, <4>1
      <3>5. CASE p \notin subs[c]
        <4>1. Subscribers(p)' = Subscribers(p)
          BY <3>1, <3>2, <3>5
        <4> QED
          BY <2>1, <3>3, <3>5, <4>1
      <3> QED
        BY <3>4, <3>5
    <2> QED
      BY <2>1, <2>2, <2>3 DEF Counted, GaugeDriftNeedsCause
  <1>4. ASSUME NEW c \in Conns, Subscribe(c)
        PROVE  Counted'
    <2>1. PICK req \in Requests :
              /\ subs' = [subs EXCEPT ![c] = @ \cup Range(req)]
              /\ gauge' = [p \in Products |-> gauge[p] + Times(p, req)]
              /\ sloppy' = sloppy \cup
                     {p \in Range(req) : p \in subs[c] \/ Times(p, req) > 1}
      BY <1>4 DEF Subscribe
    <2>2. req \in Seq(Products)
      BY GatewayAssumption
    <2>3. Clients' = Clients /\ c \in Clients
      BY <1>0, <1>4 DEF Subscribe, Request, ClientsTyped
    <2>4. \A d \in (Conns \ Clients)' : subs'[d] = {}
      BY <2>1, <2>3 DEF Counted, ClientsTyped
    <2>5. ASSUME NEW p \in Products \ sloppy'
          PROVE  gauge'[p] = Cardinality(Subscribers(p)')
      <3>1. /\ p \in Products \ sloppy /\ Times(p, req) \in Nat
            /\ p \in Range(req) <=> Times(p, req) # 0
            /\ p \in Range(req) => p \notin subs[c] /\ ~(Times(p, req) > 1)
        BY <2>1, <2>2, TimesFacts
      <3>2. /\ gauge[p] = Cardinality(Subscribers(p)) /\ IsFiniteSet(Subscribers(p))
            /\ Cardinality(Subscribers(p)) \in Nat
        BY <3>1, SubscribersFinite DEF Counted, GaugeDriftNeedsCause
      <3>3. Subscribers(p)' = IF p \in Range(req) THEN Subscribers(p) \cup {c}
                                                  ELSE Subscribers(p)
        BY <2>1, <2>3, <1>4, TableFacts DEF Subscribers, ClientsTyped
      <3>4. CASE p \in Range(req)
        <4>1. Times(p, req) = 1 /\ c \notin Subscribers(p)
          BY <3>1, <3>4 DEF Subscribers
        <4>2. Cardinality(Subscribers(p) \cup {c}) = Cardinality(Subscribers(p)) + 1
          BY <3>2, <4>1, FS_AddElement
        <4> QED
          BY <2>1, <3>2, <3>3, <3>4, <4>1, <4>2
      <3>5. CASE p \notin Range(req)
        BY <2>1, <3>1, <3>2, <3>3, <3>5
      <3> QED
        BY <3>4, <3>5
    <2> QED
      BY <2>4, <2>5 DEF Counted, GaugeDriftNeedsCause
  <1>5. ASSUME NEW c \in Conns, Unsubscribe(c)
        PROVE  Counted'
    <2>1. PICK req \in Requests :
              /\ subs' = [subs EXCEPT ![c] = @ \ Range(req)]
              /\ gauge' = [p \in Products |-> gauge[p] - Times(p, req)]
              /\ sloppy' = sloppy \cup
                     {p \in Range(req) : p \notin subs[c] \/ Times(p, req) > 1}
      BY <1>5 DEF Unsubscribe
    <2>2. req \in Seq(Products)
      BY GatewayAssumption
    <2>3. Clients' = Clients /\ c \in Clients
      BY <1>0, <1>5 DEF Unsubscribe, Request, ClientsTyped
    <2>4. \A d \in (Conns \ Clients)' : subs'[d] = {}
      BY <2>1, <2>3 DEF Counted, ClientsTyped
    <2>5. ASSUME NEW p \in Products \ sloppy'
          PROVE  gauge'[p] = Cardinality(Subscribers(p)')
      <3>1. /\ p \in Products \ sloppy /\ Times(p, req) \in Nat
            /\ p \in Range(req) <=> Times(p, req) # 0
            /\ p \in Range(req) => p \in subs[c] /\ ~(Times(p, req) > 1)
        BY <2>1, <2>2, TimesFacts
      <3>2. /\ gauge[p] = Cardinality(Subscribers(p)) /\ IsFiniteSet(Subscribers(p))
            /\ Cardinality(Subscribers(p)) \in Nat
        BY <3>1, SubscribersFinite DEF Counted, GaugeDriftNeedsCause
      <3>3. Subscribers(p)' = IF p \in Range(req) THEN Subscribers(p) \ {c}
                                                  ELSE Subscribers(p)
        BY <2>1, <2>3, <1>5, TableFacts DEF Subscribers, ClientsTyped
      <3>4. CASE p \in Range(req)
        <4>1. Times(p, req) = 1 /\ c \in Subscribers(p)
          BY <2>3, <3>1, <3>4 DEF Subscribers
        <4>2. Cardinality(Subscribers(p) \ {c}) = Cardinality(Subscribers(p)) - 1
          BY <3>2, <4>1, FS_RemoveElement
        <4> QED
          BY <2>1, <3>2, <3>3, <3>4, <4>1, <4>2
      <3>5. CASE p \notin Range(req)
        BY <2>1, <3>1, <3>2, <3>3, <3>5
      <3> QED
        BY <3>4, <3>5
    <2> QED
      BY <2>4, <2>5 DEF Counted, GaugeDriftNeedsCause
  <1>6. ASSUME NEW c \in Conns, Ping(c) \/ ReadSnapshot(c) \/ Sent(c) \/ Close(c)
        PROVE  Counted'
    BY <1>1, <1>6 DEF Ping, ReadSnapshot, Sent, Close
  <1> QED
    BY <1>1, <1>2, <1>3, <1>4, <1>5, <1>6, StepCases, FetchTaskFacts DEF Serving

(* The gauge of a product is the number of its subscribers, unless a       *)
(* client subscribed or unsubscribed redundantly.                          *)
THEOREM GaugeCounts == Spec => []GaugeDriftNeedsCause
  <1>1. Init => Counted
    <2> SUFFICES ASSUME Init PROVE Counted
      OBVIOUS
    <2>1. Clients = {}
      BY DEF Init, Clients, Live
    <2>2. \A p : Subscribers(p) = {}
      BY <2>1 DEF Subscribers
    <2> QED
      BY <2>2, FS_EmptySet DEF Init, Counted, GaugeDriftNeedsCause
  <1>2. Counted => GaugeDriftNeedsCause
    BY DEF Counted
  <1>3. Typed /\ Counted /\ [Next]_vars => Counted'
    BY CountedStep
  <1> QED
    BY <1>1, <1>2, <1>3, TypedAlways, PTL DEF Spec

-----------------------------------------------------------------------------
(* Why an acked tick reached every subscriber, or clients were swapped.    *)

(* What holds at each await of a broadcast with iterator it and history r, *)
(* when it has sent to those in `sent`: the loyal clients are subscribers; *)
(* as long as nobody left, the size of the dict tells whether somebody     *)
(* joined; as long as nobody joined, the entries were not moved, and the   *)
(* loyal clients not sent to are ahead of the iterator.                    *)
Within(it, r, sent, p) ==
    /\ r.loyal \subseteq Subscribers(p)
    /\ ~r.left => IF r.joined THEN Cardinality(Live) > it.used
                              ELSE Cardinality(Live) = it.used
    /\ ~r.joined => r.loyal \subseteq sent \cup {entries[i] : i \in Ahead(it.pos)}

InReach ==
    /\ phase = "sending" => Within(iter, round, round.reached \cup {iter.to}, ticks[at])
    /\ ReachedUnlessSwapped

(* One step of the loop: what it passes over are no subscribers, and it    *)
(* ends only when none is left ahead.                                      *)
LEMMA ContinueReach ==
    ASSUME Typed, NEW m \in DOMAIN ticks, NEW it \in Iters, NEW r \in Rounds,
           it.expect <= it.used, Continue(m, it, r), Within(it, r, r.reached, ticks[m]),
           UNCHANGED <<ticks, entries, subs>>
    PROVE  InReach'
  <1> USE DEF Typed
  <1>1. UNCHANGED <<Live, Clients>> /\ \A p : Subscribers(p)' = Subscribers(p)
    BY DEF Live, Clients, Subscribers
  <1>2. ASSUME NEW c \in r.loyal, NEW i \in Ahead(it.pos), c = entries[i]
        PROVE  i \in Wanted(it.pos, ticks[m])
    BY <1>2 DEF Within, Subscribers, Wanted
  <1>3. /\ Live \subseteq Nat /\ it.pos \in Nat /\ it.used \in Nat
        /\ Cardinality(Live) \in Nat
    BY TableFacts DEF Iters
  <1>4. CASE /\ at' = m /\ phase' = "sending" /\ round' = r /\ iter'.used = it.used
             /\ iter'.pos \in Ahead(it.pos) /\ iter'.to = entries[iter'.pos]
             /\ \A k \in Wanted(it.pos, ticks[m]) : iter'.pos <= k
    <2>1. Ahead(iter.pos)' = {i \in Live : i > iter'.pos}
      BY <1>1 DEF Ahead
    <2>2. ASSUME ~r.joined, NEW c \in r.loyal
          PROVE  c \in (r.reached \cup {iter'.to})
                           \cup {entries[i] : i \in Ahead(iter.pos)'}
      <3>1. CASE c \in r.reached
        BY <3>1
      <3>2. CASE \E i \in Ahead(it.pos) : c = entries[i]
        <4>1. PICK i \in Ahead(it.pos) : c = entries[i]
          BY <3>2
        <4>2. iter'.pos <= i /\ i \in Live /\ iter'.pos \in Live
          BY <1>2, <1>4, <4>1 DEF Ahead
        <4>3. i \in Nat /\ iter'.pos \in Nat
          BY <1>3, <4>2
        <4>4. i = iter'.pos \/ i > iter'.pos
          BY <4>2, <4>3
        <4>5. i = iter'.pos \/ i \in Ahead(iter.pos)'
          BY <2>1, <4>2, <4>4
        <4> QED
          BY <1>4, <4>1, <4>5
      <3> QED
        BY <2>2, <3>1, <3>2 DEF Within
    <2>3. /\ r.loyal \subseteq Subscribers(ticks[m])
          /\ ~r.left => IF r.joined THEN Cardinality(Live) > it.used
                                    ELSE Cardinality(Live) = it.used
      BY DEF Within
    <2>4. Within(iter, round, round.reached \cup {iter.to}, ticks[at])'
      BY <1>1, <1>4, <2>2, <2>3 DEF Within
    <2> QED
      BY <1>4, <2>4 DEF InReach, ReachedUnlessSwapped
  <1>5. CASE /\ phase' = "ack" /\ round' = r
             /\ SameSize(it) /\ Wanted(it.pos, ticks[m]) = {}
    <2>1. ASSUME ~r.joined
          PROVE  r.loyal \subseteq r.reached
      BY <1>2, <1>5, <2>1 DEF Within
    <2>2. ~r.left => ~r.joined
      BY <1>3, <1>5 DEF Within, SameSize
    <2>3. r.loyal \subseteq r.reached \/ (r.joined /\ r.left)
      BY <2>1, <2>2
    <2> QED
      BY <1>5, <2>3 DEF InReach, ReachedUnlessSwapped
  <1>6. CASE phase' = "idle"
    BY <1>6 DEF InReach, ReachedUnlessSwapped
  <1> QED
    BY <1>4, <1>5, <1>6, ContinueEffect

LEMMA InReachStep ==
    ASSUME Typed, InReach, [Next]_vars
    PROVE  InReach'
  <1> USE DEF Typed
  <1>0. /\ Live \subseteq Nat /\ iter.pos \in Nat /\ iter.used \in Nat
        /\ Cardinality(Live) \in Nat
        /\ phase = "sending" => at \in DOMAIN ticks
    BY TableFacts, LoopFacts DEF LoopTyped, Iters
  <1>1. CASE phase' = "idle"
    BY <1>1 DEF InReach, ReachedUnlessSwapped
  <1>2. CASE UNCHANGED <<ticks, at, phase, iter, round, entries, subs>>
    <2>1. UNCHANGED Live /\ \A p : Subscribers(p)' = Subscribers(p)
      BY <1>2 DEF Live, Clients, Subscribers
    <2> QED
      BY <1>2, <2>1 DEF InReach, ReachedUnlessSwapped, Within, Ahead
  <1>3. CASE PublishTick
    <2>1. /\ UNCHANGED <<at, phase, iter, round, entries, subs>>
          /\ \E p \in Products : ticks' = Append(ticks, p)
      BY <1>3 DEF PublishTick, loopVars, connVars
    <2>2. phase = "sending" => ticks'[at] = ticks[at]
      BY <1>0, <2>1 DEF LoopTyped
    <2>3. UNCHANGED Live /\ \A p : Subscribers(p)' = Subscribers(p)
      BY <2>1 DEF Live, Clients, Subscribers
    <2> QED
      BY <2>1, <2>2, <2>3 DEF InReach, ReachedUnlessSwapped, Within, Ahead
  <1>4. CASE Connect
    <2>1. /\ UNCHANGED <<ticks, at, phase, iter, subs>>
          /\ round'.reached = round.reached /\ round'.loyal = round.loyal
          /\ round'.left = round.left /\ round'.joined = (round.joined \/ phase = "sending")
      BY <1>4, ConnectRound DEF Connect
    <2>2. /\ Clients' = Clients \cup {conns'}
          /\ Cardinality(Live') = Cardinality(Live) + 1
      BY <1>4, ConnectEffect
    <2>3. \A p : Subscribers(p) \subseteq Subscribers(p)'
      BY <2>1, <2>2 DEF Subscribers
    <2>4. CASE phase = "sending"
      <3>1. Within(iter, round, round.reached \cup {iter.to}, ticks[at])
        BY <2>4 DEF InReach
      <3>2. round.loyal \subseteq Subscribers(ticks[at])'
        BY <2>1, <2>3, <3>1 DEF Within
      <3>3. ~round.left => Cardinality(Live') > iter.used
        BY <1>0, <2>2, <3>1 DEF Within
      <3>4. Within(iter, round, round.reached \cup {iter.to}, ticks[at])'
        BY <2>1, <2>4, <3>2, <3>3 DEF Within
      <3> QED
        BY <2>1, <2>4, <3>4 DEF InReach, ReachedUnlessSwapped
    <2>5. CASE phase # "sending"
      BY <2>1, <2>5 DEF InReach, ReachedUnlessSwapped
    <2> QED
      BY <2>4, <2>5
  <1>5. ASSUME NEW c \in Conns, Leave(c)
        PROVE  InReach'
    <2>1. /\ UNCHANGED <<ticks, at, phase, iter>>
          /\ round'.reached = round.reached /\ round'.loyal = round.loyal \ {c}
          /\ round'.joined = round.joined /\ round'.left = (round.left \/ phase = "sending")
          /\ subs' = [subs EXCEPT ![c] = {}]
      BY <1>5, LeaveRound DEF Leave
    <2>2. /\ Live' = {i \in Live : entries[i] # c} /\ Clients' = Clients \ {c}
          /\ \A i \in Live' : entries'[i] = entries[i]
      BY <1>5, LeaveEffect
    <2>3. \A p : Subscribers(p)' = Subscribers(p) \ {c}
      BY <2>1, <2>2, TableFacts DEF Subscribers, ClientsTyped
    <2>4. CASE phase = "sending"
      <3>1. Within(iter, round, round.reached \cup {iter.to}, ticks[at])
        BY <2>4 DEF InReach
      <3>2. round'.loyal \subseteq Subscribers(ticks[at])'
        BY <2>1, <2>3, <3>1 DEF Within
      <3>3. ASSUME ~round.joined, NEW d \in round.loyal \ {c}
            PROVE  d \in (round.reached \cup {iter.to})
                             \cup {entries'[i] : i \in Ahead(iter.pos)'}
        BY <2>1, <2>2, <3>1, <3>3 DEF Within, Ahead
      <3>4. Within(iter, round, round.reached \cup {iter.to}, ticks[at])'
        BY <2>1, <2>4, <3>2, <3>3 DEF Within
      <3> QED
        BY <2>1, <2>4, <3>4 DEF InReach, ReachedUnlessSwapped
    <2>5. CASE phase # "sending"
      BY <2>1, <2>5 DEF InReach, ReachedUnlessSwapped
    <2> QED
      BY <2>4, <2>5
  <1>6. ASSUME UNCHANGED <<ticks, at, phase, iter, entries>>,
               round'.reached = round.reached, round'.joined = round.joined,
               round'.left = round.left, round'.loyal \subseteq round.loyal,
               phase = "sending" /\ round.loyal \subseteq Subscribers(ticks[at]) =>
                   round'.loyal \subseteq Subscribers(ticks[at])'
        PROVE  InReach'
    <2>1. UNCHANGED Live /\ Ahead(iter.pos)' = Ahead(iter.pos)
      BY <1>6 DEF Live, Ahead
    <2>2. CASE phase = "sending"
      <3>1. Within(iter, round, round.reached \cup {iter.to}, ticks[at])
        BY <2>2 DEF InReach
      <3>2. round'.loyal \subseteq Subscribers(ticks[at])'
        BY <1>6, <2>2, <3>1 DEF Within
      <3>3. Within(iter, round, round.reached \cup {iter.to}, ticks[at])'
        BY <1>6, <2>1, <3>1, <3>2 DEF Within
      <3> QED
        BY <1>6, <2>2, <3>3 DEF InReach, ReachedUnlessSwapped
    <2>3. CASE phase # "sending"
      BY <1>6, <2>3 DEF InReach, ReachedUnlessSwapped
    <2> QED
      BY <2>2, <2>3
  <1>7. ASSUME NEW c \in Conns, Unsubscribe(c)
        PROVE  InReach'
    <2>1. PICK req \in Requests : /\ subs' = [subs EXCEPT ![c] = @ \ Range(req)]
                                  /\ round'.loyal = round.loyal \ Deserters(c, req)
      BY <1>7, UnsubscribeRound
    <2>2. /\ UNCHANGED <<ticks, at, phase, iter, entries, Clients>>
          /\ round'.reached = round.reached /\ round'.joined = round.joined
          /\ round'.left = round.left
      BY <1>7, UnsubscribeRound DEF Unsubscribe, Clients, Live
    <2>3. ASSUME NEW p, round.loyal \subseteq Subscribers(p)
          PROVE  round'.loyal \subseteq Subscribers(p)'
      <3> SUFFICES ASSUME NEW d \in round'.loyal
                   PROVE  d \in Clients /\ p \in subs'[d]
        BY <2>2 DEF Subscribers
      <3>1. d \in Clients /\ p \in subs[d] /\ d \notin Deserters(c, req)
        BY <2>1, <2>3 DEF Subscribers
      <3>2. CASE d = c
        <4>1. p \notin Range(req)
          BY <3>1, <3>2 DEF Deserters
        <4> QED
          BY <2>1, <3>1, <3>2, <4>1 DEF ClientsTyped
      <3>3. CASE d # c
        BY <2>1, <3>1, <3>3 DEF ClientsTyped
      <3> QED
        BY <3>2, <3>3
    <2> QED
      BY <1>6, <2>1, <2>2, <2>3
  <1>8. ASSUME NEW c \in Conns, Subscribe(c)
        PROVE  InReach'
    <2>1. /\ UNCHANGED <<ticks, at, phase, iter, round, entries, Clients>>
          /\ \E req \in Requests : subs' = [subs EXCEPT ![c] = @ \cup Range(req)]
      BY <1>8 DEF Subscribe, shardVars, loopVars, Clients, Live
    <2>2. \A p : Subscribers(p) \subseteq Subscribers(p)'
      BY <2>1, TableFacts DEF Subscribers, ClientsTyped
    <2>3. phase = "sending" /\ round.loyal \subseteq Subscribers(ticks[at]) =>
              round.loyal \subseteq Subscribers(ticks[at])'
      BY <2>1, <2>2
    <2> QED
      BY <1>6, <2>1, <2>3
  <1>9. ASSUME NEW c \in Conns, Ping(c) \/ ReadSnapshot(c) \/ Sent(c) \/ Close(c)
        PROVE  InReach'
    BY <1>2, <1>9 DEF Ping, ReadSnapshot, Sent, Close, shardVars, loopVars
  <1>10. ASSUME NEW m \in Msgs, Broadcast(m)
         PROVE  InReach'
    <2>1. UNCHANGED <<ticks, entries, subs>> /\ m \in DOMAIN ticks
      BY <1>10, BroadcastFacts DEF connVars
    <2>2. PICK it \in Iters, r \in Rounds :
              /\ it.pos = 0 /\ it.used = Cardinality(Live) /\ it.expect <= it.used
              /\ r.loyal = Subscribers(ticks[m]) /\ ~r.joined /\ Continue(m, it, r)
      BY <1>10, BroadcastFacts
    <2>3. Ahead(0) = Live
      BY TableFacts DEF Ahead
    <2>4. Within(it, r, r.reached, ticks[m])
      BY <2>2, <2>3 DEF Within, Subscribers, Clients
    <2> QED
      BY <2>1, <2>2, <2>4, ContinueReach
  <1>11. ASSUME NEW m \in Msgs, Delivered(m)
         PROVE  InReach'
    <2>1. /\ UNCHANGED <<ticks, entries, subs>> /\ m \in DOMAIN ticks
          /\ phase = "sending" /\ at = m /\ iter \in Iters /\ iter.expect <= iter.used
      BY <1>11, DeliveredFacts DEF connVars
    <2>2. PICK r \in Rounds :
              /\ r.reached = round.reached \cup {iter.to} /\ r.loyal = round.loyal
              /\ r.joined = round.joined /\ r.left = round.left
              /\ Continue(m, iter, r)
      BY <1>11, DeliveredFacts
    <2>3. Within(iter, round, round.reached \cup {iter.to}, ticks[m])
      BY <2>1 DEF InReach
    <2>4. Within(iter, r, r.reached, ticks[m])
      BY <2>2, <2>3 DEF Within
    <2> QED
      BY <2>1, <2>2, <2>4, ContinueReach
  <1>12. ASSUME NEW m \in Msgs, SendRaises(m) \/ Ack(m)
         PROVE  InReach'
    BY <1>1, <1>12 DEF SendRaises, Ack, Finish
  <1>13. CASE Fetch \/ UNCHANGED vars \/ \E m \in Msgs : AckTimeout(m)
    BY <1>2, <1>13 DEF Fetch, AckTimeout, vars, shardVars, loopVars, connVars
  <1> QED
    BY <1>3, <1>4, <1>5, <1>7, <1>8, <1>9, <1>10, <1>11, <1>12, <1>13, StepCases
       DEF Serving

(* A tick is acked only when every client subscribed since its broadcast   *)
(* began was sent it, unless one joined while another left meanwhile.      *)
THEOREM ReachedOrSwapped == Spec => []ReachedUnlessSwapped
  <1>1. Init => InReach
    BY DEF Init, InReach, ReachedUnlessSwapped
  <1>2. InReach => ReachedUnlessSwapped
    BY DEF InReach
  <1>3. Typed /\ InReach /\ [Next]_vars => InReach'
    BY InReachStep
  <1> QED
    BY <1>1, <1>2, <1>3, TypedAlways, PTL DEF Spec

=============================================================================
