-------------------------- MODULE NormalizerProofs --------------------------
(***************************************************************************)
(* Proofs about Normalizer, for every feed, every length of the logs and   *)
(* every number of faults, on a separate output stream as on the input     *)
(* stream itself.                                                          *)
(***************************************************************************)
EXTENDS Normalizer, JetStreamProofs, FiniteSetTheorems, TLAPS

Messages == [tick : Feed, by : {"ingestor", "normalizer"}, from : 0..MaxLog]

Counters == [processed : Nat, validated : Nat, rejected : Nat, errors : Nat]

(* TypeOK with the types of the logs, which only grow, and the counters.   *)
Typed ==
    /\ TypeOK
    /\ log \in [Streams -> Seq(Messages)]
    /\ \A s \in Streams : Len(log[s]) <= MaxLog
    /\ output \in Streams
    /\ stats \in Counters
    /\ expiries \in [Msgs -> Nat]

-----------------------------------------------------------------------------
(* The logs.                                                               *)

LEMMA InputFacts ==
    ASSUME Typed
    PROVE  /\ Len(Input) \in Nat /\ Len(Input) <= MaxLog
           /\ DOMAIN Input = 1..Len(Input)
           /\ DOMAIN Input \subseteq Msgs
           /\ Len(Output) \in Nat
           /\ DOMAIN Output = 1..Len(Output)
           /\ Input \in Seq(Messages) /\ Output \in Seq(Messages)
  <1>1. /\ Input \in Seq(Messages) /\ Output \in Seq(Messages)
        /\ Len(Input) <= MaxLog
    BY StreamAssumption DEF Typed, Input, Output
  <1>2. /\ Len(Input) \in Nat /\ DOMAIN Input = 1..Len(Input)
        /\ Len(Output) \in Nat /\ DOMAIN Output = 1..Len(Output)
    BY <1>1
  <1> QED
    BY <1>1, <1>2, StreamAssumption DEF Msgs

(* A message is appended to one log: all others stay, and this one before  *)
(* its end.                                                                *)
Appended(s, x) ==
    /\ log' \in [Streams -> Seq(Messages)]
    /\ \A t \in Streams : Len(log'[t]) <= MaxLog
    /\ \A t \in Streams : t # s => log'[t] = log[t]
    /\ Len(log'[s]) = Len(log[s]) + 1
    /\ log'[s][Len(log[s]) + 1] = x
    /\ \A i \in 1..Len(log[s]) : log'[s][i] = log[s][i]

LEMMA AppendFacts ==
    ASSUME Typed, NEW s \in Streams, NEW x \in Messages, Stored(s),
           log' = [log EXCEPT ![s] = Append(@, x)]
    PROVE  Appended(s, x)
  <1>1. log[s] \in Seq(Messages) /\ Len(log[s]) \in Nat
    BY DEF Typed
  <1>2. log'[s] = Append(log[s], x) /\ \A t \in Streams : t # s => log'[t] = log[t]
    BY DEF Typed
  <1>3. /\ Append(log[s], x) \in Seq(Messages)
        /\ Len(Append(log[s], x)) = Len(log[s]) + 1
        /\ Append(log[s], x)[Len(log[s]) + 1] = x
        /\ \A i \in 1..Len(log[s]) : Append(log[s], x)[i] = log[s][i]
    BY <1>1
  <1>4. Len(log'[s]) <= MaxLog
    BY <1>1, <1>2, <1>3, StreamAssumption DEF Stored
  <1>5. log' \in [Streams -> Seq(Messages)]
    BY <1>3 DEF Typed
  <1> QED
    BY <1>2, <1>3, <1>4, <1>5 DEF Appended, Typed

(* The message a publish sends is one of Messages.                         *)
LEMMA AtFacts ==
    ASSUME Typed, NEW m \in Msgs, At(m)
    PROVE  /\ m \in batch /\ m \in DOMAIN Input
           /\ Input[m].tick \in Feed
           /\ Message(Input[m].tick, "normalizer", m) \in Messages
  <1>1. m \in batch
    BY DEF At, Typed, TypeOK
  <1>2. m \in DOMAIN Input
    BY <1>1 DEF Typed, TypeOK, Consumers
  <1>3. Input[m].tick \in Feed
    BY <1>2, StreamAssumption DEF Typed, TypeOK, Input
  <1>4. m \in 0..MaxLog
    BY StreamAssumption DEF Msgs
  <1> QED
    BY <1>1, <1>2, <1>3, <1>4 DEF Message, Messages

(* The loop comes to a message: it is in the batch, and nothing is at its  *)
(* publish or ack.                                                         *)
LEMMA TurnFacts ==
    ASSUME Typed, NEW m, Turn(m)
    PROVE  /\ m \in batch /\ m \in DOMAIN Input /\ m \in Msgs
           /\ at = NoMsg /\ phase = "check"
  <1>1. m \in batch /\ at = NoMsg
    BY DEF Turn, NextOf
  <1>2. batch \subseteq DOMAIN Input
    BY DEF Typed, TypeOK, Consumers
  <1>3. NoMsg \notin batch
    BY <1>2, InputFacts DEF NoMsg
  <1>4. phase = "check"
    BY <1>1, <1>3 DEF Typed, TypeOK
  <1> QED
    BY <1>1, <1>2, <1>4, InputFacts

(* A step changes no log, or is one of the three that publish.             *)
LEMMA LogStep ==
    ASSUME Typed, [Next]_vars
    PROVE  \/ UNCHANGED log
           \/ Ingest /\ \E x \in Messages : Appended(InputStream, x)
           \/ \E m \in Msgs :
                /\ Publish(m) \/ PublishFails(m)
                /\ Appended(output, Message(Input[m].tick, "normalizer", m))
  <1>1. CASE Ingest
    <2>1. PICK t \in Feed : log' = [log EXCEPT ![InputStream] =
                                        Append(@, Message(t, "ingestor", 0))]
      BY <1>1 DEF Ingest
    <2>2. Message(t, "ingestor", 0) \in Messages
      BY StreamAssumption DEF Message, Messages
    <2> QED
      BY <1>1, <2>1, <2>2, AppendFacts, StreamAssumption DEF Ingest
  <1>2. ASSUME NEW m \in Msgs, Publish(m) \/ PublishFails(m), log' # log
        PROVE  Appended(output, Message(Input[m].tick, "normalizer", m))
    <2>1. At(m) /\ Stored(output) /\ output \in Streams
      BY <1>2 DEF Publish, PublishFails, Typed
    <2>2. log' = [log EXCEPT ![output] =
                      Append(@, Message(Input[m].tick, "normalizer", m))]
      BY <1>2 DEF Publish, PublishFails
    <2> QED
      BY <2>1, <2>2, AtFacts, AppendFacts
  <1>3. CASE Fetch \/ Crash \/ Restart
    BY <1>3 DEF Fetch, Crash, Restart
  <1>4. CASE \E m \in Msgs : Reject(m) \/ Accept(m) \/ Ack(m) \/ LoseAck(m) \/ AckTimeout(m)
    BY <1>4 DEF Reject, Accept, Ack, LoseAck, AckTimeout
  <1>5. CASE UNCHANGED vars
    BY <1>5 DEF vars
  <1> QED
    BY <1>1, <1>2, <1>3, <1>4, <1>5 DEF Next

(* The logs only grow.                                                     *)
LEMMA LogsGrow ==
    ASSUME Typed, [Next]_vars
    PROVE  /\ log' \in [Streams -> Seq(Messages)]
           /\ \A s \in Streams : Len(log'[s]) <= MaxLog
           /\ output' = output
           /\ \A s \in Streams :
                /\ DOMAIN log[s] \subseteq DOMAIN log'[s]
                /\ \A i \in DOMAIN log[s] : log'[s][i] = log[s][i]
  <1>1. output' = output
    BY DEF Next, vars, Ingest, Fetch, Crash, Restart, Reject, Accept, Publish,
           PublishFails, Ack, LoseAck, AckTimeout
  <1>2. CASE UNCHANGED log
    BY <1>1, <1>2 DEF Typed
  <1>3. ASSUME NEW s \in Streams, NEW x, Appended(s, x), NEW t \in Streams
        PROVE  /\ DOMAIN log[t] \subseteq DOMAIN log'[t]
               /\ \A i \in DOMAIN log[t] : log'[t][i] = log[t][i]
    <2>1. /\ log[t] \in Seq(Messages) /\ log'[t] \in Seq(Messages)
          /\ DOMAIN log[t] = 1..Len(log[t]) /\ DOMAIN log'[t] = 1..Len(log'[t])
          /\ Len(log[t]) \in Nat /\ Len(log'[t]) \in Nat
      BY <1>3 DEF Typed, Appended
    <2> QED
      BY <1>3, <2>1 DEF Appended
  <1>4. ASSUME NEW s \in Streams, NEW x, Appended(s, x)
        PROVE  /\ log' \in [Streams -> Seq(Messages)]
               /\ \A t \in Streams : Len(log'[t]) <= MaxLog
    BY <1>4 DEF Appended
  <1>5. CASE \E s \in Streams : \E x : Appended(s, x)
    BY <1>1, <1>3, <1>4, <1>5
  <1>6. UNCHANGED log \/ \E s \in Streams : \E x : Appended(s, x)
    BY LogStep, StreamAssumption DEF Typed
  <1> QED
    BY <1>2, <1>5, <1>6

LEMMA InputGrows ==
    ASSUME Typed, [Next]_vars
    PROVE  /\ DOMAIN Input \subseteq DOMAIN Input'
           /\ \A m \in DOMAIN Input : Input'[m] = Input[m]
           /\ DOMAIN Output \subseteq DOMAIN Output'
           /\ \A i \in DOMAIN Output : Output'[i] = Output[i]
           /\ Consumers(DOMAIN Input) \subseteq Consumers(DOMAIN Input')
  <1>1. /\ DOMAIN Input \subseteq DOMAIN Input'
        /\ \A m \in DOMAIN Input : Input'[m] = Input[m]
    BY LogsGrow, StreamAssumption DEF Input
  <1>2. /\ DOMAIN Output \subseteq DOMAIN Output'
        /\ \A i \in DOMAIN Output : Output'[i] = Output[i]
    BY LogsGrow DEF Output, Typed
  <1> QED
    BY <1>1, <1>2 DEF Consumers

(* The steps on the server's record.                                       *)
LEMMA FetchEffect ==
    ASSUME Typed, Fetch
    PROVE  /\ batch = {} /\ batch' \subseteq DOMAIN Input
           /\ batch' \cap con.pending = {} /\ batch' \cap con.acked = {}
           /\ \A m \in batch' \ con.due, k \in DOMAIN Input :
                k < m /\ k \notin con.pending /\ k \notin con.acked => k \in batch'
           /\ again' = batch' \cap con.due
           /\ con' \in Consumers(DOMAIN Input)
           /\ con'.pending = con.pending \cup batch'
           /\ con'.due = con.due \ batch'
           /\ con'.acked = con.acked
           /\ at = NoMsg /\ phase = "check"
  <1>1. /\ con \in Consumers(1..Len(Input)) /\ Len(Input) \in Nat
        /\ BatchSize \in Nat
    BY InputFacts, StreamAssumption DEF Typed, TypeOK
  <1>2. PICK B \in Batches(con, Len(Input), BatchSize) :
            con' = Deliver(con, B) /\ batch' = B /\ again' = B \cap con.due
    BY DEF Fetch
  <1>3. batch = {} /\ at = NoMsg /\ phase = "check"
    BY DEF Fetch, Typed, TypeOK
  <1> QED
    BY <1>1, <1>2, <1>3, DeliverFacts, InputFacts

LEMMA AckEffect ==
    ASSUME Typed, NEW m \in Msgs, Ack(m)
    PROVE  /\ m \in batch
           /\ con' \in Consumers(DOMAIN Input)
           /\ con'.pending = con.pending \ {m}
           /\ con'.due = con.due \ {m}
           /\ con'.acked = con.acked \cup {m}
  <1>1. m \in batch /\ m \in DOMAIN Input
    BY AtFacts DEF Ack
  <1> QED
    BY <1>1, AckFacts DEF Ack, Typed, TypeOK

LEMMA ExpireEffect ==
    ASSUME Typed, NEW m \in Msgs, AckTimeout(m)
    PROVE  /\ m \in con.pending
           /\ con' \in Consumers(DOMAIN Input)
           /\ con'.pending = con.pending \ {m}
           /\ con'.due = con.due \cup {m}
           /\ con'.acked = con.acked
  <1>1. m \in con.pending /\ m \in DOMAIN Input
    BY DEF AckTimeout, Typed, TypeOK, Consumers
  <1> QED
    BY <1>1, ExpireFacts DEF AckTimeout, Typed, TypeOK

-----------------------------------------------------------------------------
(* Type correctness.                                                       *)

LEMMA FaultFacts ==
    ASSUME Typed, Fault
    PROVE  faults' \in 0..MaxFaults
  BY StreamAssumption DEF Fault, Typed, TypeOK

(* The parts of the type invariant that a step may disturb.                *)
LEMMA TypedBy ==
    ASSUME Typed, [Next]_vars,
           con' \in Consumers(DOMAIN Input'),
           batch' \subseteq con'.pending \cup con'.due,
           phase' \in {"check", "publish", "ack"},
           again' \subseteq DOMAIN Input',
           IF phase' = "check" THEN at' = NoMsg ELSE at' \in batch',
           phase' = "publish" => Valid(Input'[at'].tick),
           dropped' \subseteq DOMAIN Input',
           faults' \in 0..MaxFaults,
           stats' \in Counters,
           expiries' \in [Msgs -> Nat]
    PROVE  Typed'
  <1>1. /\ log' \in [Streams -> Seq(Messages)]
        /\ \A s \in Streams : Len(log'[s]) <= MaxLog
        /\ output' = output
    BY LogsGrow
  <1>2. \A s \in Streams : \A i \in DOMAIN log'[s] :
            log'[s][i].tick \in Feed /\ log'[s][i].from \in 0..MaxLog
    <2> SUFFICES ASSUME NEW s \in Streams, NEW i \in DOMAIN log'[s]
                 PROVE  log'[s][i].tick \in Feed /\ log'[s][i].from \in 0..MaxLog
      OBVIOUS
    <2>1. log'[s] \in Seq(Messages)
      BY <1>1
    <2>2. log'[s][i] \in Messages
      BY <2>1
    <2> QED
      BY <2>2 DEF Messages
  <1> QED
    BY <1>1, <1>2 DEF Typed, TypeOK

(* The statistics at each verdict.                                         *)
LEMMA ProcessedFacts ==
    ASSUME NEW c \in Counters, NEW d, d = [c EXCEPT !.processed = @ + 1]
    PROVE  /\ d \in Counters /\ d.processed = c.processed + 1
           /\ d.validated = c.validated /\ d.rejected = c.rejected /\ d.errors = c.errors
  BY DEF Counters

LEMMA ValidatedFacts ==
    ASSUME NEW c \in Counters, NEW d, d = [c EXCEPT !.validated = @ + 1]
    PROVE  /\ d \in Counters /\ d.validated = c.validated + 1
           /\ d.processed = c.processed /\ d.rejected = c.rejected /\ d.errors = c.errors
  BY DEF Counters

LEMMA ErrorsFacts ==
    ASSUME NEW c \in Counters, NEW d, d = [c EXCEPT !.errors = @ + 1]
    PROVE  /\ d \in Counters /\ d.errors = c.errors + 1
           /\ d.processed = c.processed /\ d.rejected = c.rejected
           /\ d.validated = c.validated
  BY DEF Counters

LEMMA RejectedFacts ==
    ASSUME NEW c \in Counters, NEW d,
           d = [c EXCEPT !.processed = @ + 1, !.rejected = @ + 1]
    PROVE  /\ d \in Counters /\ d.processed = c.processed + 1
           /\ d.rejected = c.rejected + 1
           /\ d.validated = c.validated /\ d.errors = c.errors
  <1> DEFINE e == [c EXCEPT !.processed = @ + 1]
  <1>1. /\ e \in Counters /\ e.processed = c.processed + 1
        /\ e.validated = c.validated /\ e.rejected = c.rejected /\ e.errors = c.errors
    BY DEF Counters
  <1>2. d = [e EXCEPT !.rejected = @ + 1]
    BY <1>1 DEF Counters
  <1> HIDE DEF e
  <1> QED
    BY <1>1, <1>2 DEF Counters

LEMMA TypedStep ==
    ASSUME Typed, [Next]_vars
    PROVE  Typed'
  <1>0. /\ DOMAIN Input \subseteq DOMAIN Input'
        /\ \A m \in DOMAIN Input : Input'[m] = Input[m]
        /\ Consumers(DOMAIN Input) \subseteq Consumers(DOMAIN Input')
    BY InputGrows
  <1>1. CASE Ingest \/ Restart \/ UNCHANGED vars
    <2>1. UNCHANGED <<fetchVars, at, phase, stats, expiries, dropped, faults>>
      BY <1>1 DEF Ingest, Restart, vars
    <2>2. at \in batch => at \in DOMAIN Input
      BY DEF Typed, TypeOK, Consumers
    <2> QED
      BY <1>0, <2>1, <2>2, TypedBy DEF Typed, TypeOK, fetchVars
  <1>2. CASE Fetch
    <2>1. UNCHANGED <<log, at, phase, stats, expiries, dropped, faults>>
      BY <1>2 DEF Fetch
    <2> QED
      BY <1>0, <1>2, <2>1, FetchEffect, TypedBy DEF Typed, TypeOK, Input
  <1>3. ASSUME NEW m \in Msgs, Reject(m) \/ Accept(m)
        PROVE  Typed'
    <2>1. m \in batch /\ m \in DOMAIN Input
      BY <1>3, TurnFacts DEF Reject, Accept
    <2>2. /\ UNCHANGED <<log, fetchVars, expiries, dropped, faults>>
          /\ at' = m /\ phase' \in {"publish", "ack"}
          /\ phase' = "publish" => Valid(Input[m].tick)
      BY <1>3 DEF Reject, Accept
    <2>3. stats' \in Counters
      <3>1. stats \in Counters
        BY DEF Typed
      <3>2. CASE Reject(m)
        BY <3>1, <3>2, RejectedFacts DEF Reject
      <3>3. CASE Accept(m)
        BY <3>1, <3>3, ProcessedFacts DEF Accept
      <3> QED
        BY <1>3, <3>2, <3>3
    <2> QED
      BY <1>0, <2>1, <2>2, <2>3, TypedBy DEF Typed, TypeOK, fetchVars
  <1>4. ASSUME NEW m \in Msgs, Publish(m) \/ PublishFails(m)
        PROVE  Typed'
    <2>1. m \in batch /\ m \in DOMAIN Input /\ at = m
      BY <1>4, AtFacts DEF Publish, PublishFails, At
    <2>2. /\ UNCHANGED <<fetchVars, at, expiries>>
          /\ phase' = "ack" /\ dropped' \subseteq dropped \cup {m}
      BY <1>4 DEF Publish, PublishFails
    <2>3. faults' \in 0..MaxFaults
      BY <1>4, FaultFacts DEF Publish, PublishFails, Typed, TypeOK
    <2>4. stats' \in Counters
      <3>1. stats \in Counters
        BY DEF Typed
      <3>2. CASE Publish(m)
        BY <3>1, <3>2, ValidatedFacts DEF Publish
      <3>3. CASE PublishFails(m)
        BY <3>1, <3>3, ErrorsFacts DEF PublishFails
      <3> QED
        BY <1>4, <3>2, <3>3
    <2> QED
      BY <1>0, <2>1, <2>2, <2>3, <2>4, TypedBy DEF Typed, TypeOK, fetchVars
  <1>5. ASSUME NEW m \in Msgs, Ack(m)
        PROVE  Typed'
    <2>1. /\ UNCHANGED <<log, again, stats, expiries, dropped, faults>>
          /\ batch' = batch \ {m} /\ at' = NoMsg /\ phase' = "check"
      BY <1>5 DEF Ack
    <2> QED
      BY <1>0, <1>5, <2>1, AckEffect, TypedBy DEF Typed, TypeOK
  <1>6. ASSUME NEW m \in Msgs, LoseAck(m)
        PROVE  Typed'
    <2>1. /\ UNCHANGED <<log, con, again, stats, expiries, dropped>>
          /\ batch' = batch \ {m} /\ at' = NoMsg /\ phase' = "check"
      BY <1>6 DEF LoseAck
    <2>2. faults' \in 0..MaxFaults
      BY <1>6, FaultFacts DEF LoseAck
    <2> QED
      BY <1>0, <2>1, <2>2, TypedBy DEF Typed, TypeOK
  <1>7. ASSUME NEW m \in Msgs, AckTimeout(m)
        PROVE  Typed'
    <2>1. /\ UNCHANGED <<log, batch, again, at, phase, stats, dropped, faults>>
          /\ expiries' \in [Msgs -> Nat]
      BY <1>7 DEF AckTimeout, Typed
    <2>2. batch' \subseteq con'.pending \cup con'.due
      BY <1>7, <2>1, ExpireEffect DEF Typed, TypeOK
    <2>3. at \in batch => at \in DOMAIN Input
      BY DEF Typed, TypeOK, Consumers
    <2> QED
      BY <1>0, <1>7, <2>1, <2>2, <2>3, ExpireEffect, TypedBy DEF Typed, TypeOK
  <1>8. CASE Crash
    <2>1. /\ UNCHANGED <<log, con, expiries, dropped>>
          /\ batch' = {} /\ again' = {} /\ at' = NoMsg /\ phase' = "check"
          /\ stats' = FreshStats
      BY <1>8 DEF Crash
    <2>2. faults' \in 0..MaxFaults
      BY <1>8, FaultFacts DEF Crash
    <2> QED
      BY <1>0, <2>1, <2>2, TypedBy DEF Typed, TypeOK, FreshStats, Counters
  <1> QED
    BY <1>1, <1>2, <1>3, <1>4, <1>5, <1>6, <1>7, <1>8 DEF Next

LEMMA TypedStarts == Init => Typed
  <1> SUFFICES ASSUME Init PROVE Typed
    OBVIOUS
  <1>1. \A s \in Streams : log[s] = << >> /\ Len(log[s]) = 0
    BY DEF Init
  <1>2. log \in [Streams -> Seq(Messages)]
    BY DEF Init
  <1>3. con \in Consumers(DOMAIN Input)
    BY NewConsumerFacts DEF Init
  <1>4. \A s \in Streams : DOMAIN log[s] = {}
    BY <1>1
  <1>5. /\ stats \in Counters
        /\ expiries \in [Msgs -> Nat]
    BY DEF Init, FreshStats, Counters
  <1>6. output \in Streams /\ 0 <= MaxLog /\ faults \in 0..MaxFaults
    BY StreamAssumption DEF Init
  <1>7. TypeOK
    BY <1>3, <1>4, <1>6 DEF Init, TypeOK
  <1> QED
    BY <1>1, <1>2, <1>5, <1>6, <1>7 DEF Typed

LEMMA TypedAlways == Spec => []Typed
  BY TypedStarts, TypedStep, PTL DEF Spec

(* The types; a tick that waits for its publish passed the validation.     *)
THEOREM TypeCorrect == Spec => []TypeOK
  <1>1. Typed => TypeOK
    BY DEF Typed
  <1> QED
    BY <1>1, TypedAlways, PTL

-----------------------------------------------------------------------------
(* The statistics.                                                         *)

LEMMA BalanceStep ==
    ASSUME Typed, StatsBalance, [Next]_vars
    PROVE  StatsBalance'
  <1>0. /\ stats \in Counters
        /\ stats.processed \in Nat /\ stats.validated \in Nat
        /\ stats.rejected \in Nat /\ stats.errors \in Nat
    BY DEF Typed, Counters
  <1>1. CASE UNCHANGED <<stats, phase>>
    BY <1>1 DEF StatsBalance
  <1>2. ASSUME NEW m \in Msgs, Reject(m)
        PROVE  StatsBalance'
    <2>1. phase = "check" /\ phase' = "ack"
      BY <1>2, TurnFacts DEF Reject
    <2>2. stats' = [stats EXCEPT !.processed = @ + 1, !.rejected = @ + 1]
      BY <1>2 DEF Reject
    <2>3. /\ stats'.processed = stats.processed + 1
          /\ stats'.rejected = stats.rejected + 1
          /\ stats'.validated = stats.validated /\ stats'.errors = stats.errors
      BY <1>0, <2>2, RejectedFacts
    <2> QED
      BY <1>0, <2>1, <2>3 DEF StatsBalance
  <1>3. ASSUME NEW m \in Msgs, Accept(m)
        PROVE  StatsBalance'
    <2>1. phase = "check" /\ phase' = "publish"
      BY <1>3, TurnFacts DEF Accept
    <2>2. stats' = [stats EXCEPT !.processed = @ + 1]
      BY <1>3 DEF Accept
    <2>3. /\ stats'.processed = stats.processed + 1
          /\ stats'.validated = stats.validated
          /\ stats'.rejected = stats.rejected /\ stats'.errors = stats.errors
      BY <1>0, <2>2, ProcessedFacts
    <2> QED
      BY <1>0, <2>1, <2>3 DEF StatsBalance
  <1>4. ASSUME NEW m \in Msgs, Publish(m)
        PROVE  StatsBalance'
    <2>1. phase = "publish" /\ phase' = "ack"
      BY <1>4 DEF Publish
    <2>2. stats' = [stats EXCEPT !.validated = @ + 1]
      BY <1>4 DEF Publish
    <2>3. /\ stats'.validated = stats.validated + 1
          /\ stats'.processed = stats.processed
          /\ stats'.rejected = stats.rejected /\ stats'.errors = stats.errors
      BY <1>0, <2>2, ValidatedFacts
    <2> QED
      BY <1>0, <2>1, <2>3 DEF StatsBalance
  <1>5. ASSUME NEW m \in Msgs, PublishFails(m)
        PROVE  StatsBalance'
    <2>1. phase = "publish" /\ phase' = "ack"
      BY <1>5 DEF PublishFails
    <2>2. stats' = [stats EXCEPT !.errors = @ + 1]
      BY <1>5 DEF PublishFails
    <2>3. /\ stats'.errors = stats.errors + 1
          /\ stats'.processed = stats.processed
          /\ stats'.rejected = stats.rejected /\ stats'.validated = stats.validated
      BY <1>0, <2>2, ErrorsFacts
    <2> QED
      BY <1>0, <2>1, <2>3 DEF StatsBalance
  <1>6. ASSUME NEW m \in Msgs, Ack(m) \/ LoseAck(m)
        PROVE  StatsBalance'
    <2>1. phase = "ack" /\ phase' = "check" /\ stats' = stats
      BY <1>6 DEF Ack, LoseAck
    <2> QED
      BY <2>1 DEF StatsBalance
  <1>7. CASE Crash
    <2>1. phase' = "check" /\ stats' = FreshStats
      BY <1>7 DEF Crash
    <2> QED
      BY <2>1 DEF StatsBalance, FreshStats
  <1>8. CASE Ingest \/ Fetch \/ Restart \/ UNCHANGED vars
    BY <1>1, <1>8 DEF Ingest, Fetch, Restart, vars
  <1>9. ASSUME NEW m \in Msgs, AckTimeout(m)
        PROVE  StatsBalance'
    BY <1>1, <1>9 DEF AckTimeout
  <1> QED
    BY <1>2, <1>3, <1>4, <1>5, <1>6, <1>7, <1>8, <1>9 DEF Next

(* What is counted as processed is counted once more, whatever publishes   *)
(* raise and however often the process starts again.                       *)
THEOREM Balance == Spec => []StatsBalance
  <1>1. Init => StatsBalance
    BY DEF Init, StatsBalance, FreshStats
  <1> QED
    BY <1>1, BalanceStep, TypedAlways, PTL DEF Spec

-----------------------------------------------------------------------------
(* No tick is lost in silence.                                             *)

Accounted(m) == Valid(Input[m].tick) => CopiesOf(m) # {} \/ m \in dropped

(* So it is for what is acked, and for what is about to be.                *)
Accounts ==
    /\ \A m \in con.acked : Accounted(m)
    /\ phase = "ack" => Accounted(at)

(* What is accounted for stays so.                                         *)
LEMMA AccountedKept ==
    ASSUME Typed, [Next]_vars, NEW m \in DOMAIN Input, Accounted(m)
    PROVE  Accounted(m)'
  <1>1. CopiesOf(m) \subseteq CopiesOf(m)'
    BY InputGrows DEF CopiesOf
  <1>2. dropped \subseteq dropped'
    BY DEF Next, vars, Ingest, Fetch, Crash, Restart, Reject, Accept, Publish,
           PublishFails, Ack, LoseAck, AckTimeout
  <1>3. Input'[m] = Input[m]
    BY InputGrows
  <1> QED
    BY <1>1, <1>2, <1>3 DEF Accounted

LEMMA AccountsStep ==
    ASSUME Typed, Accounts, [Next]_vars
    PROVE  Accounts'
  <1>0. /\ con.acked \subseteq DOMAIN Input
        /\ phase = "ack" => at \in DOMAIN Input
    BY DEF Typed, TypeOK, Consumers
  <1>1. \A m \in con.acked : Accounted(m)'
    BY <1>0, AccountedKept DEF Accounts
  <1>2. ASSUME phase = "ack", at' = at
        PROVE  Accounted(at)'
    <2>1. Accounted(at)
      BY <1>2 DEF Accounts
    <2>2. \A m \in DOMAIN Input : Accounted(m) => Accounted(m)'
      BY AccountedKept
    <2> QED
      BY <1>0, <1>2, <2>1, <2>2 DEF Accounted, CopiesOf
  <1>3. CASE UNCHANGED <<con, at, phase>>
    BY <1>1, <1>2, <1>3 DEF Accounts
  <1>4. CASE Fetch
    BY <1>1, <1>4, FetchEffect DEF Fetch, Accounts
  <1>5. ASSUME NEW m \in Msgs, Reject(m)
        PROVE  Accounts'
    <2>1. UNCHANGED <<log, output, con>> /\ at' = m /\ ~Valid(Input[m].tick)
      BY <1>5 DEF Reject, fetchVars
    <2>2. Input' = Input
      BY <2>1 DEF Input
    <2> QED
      BY <1>1, <2>1, <2>2 DEF Accounts, Accounted
  <1>6. ASSUME NEW m \in Msgs, Accept(m)
        PROVE  Accounts'
    <2>1. con' = con /\ phase' = "publish"
      BY <1>6 DEF Accept, fetchVars
    <2> QED
      BY <1>1, <2>1 DEF Accounts
  <1>7. ASSUME NEW m \in Msgs, Publish(m)
        PROVE  Accounts'
    <2>1. con' = con /\ at = m /\ at' = m /\ output' = output /\ Stored(output)
      BY <1>7 DEF Publish, At, fetchVars
    <2>2. Appended(output, Message(Input[m].tick, "normalizer", m))
      BY <1>7, AtFacts, AppendFacts DEF Publish, Typed
    <2>3. Len(Output) + 1 \in CopiesOf(m)'
      <3>1. /\ Output' = log'[output] /\ output \in Streams
            /\ Output'[Len(Output) + 1] = Message(Input[m].tick, "normalizer", m)
            /\ Len(Output') = Len(Output) + 1 /\ Output' \in Seq(Messages)
        BY <2>1, <2>2 DEF Appended, Output, Typed
      <3>2. Len(Output) + 1 \in DOMAIN Output'
        BY <3>1, InputFacts
      <3> QED
        BY <3>1, <3>2 DEF CopiesOf, Message
    <2> QED
      BY <1>1, <2>1, <2>3 DEF Accounts, Accounted
  <1>8. ASSUME NEW m \in Msgs, PublishFails(m)
        PROVE  Accounts'
    <2>1. con' = con /\ at' = m /\ m \in dropped'
      BY <1>8 DEF PublishFails, At, fetchVars
    <2> QED
      BY <1>1, <2>1 DEF Accounts, Accounted
  <1>9. ASSUME NEW m \in Msgs, Ack(m)
        PROVE  Accounts'
    <2>1. con'.acked = con.acked \cup {m} /\ phase' = "check"
      BY <1>9, AckEffect DEF Ack
    <2>2. phase = "ack" /\ m \in DOMAIN Input /\ Accounted(m)
      BY <1>9, AtFacts DEF Ack, At, Accounts
    <2>3. Accounted(m)'
      BY <2>2, AccountedKept
    <2> QED
      BY <1>1, <2>1, <2>3 DEF Accounts
  <1>10. ASSUME NEW m \in Msgs, LoseAck(m)
         PROVE  Accounts'
    BY <1>1, <1>10 DEF LoseAck, Accounts
  <1>11. ASSUME NEW m \in Msgs, AckTimeout(m)
         PROVE  Accounts'
    <2>1. con'.acked = con.acked /\ UNCHANGED <<at, phase>>
      BY <1>11, ExpireEffect DEF AckTimeout
    <2> QED
      BY <1>1, <1>2, <2>1 DEF Accounts
  <1>12. CASE Crash
    BY <1>1, <1>12 DEF Crash, Accounts
  <1>13. CASE Ingest \/ Restart \/ UNCHANGED vars
    BY <1>3, <1>13 DEF Ingest, Restart, vars, fetchVars
  <1> QED
    BY <1>4, <1>5, <1>6, <1>7, <1>8, <1>9, <1>10, <1>11, <1>12, <1>13 DEF Next

(* An acked tick was refused, is in the output, or had its publish fail.   *)
THEOREM NothingLostInSilence == Spec => []AckedIsAccounted
  <1>1. Init => Accounts
    BY NewConsumerFacts DEF Init, Accounts
  <1>2. Accounts => AckedIsAccounted
    BY DEF Accounts, Accounted, AckedIsAccounted
  <1> QED
    BY <1>1, <1>2, AccountsStep, TypedAlways, PTL DEF Spec

-----------------------------------------------------------------------------
(* Why copies need a cause.                                                *)

(* Positions of the output that a normalizer wrote.                        *)
Copies == {i \in DOMAIN Output : Output[i].by = "normalizer"}

(* A publish ends, one way or the other. *)
Publishing(m) == phase = "publish" /\ phase' = "ack" /\ at = m

(* A step writes at most one, for the message whose publish it is.         *)
LEMMA OutputStep ==
    ASSUME Typed, [Next]_vars
    PROVE  \/ Copies' = Copies
           \/ \E m \in Msgs :
                /\ Publishing(m)
                /\ Copies' = Copies \cup {Len(Output) + 1}
                /\ Output'[Len(Output) + 1].from = m
  <1>0. /\ DOMAIN Output \subseteq DOMAIN Output'
        /\ \A i \in DOMAIN Output : Output'[i] = Output[i]
        /\ DOMAIN Output = 1..Len(Output) /\ Len(Output) \in Nat
        /\ output' = output /\ output \in Streams
    BY InputGrows, InputFacts, LogsGrow DEF Typed
  <1>1. ASSUME UNCHANGED Output
        PROVE  Copies' = Copies
    BY <1>1 DEF Copies
  <1>2. ASSUME NEW x \in Messages, Appended(output, x)
        PROVE  /\ DOMAIN Output' = DOMAIN Output \cup {Len(Output) + 1}
               /\ Output'[Len(Output) + 1] = x
    <2>1. /\ Len(Output') = Len(Output) + 1 /\ Output' \in Seq(Messages)
          /\ Output'[Len(Output) + 1] = x
      BY <1>0, <1>2 DEF Appended, Output
    <2>2. DOMAIN Output' = 1..(Len(Output) + 1)
      BY <2>1
    <2> QED
      BY <1>0, <2>1, <2>2
  <1>3. ASSUME Ingest, NEW x \in Messages, Appended(InputStream, x)
        PROVE  Copies' = Copies
    <2>1. CASE output # InputStream
      BY <1>0, <1>1, <1>3, <2>1 DEF Appended, Output
    <2>2. CASE output = InputStream
      <3>1. PICK t \in Feed : log' = [log EXCEPT ![InputStream] =
                                          Append(@, Message(t, "ingestor", 0))]
        BY <1>3 DEF Ingest
      <3>2. Message(t, "ingestor", 0) \in Messages /\ Stored(InputStream)
        BY <1>3, StreamAssumption DEF Message, Messages, Ingest
      <3>3. Appended(output, Message(t, "ingestor", 0))
        BY <2>2, <3>1, <3>2, AppendFacts, StreamAssumption
      <3>4. /\ DOMAIN Output' = DOMAIN Output \cup {Len(Output) + 1}
            /\ Output'[Len(Output) + 1] = Message(t, "ingestor", 0)
        BY <1>2, <3>2, <3>3
      <3>5. Output'[Len(Output) + 1].by = "ingestor"
        BY <3>4 DEF Message
      <3> QED
        BY <1>0, <3>4, <3>5 DEF Copies
    <2> QED
      BY <2>1, <2>2
  <1>4. ASSUME NEW m \in Msgs, Publish(m) \/ PublishFails(m),
               Appended(output, Message(Input[m].tick, "normalizer", m))
        PROVE  /\ Publishing(m)
               /\ Copies' = Copies \cup {Len(Output) + 1}
               /\ Output'[Len(Output) + 1].from = m
    <2>1. Message(Input[m].tick, "normalizer", m) \in Messages
      BY <1>4, AtFacts DEF Publish, PublishFails
    <2>2. /\ DOMAIN Output' = DOMAIN Output \cup {Len(Output) + 1}
          /\ Output'[Len(Output) + 1] = Message(Input[m].tick, "normalizer", m)
      BY <1>2, <1>4, <2>1
    <2>3. Publishing(m)
      BY <1>4 DEF Publish, PublishFails, At, Publishing
    <2>4. /\ Output'[Len(Output) + 1].by = "normalizer"
          /\ Output'[Len(Output) + 1].from = m
      BY <2>2 DEF Message
    <2> QED
      BY <1>0, <2>2, <2>3, <2>4 DEF Copies
  <1>5. UNCHANGED log => UNCHANGED Output
    BY <1>0 DEF Output
  <1> QED
    BY <1>1, <1>3, <1>4, <1>5, LogStep

(* So the copies of a message grow by one at its publish, and stay else.   *)
LEMMA CopiesStep ==
    ASSUME Typed, [Next]_vars, NEW k \in Msgs
    PROVE  /\ Cardinality(CopiesOf(k)) \in Nat
           /\ \/ Cardinality(CopiesOf(k))' = Cardinality(CopiesOf(k))
              \/ /\ Publishing(k)
                 /\ Cardinality(CopiesOf(k))' = Cardinality(CopiesOf(k)) + 1
  <1>0. /\ \A i \in DOMAIN Output : Output'[i] = Output[i]
        /\ DOMAIN Output = 1..Len(Output) /\ Len(Output) \in Nat
    BY InputGrows, InputFacts
  <1>1. /\ CopiesOf(k) = {i \in Copies : Output[i].from = k}
        /\ CopiesOf(k)' = {i \in Copies' : Output'[i].from = k}
        /\ Copies \subseteq DOMAIN Output
    BY DEF CopiesOf, Copies
  <1>2. IsFiniteSet(CopiesOf(k)) /\ Cardinality(CopiesOf(k)) \in Nat
    <2>1. IsFiniteSet(1..Len(Output))
      BY <1>0, FS_Interval
    <2> QED
      BY <1>0, <1>1, <2>1, FS_Subset, FS_CardinalityType
  <1>3. CASE Copies' = Copies
    <2>1. CopiesOf(k)' = CopiesOf(k)
      BY <1>0, <1>1, <1>3
    <2> QED
      BY <1>2, <2>1
  <1>4. ASSUME NEW m \in Msgs,
               Copies' = Copies \cup {Len(Output) + 1},
               Output'[Len(Output) + 1].from = m
        PROVE  \/ Cardinality(CopiesOf(k))' = Cardinality(CopiesOf(k))
               \/ /\ m = k
                  /\ Cardinality(CopiesOf(k))' = Cardinality(CopiesOf(k)) + 1
    <2>1. CASE m # k
      <3>1. CopiesOf(k)' = CopiesOf(k)
        BY <1>0, <1>1, <1>4, <2>1
      <3> QED
        BY <3>1
    <2>2. CASE m = k
      <3>1. CopiesOf(k)' = CopiesOf(k) \cup {Len(Output) + 1}
        BY <1>0, <1>1, <1>4, <2>2
      <3>2. Len(Output) + 1 \notin CopiesOf(k)
        BY <1>0, <1>1
      <3> QED
        BY <1>2, <2>2, <3>1, <3>2, FS_AddElement
    <2> QED
      BY <2>1, <2>2
  <1> QED
    BY <1>2, <1>3, <1>4, OutputStep

(* A message of the batch that is not published yet.                       *)
Todo(m) == m \in batch /\ ~(phase = "ack" /\ at = m)

(* A message that a fetch can deliver again, and one that is yet to be     *)
(* published, have each spared one ack wait that ran out; one that is both *)
(* has spared two.                                                         *)
Spared(m, n) ==
    /\ n <= 1 + expiries[m]
    /\ m \notin con.pending \cup con.acked => n <= expiries[m]
    /\ Todo(m) => n <= expiries[m]
    /\ Todo(m) /\ m \notin con.pending \cup con.acked => n + 1 <= expiries[m]

Sparing == \A m \in Msgs : Spared(m, Cardinality(CopiesOf(m)))

LEMMA SparingStep ==
    ASSUME Typed, Sparing, [Next]_vars
    PROVE  Sparing'
  <1> SUFFICES ASSUME NEW k \in Msgs
               PROVE  Spared(k, Cardinality(CopiesOf(k)))'
    BY DEF Sparing
  <1> DEFINE n == Cardinality(CopiesOf(k))
  <1>0. /\ expiries[k] \in Nat /\ n \in Nat
        /\ n' = n \/ (Publishing(k) /\ n' = n + 1)
        /\ batch \subseteq con.pending \cup con.due
    <2>1. n \in Nat /\ (n' = n \/ (Publishing(k) /\ n' = n + 1))
      BY CopiesStep
    <2>2. expiries[k] \in Nat /\ batch \subseteq con.pending \cup con.due
      BY DEF Typed, TypeOK
    <2> QED
      BY <2>1, <2>2
  <1>s. Spared(k, n)
    BY DEF Sparing
  <1> SUFFICES Spared(k, n)'
    OBVIOUS
  <1> HIDE DEF n
  <1>1. CASE Ingest \/ Restart \/ UNCHANGED vars
    <2>1. UNCHANGED <<con, batch, at, phase, expiries>>
      BY <1>1 DEF Ingest, Restart, vars, fetchVars
    <2> QED
      BY <1>0, <1>s, <2>1 DEF Spared, Todo, Publishing
  <1>2. CASE Fetch
    <2>1. /\ expiries' = expiries /\ phase' = phase
          /\ con'.pending = con.pending \cup batch'
          /\ con'.acked = con.acked
          /\ batch' \cap (con.pending \cup con.acked) = {}
      BY <1>2, FetchEffect DEF Fetch
    <2> QED
      BY <1>0, <1>s, <2>1 DEF Spared, Todo, Publishing
  <1>3. ASSUME NEW m \in Msgs, Reject(m) \/ Accept(m)
        PROVE  Spared(k, n)'
    <2>1. UNCHANGED <<con, batch, expiries>> /\ phase = "check" /\ m \in batch
      BY <1>3, TurnFacts DEF Reject, Accept, fetchVars
    <2> QED
      BY <1>0, <1>s, <2>1 DEF Spared, Todo, Publishing
  <1>4. ASSUME NEW m \in Msgs, Publish(m) \/ PublishFails(m)
        PROVE  Spared(k, n)'
    <2>1. /\ UNCHANGED <<con, batch, at, expiries>>
          /\ phase = "publish" /\ phase' = "ack" /\ at = m /\ m \in batch
      BY <1>4, AtFacts DEF Publish, PublishFails, At, fetchVars
    <2> QED
      BY <1>0, <1>s, <2>1 DEF Spared, Todo, Publishing
  <1>5. ASSUME NEW m \in Msgs, Ack(m)
        PROVE  Spared(k, n)'
    <2>1. /\ batch' = batch \ {m} /\ at = m /\ phase = "ack" /\ phase' = "check"
          /\ expiries' = expiries
          /\ con'.pending = con.pending \ {m}
          /\ con'.acked = con.acked \cup {m}
      BY <1>5, AckEffect DEF Ack, At
    <2> QED
      BY <1>0, <1>s, <2>1 DEF Spared, Todo, Publishing
  <1>6. ASSUME NEW m \in Msgs, LoseAck(m)
        PROVE  Spared(k, n)'
    <2>1. /\ batch' = batch \ {m} /\ at = m /\ phase = "ack" /\ phase' = "check"
          /\ UNCHANGED <<con, expiries>>
      BY <1>6 DEF LoseAck, At
    <2> QED
      BY <1>0, <1>s, <2>1 DEF Spared, Todo, Publishing
  <1>7. ASSUME NEW m \in Msgs, AckTimeout(m)
        PROVE  Spared(k, n)'
    <2>1. /\ UNCHANGED <<batch, at, phase>>
          /\ m \in con.pending
          /\ con'.pending = con.pending \ {m}
          /\ con'.acked = con.acked
      BY <1>7, ExpireEffect DEF AckTimeout
    <2>2. IF k = m THEN expiries'[k] = expiries[k] + 1 ELSE expiries'[k] = expiries[k]
      BY <1>7 DEF AckTimeout, Typed
    <2> QED
      BY <1>0, <1>s, <2>1, <2>2 DEF Spared, Todo, Publishing
  <1>8. CASE Crash
    <2>1. batch' = {} /\ phase' = "check" /\ UNCHANGED <<con, expiries>>
      BY <1>8 DEF Crash
    <2> QED
      BY <1>0, <1>s, <2>1 DEF Spared, Todo, Publishing
  <1> QED
    BY <1>1, <1>2, <1>3, <1>4, <1>5, <1>6, <1>7, <1>8 DEF Next

(* A tick is published again only because an ack wait ran out.             *)
THEOREM CopiesHaveCause == Spec => []CopiesNeedCause
  <1>1. Init => Sparing
    <2> SUFFICES ASSUME Init, NEW m \in Msgs
                 PROVE  Spared(m, Cardinality(CopiesOf(m)))
      BY DEF Sparing
    <2>1. Output = << >>
      BY StreamAssumption DEF Init, Output
    <2>2. Cardinality(CopiesOf(m)) = 0
      BY <2>1, FS_EmptySet DEF CopiesOf
    <2> QED
      BY <2>2 DEF Init, Spared, Todo
  <1>2. Sparing => CopiesNeedCause
    BY DEF Sparing, Spared, CopiesNeedCause
  <1> QED
    BY <1>1, <1>2, SparingStep, TypedAlways, PTL DEF Spec

-----------------------------------------------------------------------------
(* Why the output is in order.                                             *)

Delivered == con.pending \cup con.due \cup con.acked

(* What was delivered is a prefix of the input, and holds all that was     *)
(* published; what is due, or came again, had its ack wait run out, and    *)
(* comes before the rest of its batch; so a message of the batch whose ack *)
(* wait never ran out is beyond everything published before it.            *)
Ordered ==
    /\ \A m \in Delivered, k \in Msgs : k < m => k \in Delivered
    /\ \A i \in Copies : Output[i].from \in Delivered
    /\ \A m \in con.due \cup again : expiries[m] > 0
    /\ \A m \in batch \ again, k \in again : k < m
    /\ phase # "check" => at \in NextOf(batch, again)
    /\ \A m \in batch : Todo(m) /\ expiries[m] = 0
            => \A i \in Copies : Output[i].from < m
    /\ \A i, j \in Copies :
            i < j /\ Output[i].from >= Output[j].from
                => expiries[Output[j].from] > 0

LEMMA OrderedStep ==
    ASSUME Typed, Ordered, [Next]_vars
    PROVE  Ordered'
  <1>0. /\ \A m \in Msgs : expiries[m] \in Nat
        /\ Msgs \subseteq Nat
        /\ Delivered \subseteq Msgs /\ batch \subseteq Delivered
        /\ again \subseteq Msgs
    BY InputFacts, StreamAssumption DEF Typed, TypeOK, Consumers, Delivered, Msgs
  <1>1. /\ \A i \in Copies : Output'[i] = Output[i]
        /\ Copies \subseteq 1..Len(Output) /\ Len(Output) \in Nat
    BY InputGrows, InputFacts DEF Copies
  <1>2. ASSUME ~ \E m \in Msgs : Publishing(m)
        PROVE  Copies' = Copies
    BY <1>2, OutputStep
  <1>3. CASE Ingest \/ Restart \/ UNCHANGED vars
    <2>1. UNCHANGED <<con, batch, again, at, phase, expiries>>
      BY <1>3 DEF Ingest, Restart, vars, fetchVars
    <2>2. Copies' = Copies
      BY <1>2, <2>1 DEF Publishing
    <2> QED
      BY <1>1, <2>1, <2>2 DEF Ordered, Delivered, Todo
  <1>4. CASE Fetch
    <2>1. /\ UNCHANGED <<at, phase, expiries>> /\ phase = "check"
          /\ Delivered' = Delivered \cup batch'
          /\ con'.due \subseteq con.due
          /\ again' = batch' \cap con.due
          /\ batch' \cap con.pending = {} /\ batch' \cap con.acked = {}
          /\ batch' \subseteq DOMAIN Input
      BY <1>4, FetchEffect DEF Fetch, Delivered
    <2>2. Copies' = Copies
      BY <1>2, <2>1 DEF Publishing
    <2>3. \A m \in batch' \ con.due : m \notin Delivered
      BY <2>1 DEF Delivered
    <2>4. \A m \in batch' \ con.due, k \in Delivered : k < m
      <3> SUFFICES ASSUME NEW m \in batch' \ con.due, NEW k \in Delivered
                   PROVE  k < m
        OBVIOUS
      <3>1. m \in Msgs /\ m \in Nat /\ k \in Nat
        BY <1>0, <2>1, InputFacts
      <3>2. ~(m < k) /\ m # k
        BY <2>3, <3>1 DEF Ordered
      <3> QED
        BY <3>1, <3>2
    <2>5. \A m \in Delivered', k \in Msgs : k < m => k \in Delivered'
      <3> SUFFICES ASSUME NEW m \in batch' \ con.due, NEW k \in Msgs, k < m
                   PROVE  k \in Delivered'
        BY <2>1 DEF Ordered, Delivered
      <3>1. k \in DOMAIN Input
        BY <1>0, <2>1, InputFacts DEF Msgs
      <3>2. k \notin con.pending /\ k \notin con.acked => k \in batch'
        BY <1>4, <3>1, FetchEffect
      <3> QED
        BY <2>1, <3>2 DEF Delivered
    <2>6. \A m \in batch' \ again', k \in again' : k < m
      BY <2>1, <2>4 DEF Delivered
    <2>7. \A m \in con'.due \cup again' : expiries'[m] > 0
      BY <2>1 DEF Ordered
    <2>8. ASSUME NEW m \in batch', expiries'[m] = 0, NEW i \in Copies
          PROVE  Output'[i].from < m
      <3>1. m \notin con.due
        <4>1. m \in con.due => expiries[m] > 0
          BY DEF Ordered
        <4> QED
          BY <2>1, <2>8, <4>1
      <3>2. Output[i].from \in Delivered
        BY DEF Ordered
      <3> QED
        BY <1>1, <2>4, <3>1, <3>2
    <2> QED
      BY <1>1, <2>1, <2>2, <2>5, <2>6, <2>7, <2>8 DEF Ordered
  <1>5. ASSUME NEW m \in Msgs, Reject(m) \/ Accept(m)
        PROVE  Ordered'
    <2>1. /\ UNCHANGED <<con, batch, again, expiries>> /\ phase = "check"
          /\ at' = m /\ m \in NextOf(batch, again)
      BY <1>5, TurnFacts DEF Reject, Accept, Turn, fetchVars
    <2>2. Copies' = Copies
      BY <1>2, <2>1 DEF Publishing
    <2>3. \A k : Todo(k)' => Todo(k)
      BY <2>1 DEF Todo
    <2> QED
      BY <1>1, <2>1, <2>2, <2>3 DEF Ordered, Delivered
  <1>6. ASSUME NEW m \in Msgs, Publish(m) \/ PublishFails(m)
        PROVE  Ordered'
    <2>1. /\ UNCHANGED <<con, batch, again, at, expiries>>
          /\ phase = "publish" /\ phase' = "ack" /\ at = m /\ m \in batch
      BY <1>6, AtFacts DEF Publish, PublishFails, At, fetchVars
    <2>2. \A k : Todo(k)' => Todo(k) /\ k # m
      BY <2>1 DEF Todo
    <2>3. CASE Copies' = Copies
      BY <1>1, <2>1, <2>2, <2>3 DEF Ordered, Delivered
    <2>4. CASE Copies' = Copies \cup {Len(Output) + 1} /\ Output'[Len(Output) + 1].from = m
      <3>1. \A i \in Copies' : Output'[i].from \in Delivered
        BY <1>0, <1>1, <2>1, <2>4 DEF Ordered
      <3>2. ASSUME NEW k \in batch, Todo(k)', expiries[k] = 0
            PROVE  m < k
        <4>1. k # m /\ k \in batch /\ k \notin again
          BY <2>2, <3>2 DEF Ordered
        <4>2. m \in again \/ m <= k
          BY <2>1, <3>2 DEF Ordered, NextOf
        <4> QED
          BY <1>0, <4>1, <4>2 DEF Ordered
      <3>3. \A k \in batch : Todo(k)' /\ expiries[k] = 0
                => \A i \in Copies' : Output'[i].from < k
        BY <1>1, <2>2, <2>4, <3>2 DEF Ordered
      <3>4. ASSUME NEW i \in Copies', NEW j \in Copies', i < j,
                   Output'[i].from >= Output'[j].from
            PROVE  expiries[Output'[j].from] > 0
        <4>1. i \in Copies
          BY <1>1, <2>4, <3>4
        <4>2. CASE j \in Copies
          BY <1>1, <3>4, <4>1, <4>2 DEF Ordered
        <4>3. CASE j = Len(Output) + 1
          <5>1. Todo(m) /\ Output[i].from >= m /\ Output[i].from \in Nat
            BY <1>0, <1>1, <2>1, <2>4, <3>4, <4>1, <4>3 DEF Todo, Ordered
          <5>2. expiries[m] # 0
            BY <1>0, <2>1, <4>1, <5>1 DEF Ordered
          <5> QED
            BY <1>0, <2>4, <4>3, <5>2
        <4> QED
          BY <2>4, <4>2, <4>3
      <3> QED
        BY <2>1, <3>1, <3>3, <3>4 DEF Ordered, Delivered
    <2> QED
      BY <2>1, <2>3, <2>4, OutputStep DEF Publishing
  <1>7. ASSUME NEW m \in Msgs, Ack(m) \/ LoseAck(m)
        PROVE  Ordered'
    <2>1. /\ batch' = batch \ {m} /\ at = m /\ phase = "ack" /\ phase' = "check"
          /\ UNCHANGED <<again, expiries>> /\ m \in batch
      BY <1>7, AtFacts DEF Ack, LoseAck, At
    <2>2. con'.due \subseteq con.due /\ Delivered' = Delivered
      <3>1. CASE Ack(m)
        BY <1>0, <2>1, <3>1, AckEffect DEF Delivered
      <3>2. CASE LoseAck(m)
        BY <3>2 DEF LoseAck, Delivered
      <3> QED
        BY <1>7, <3>1, <3>2
    <2>3. Copies' = Copies
      BY <1>2, <2>1 DEF Publishing
    <2>4. \A k \in batch' : Todo(k)' => Todo(k)
      BY <2>1 DEF Todo
    <2> QED
      BY <1>1, <2>1, <2>2, <2>3, <2>4 DEF Ordered
  <1>8. ASSUME NEW m \in Msgs, AckTimeout(m)
        PROVE  Ordered'
    <2>1. /\ UNCHANGED <<batch, again, at, phase>>
          /\ con'.due = con.due \cup {m} /\ Delivered' = Delivered
      BY <1>8, ExpireEffect DEF AckTimeout, Delivered
    <2>2. Copies' = Copies
      BY <1>2, <2>1 DEF Publishing
    <2>3. /\ expiries'[m] > 0
          /\ \A k \in Msgs : expiries'[k] > 0 \/ expiries'[k] = expiries[k]
          /\ \A k \in Msgs : expiries[k] > 0 => expiries'[k] > 0
      BY <1>0, <1>8 DEF AckTimeout, Typed
    <2>4. \A k : Todo(k)' <=> Todo(k)
      BY <2>1 DEF Todo
    <2>5. \A k \in con'.due \cup again' : expiries'[k] > 0
      BY <1>0, <2>1, <2>3 DEF Ordered, Delivered
    <2>6. \A k \in batch' : Todo(k)' /\ expiries'[k] = 0
              => \A i \in Copies : Output'[i].from < k
      BY <1>0, <1>1, <2>1, <2>3, <2>4 DEF Ordered
    <2>7. \A i, j \in Copies :
              i < j /\ Output[i].from >= Output[j].from
                  => expiries'[Output[j].from] > 0
      BY <1>0, <2>3 DEF Ordered
    <2> QED
      BY <1>1, <2>1, <2>2, <2>5, <2>6, <2>7 DEF Ordered
  <1>9. CASE Crash
    <2>1. /\ batch' = {} /\ again' = {} /\ phase' = "check"
          /\ UNCHANGED <<con, expiries>>
      BY <1>9 DEF Crash
    <2>2. Copies' = Copies
      BY <1>2, <2>1 DEF Publishing
    <2> QED
      BY <1>1, <2>1, <2>2 DEF Ordered, Delivered
  <1> QED
    BY <1>3, <1>4, <1>5, <1>6, <1>7, <1>8, <1>9 DEF Next

(* The output is in the order of the input, but for what an ack wait       *)
(* brought again.                                                          *)
THEOREM ReorderingHasCause == Spec => []ReorderingNeedsCause
  <1>1. Init => Ordered
    <2> SUFFICES ASSUME Init PROVE Ordered
      OBVIOUS
    <2>1. Output = << >>
      BY StreamAssumption DEF Init, Output
    <2>2. Copies = {}
      BY <2>1 DEF Copies
    <2> QED
      BY <2>2, NewConsumerFacts DEF Init, Ordered, Delivered
  <1>2. Ordered => ReorderingNeedsCause
    BY DEF Ordered, Copies, ReorderingNeedsCause
  <1> QED
    BY <1>1, <1>2, OrderedStep, TypedAlways, PTL DEF Spec

=============================================================================
