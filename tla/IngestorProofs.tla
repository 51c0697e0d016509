--------------------------- MODULE IngestorProofs ---------------------------
(***************************************************************************)
(* Proofs about Ingestor, and with it about Session, for every set of      *)
(* services and frames and every number of outages and faults: types, the  *)
(* stream under a running service, frames at most once and in order, and   *)
(* no loss without a fault.                                                *)
(***************************************************************************)
EXTENDS Ingestor, TLAPS

(* The steps of Session as the steps of Ingestor make them. *)
Ends(s) == Exit(s) /\ UNCHANGED <<deleteExisting, serverVars, outages>>

FaultOnly == Fault /\ UNCHANGED <<deleteExisting, serverVars, phase, link, outages>>

SessionNext ==
    \/ \E s \in Services : \/ Step(s) \/ Crash(s) \/ Reconnect(s) \/ GiveUp(s)
                           \/ Ends(s) /\ (faults' = faults \/ Fault)
    \/ Outage \/ ServerBack \/ FaultOnly

LEMMA SelfIsService == Self \in Services /\ Self \notin Subscribers
  BY IngestorAssumption

LEMMA IsSessionStep ==
    ASSUME [Next]_vars
    PROVE  SessionNext \/ UNCHANGED sessionVars
  <1>1. CASE \E s \in Services : SetUp(s)
    BY <1>1 DEF SetUp, SessionNext
  <1>2. CASE Environment \/ LinkBreaks \/ LinkCloses \/ IngestorDies
    BY <1>2, SelfIsService DEF Environment, LinkBreaks, LinkCloses, IngestorDies, SessionNext
  <1>3. CASE OpenFails \/ Leave
    <2>1. Ends(Self) /\ (faults' = faults \/ Fault)
      BY <1>3 DEF OpenFails, Leave, Ends
    <2> QED
      BY <2>1, SelfIsService DEF SessionNext
  <1>4. CASE OpenSocket \/ Emit \/ CloseSocket \/ PublishReturns
    BY <1>4 DEF OpenSocket, Emit, CloseSocket, PublishReturns
  <1>5. CASE \E f \in Frames : PassOver(f) \/ Publish(f) \/ Arrive(f)
    BY <1>5 DEF PassOver, Publish, Arrive
  <1>6. CASE PublishRaises
    BY <1>6 DEF PublishRaises, Unconfirmed, FaultOnly, SessionNext, sessionVars
  <1>7. CASE UNCHANGED vars
    BY <1>7 DEF vars
  <1> QED
    BY <1>1, <1>2, <1>3, <1>4, <1>5, <1>6, <1>7 DEF Next

-----------------------------------------------------------------------------
LEMMA FaultFacts ==
    ASSUME SessionTypeOK, Fault \/ faults' = faults
    PROVE  faults' \in 0..MaxFaults
  BY SessionAssumption DEF SessionTypeOK, Fault

(* A service is where the last answer it had sent it: past connect there   *)
(* is a stream, which only delete_existing can take away, and past the     *)
(* subscription a consumer.                                                *)
Placed ==
    \A s \in Services :
        /\ phase[s] = "delete" => deleteExisting
        /\ phase[s] \in {"subscribe", "run"} /\ ~deleteExisting => stream
        /\ phase[s] = "run" /\ ~deleteExisting /\ s \in Subscribers => s \in consumers

SessionInv == SessionTypeOK /\ Placed

LEMMA StepKeepsSession ==
    ASSUME SessionInv, NEW s \in Services, Step(s)
    PROVE  SessionInv'
  <1> USE DEF SessionInv, SessionTypeOK, Placed, serverVars
  <1>0. faults' \in 0..MaxFaults
    <2>1. Fault \/ faults' = faults
      BY DEF Step, Connect, ConnectGivesUp, LookFinds, LookFails, DeleteStream,
             CreateStream, CreateFails, Subscribe, SubscribeFails, Restart,
             Answered, Unanswered
    <2> QED
      BY <2>1, FaultFacts
  <1>1. CASE Connect(s) \/ Restart(s)
    BY <1>1 DEF Connect, Restart, Goto, Phases, Links
  <1>2. CASE ConnectGivesUp(s)
    BY <1>2 DEF ConnectGivesUp, Exit, Goto, Phases, Links
  <1>3. CASE LookFinds(s)
    BY <1>0, <1>3 DEF LookFinds, Answered, GoOn, Goto, Phases
  <1>4. CASE LookFails(s)
    BY <1>0, <1>4 DEF LookFails, Goto, Phases
  <1>5. CASE DeleteStream(s)
    <2>1. /\ deleteExisting /\ deleteExisting' = deleteExisting
          /\ UNCHANGED <<serverUp, link, outages>>
          /\ stream' \in BOOLEAN /\ consumers' \subseteq Services
      BY <1>5 DEF DeleteStream, Deleted
    <2> QED
      BY <1>0, <1>5, <2>1 DEF DeleteStream, Goto, Phases
  <1>6. CASE CreateStream(s)
    BY <1>0, <1>6 DEF CreateStream, Answered, Created, GoOn, Goto, Phases
  <1>7. CASE CreateFails(s)
    <2>1. /\ UNCHANGED <<deleteExisting, serverUp, consumers, outages>>
          /\ stream' = stream \/ stream' = TRUE
      BY <1>7 DEF CreateFails, Created
    <2>2. /\ phase' = [phase EXCEPT ![s] = "down"]
          /\ link' = [link EXCEPT ![s] = "none"]
      BY <1>7 DEF CreateFails, Exit, Goto
    <2>3. SessionTypeOK'
      BY <1>0, <2>1, <2>2 DEF Phases, Links
    <2>4. Placed'
      BY <2>1, <2>2
    <2> QED
      BY <2>3, <2>4
  <1>8. CASE Subscribe(s)
    BY <1>0, <1>8 DEF Subscribe, Answered, Goto, Phases
  <1>9. CASE SubscribeFails(s)
    <2>1. /\ UNCHANGED <<deleteExisting, serverUp, stream, outages>>
          /\ consumers' \in {consumers, consumers \cup {s}}
      BY <1>9 DEF SubscribeFails
    <2> QED
      BY <1>0, <1>9, <2>1 DEF SubscribeFails, Exit, Goto, Phases, Links
  <1> QED
    BY <1>1, <1>2, <1>3, <1>4, <1>5, <1>6, <1>7, <1>8, <1>9 DEF Step

LEMMA SessionKept ==
    ASSUME SessionInv, SessionNext \/ UNCHANGED sessionVars
    PROVE  SessionInv'
  <1> USE DEF SessionInv, SessionTypeOK, Placed, serverVars
  <1>1. ASSUME NEW s \in Services, Step(s)
        PROVE  SessionInv'
    BY <1>1, StepKeepsSession
  <1>2. ASSUME NEW s \in Services, Crash(s) \/ (Ends(s) /\ (faults' = faults \/ Fault))
        PROVE  SessionInv'
    <2>1. /\ Exit(s) /\ UNCHANGED <<deleteExisting, serverVars, outages>>
          /\ faults' \in 0..MaxFaults
      BY <1>2, FaultFacts DEF Crash, Ends
    <2> QED
      BY <2>1 DEF Exit, Goto, Phases, Links
  <1>3. ASSUME NEW s \in Services, Reconnect(s) \/ GiveUp(s)
        PROVE  SessionInv'
    BY <1>3 DEF Reconnect, GiveUp, Links
  <1>4. CASE Outage
    <2>1. link' \in [Services -> Links] /\ \A s \in Services : link'[s] # "open"
      BY <1>4 DEF Outage, Links
    <2>2. outages' \in 0..MaxOutages
      BY <1>4, SessionAssumption DEF Outage
    <2> QED
      BY <1>4, <2>1, <2>2 DEF Outage
  <1>5. CASE ServerBack
    BY <1>5 DEF ServerBack
  <1>6. CASE FaultOnly
    BY <1>6, FaultFacts DEF FaultOnly
  <1>7. CASE UNCHANGED sessionVars
    BY <1>7 DEF sessionVars
  <1> QED
    BY <1>1, <1>2, <1>3, <1>4, <1>5, <1>6, <1>7 DEF SessionNext

(* The ingestor in it. *)
LEMMA SessionStarts == Init => SessionInv
  BY SessionAssumption
    DEF Init, SessionInit, SessionInv, SessionTypeOK, Placed, Phases, Links

LEMMA SessionAlways == Spec => []SessionInv
  <1>1. SessionInv /\ [Next]_vars => SessionInv'
    BY IsSessionStep, SessionKept
  <1> QED
    BY <1>1, SessionStarts, PTL DEF Spec

(* Without delete_existing, whatever fails and however the services'       *)
(* set-ups interleave, a running service has the stream and its consumer.  *)
THEOREM RunningOnStream == Spec => []RunsOnStream
  <1>1. SessionInv => RunsOnStream
    BY DEF SessionInv, Placed, RunsOnStream
  <1> QED
    BY <1>1, SessionAlways, PTL

-----------------------------------------------------------------------------
(* What is in the process needs its loop. *)
LEMMA RunningKept ==
    ASSUME SessionTypeOK, Running,
           \/ \E s \in Services : Step(s) \/ Reconnect(s) \/ GiveUp(s)
           \/ \E s \in Services \ {Self} : Crash(s)
           \/ ServerBack \/ Outage
    PROVE  Running'
  <1>1. ASSUME NEW s \in Services, Step(s)
        PROVE  phase[s] # "run" /\ \E p \in Phases : phase' = [phase EXCEPT ![s] = p]
    <2>1. phase[s] # "run"
      BY <1>1 DEF Step, Connect, ConnectGivesUp, LookFinds, LookFails, DeleteStream,
                  CreateStream, CreateFails, Subscribe, SubscribeFails, Restart
    <2>2. \E p \in Phases : Goto(s, p)
      BY <1>1 DEF Step, Connect, ConnectGivesUp, LookFinds, LookFails, DeleteStream,
                  CreateStream, CreateFails, Subscribe, SubscribeFails, Restart,
                  GoOn, Exit, Phases
    <2> QED
      BY <2>1, <2>2 DEF Goto
  <1>2. CASE \E s \in Services : Step(s)
    BY <1>1, <1>2, SelfIsService DEF SessionTypeOK, Running
  <1>3. CASE \E s \in Services \ {Self} : Crash(s)
    BY <1>3, SelfIsService DEF Crash, Exit, Goto, SessionTypeOK, Running
  <1>4. CASE \/ \E s \in Services : Reconnect(s) \/ GiveUp(s)
             \/ ServerBack \/ Outage
    BY <1>4 DEF Reconnect, GiveUp, ServerBack, Outage, Running
  <1> QED
    BY <1>2, <1>3, <1>4

LEMMA SeqMonotone ==
    ASSUME NEW A, NEW B, A \subseteq B, NEW q \in Seq(A)
    PROVE  q \in Seq(B)
  OBVIOUS

(* The steps that leave the process and the feed as they are, or end it. *)
LEMMA ElsewhereFacts ==
    ASSUME SessionTypeOK,
           \/ \E s \in Services : SetUp(s)
           \/ Environment \/ LinkBreaks \/ LinkCloses
    PROVE  /\ UNCHANGED <<feedVars, publishing, stored>>
           /\ outbox' \subseteq outbox
           /\ Running => Running'
  <1>1. ASSUME NEW s \in Services, SetUp(s)
        PROVE  Elsewhere /\ (Running => Running')
    BY <1>1, RunningKept DEF SetUp
  <1>2. CASE Environment
    BY <1>2, RunningKept DEF Environment, Elsewhere
  <1>3. CASE LinkBreaks \/ LinkCloses
    BY <1>3, RunningKept, SelfIsService DEF LinkBreaks, LinkCloses
  <1> QED
    BY <1>1, <1>2, <1>3 DEF Elsewhere

(* Type correctness: what is in the process, on its way and in the stream  *)
(* came in through the socket, and is in that order nowhere without a      *)
(* running loop.                                                           *)
THEOREM TypeCorrect == Spec => []TypeOK
  <1>1. Init => TypeOK
    BY SessionStarts, IngestorAssumption
      DEF SessionInv, Init, TypeOK, NoFrame
  <1>2. TypeOK /\ SessionTypeOK' /\ [Next]_vars => TypeOK'
    <2> SUFFICES ASSUME TypeOK, SessionTypeOK', [Next]_vars
                 PROVE  TypeOK'
      OBVIOUS
    <2> USE DEF TypeOK
    <2>1. CASE (\E s \in Services : SetUp(s)) \/ Environment \/ LinkBreaks \/ LinkCloses
      BY <2>1, ElsewhereFacts DEF feedVars
    <2>2. CASE IngestorDies \/ OpenFails \/ Leave
      <3>1. Die
        BY <2>2 DEF IngestorDies, OpenFails, Leave
      <3> QED
        BY <3>1 DEF Die, NoFrame
    <2>3. CASE OpenSocket \/ CloseSocket
      BY <2>3 DEF OpenSocket, CloseSocket, sessionVars, Running
    <2>4. CASE Emit
      <3>1. /\ emitted' = emitted + 1 /\ emitted' \in 0..MaxFrames
            /\ UNCHANGED <<sessionVars, ws, publishing, outbox, stored>>
            /\ \/ inbox' = inbox \cup {emitted'} /\ heard' = heard \cup {emitted'}
               \/ inbox' = inbox /\ heard' = heard
        BY <2>4, IngestorAssumption DEF Emit
      <3>2. stored \in Seq(heard' \cap Tickers)
        BY <3>1, SeqMonotone
      <3>3. heard \subseteq heard' /\ inbox' \subseteq heard' /\ heard' \subseteq 1..emitted'
        <4>1. 1..emitted \subseteq 1..emitted' /\ emitted' \in 1..emitted'
          BY <3>1
        <4> QED
          BY <3>1, <4>1
      <3>4. ws' # "none" => Running'
        BY <3>1 DEF sessionVars, Running
      <3> QED
        BY <3>1, <3>2, <3>3, <3>4
    <2>5. ASSUME NEW f \in Frames, PassOver(f) \/ Publish(f)
          PROVE  TypeOK'
      <3>1. f \in inbox
        BY <2>5 DEF PassOver, Publish, Turn, Oldest
      <3> QED
        BY <2>5, <3>1 DEF PassOver, Publish, sessionVars, Running
    <2>6. ASSUME NEW f \in Frames, Arrive(f)
          PROVE  TypeOK'
      <3>1. f \in outbox
        BY <2>6 DEF Arrive, Oldest
      <3>2. stored' \in Seq(heard \cap Tickers)
        BY <2>6, <3>1 DEF Arrive
      <3> QED
        BY <2>6, <3>2 DEF Arrive, feedVars, sessionVars, Running
    <2>7. CASE PublishReturns \/ PublishRaises
      BY <2>7 DEF PublishReturns, PublishRaises, feedVars, sessionVars, Running
    <2>8. CASE UNCHANGED vars
      BY <2>8 DEF vars, feedVars, sessionVars, Running
    <2> QED
      BY <2>1, <2>2, <2>3, <2>4, <2>5, <2>6, <2>7, <2>8 DEF Next
  <1>3. SessionInv => SessionTypeOK
    BY DEF SessionInv
  <1> QED
    BY <1>1, <1>2, <1>3, SessionAlways, PTL DEF Spec

-----------------------------------------------------------------------------
(* The way of a frame: what is in the stream is older than what is on its  *)
(* way to it, and that is older than what is still to be read.             *)
Ordered ==
    /\ \A i \in DOMAIN stored : \A f \in inbox \cup outbox : stored[i] < f
    /\ \A g \in outbox, f \in inbox : g < f

LEMMA FramesAreNumbers ==
    ASSUME TypeOK
    PROVE  /\ inbox \subseteq Nat /\ outbox \subseteq Nat
           /\ \A i \in DOMAIN stored : stored[i] \in 1..emitted
           /\ DOMAIN stored = 1..Len(stored) /\ Len(stored) \in Nat
  <1>1. heard \subseteq 1..emitted /\ emitted \in Nat
    BY DEF TypeOK
  <1>2. DOMAIN stored = 1..Len(stored) /\ Len(stored) \in Nat
    BY DEF TypeOK
  <1>3. \A i \in DOMAIN stored : stored[i] \in heard
    <2>1. stored \in Seq(heard)
      BY SeqMonotone DEF TypeOK
    <2> QED
      BY <2>1, <1>2
  <1>4. inbox \subseteq heard /\ outbox \subseteq heard
    BY DEF TypeOK
  <1>5. heard \subseteq Nat
    BY <1>1
  <1> QED
    BY <1>1, <1>2, <1>3, <1>4, <1>5, Zenon

LEMMA ArriveFacts ==
    ASSUME TypeOK, NEW f \in Frames, Arrive(f)
    PROVE  /\ f \in outbox /\ outbox' = outbox \ {f}
           /\ \A g \in outbox' : f < g
           /\ \/ stream /\ stored' = Append(stored, f)
              \/ ~stream /\ stored' = stored
           /\ UNCHANGED <<sessionVars, feedVars, publishing>>
  <1>1. f \in outbox /\ \A g \in outbox : f <= g
    BY DEF Arrive, Oldest
  <1>2. \A g \in outbox : g \in Nat
    BY FramesAreNumbers
  <1>3. \A g \in outbox \ {f} : f < g
    BY <1>1, <1>2
  <1> QED
    BY <1>1, <1>3 DEF Arrive

LEMMA OrderedStep ==
    ASSUME TypeOK, Ordered, [Next]_vars
    PROVE  Ordered'
  <1> USE DEF Ordered
  <1>0. SessionTypeOK
    BY DEF TypeOK
  <1>1. CASE (\E s \in Services : SetUp(s)) \/ Environment \/ LinkBreaks \/ LinkCloses
    BY <1>0, <1>1, ElsewhereFacts DEF feedVars
  <1>2. CASE IngestorDies \/ OpenFails \/ Leave
    BY <1>2 DEF IngestorDies, OpenFails, Leave, Die
  <1>3. CASE OpenSocket \/ CloseSocket \/ PublishReturns \/ PublishRaises
    BY <1>3 DEF OpenSocket, CloseSocket, PublishReturns, PublishRaises, feedVars
  <1>4. CASE Emit
    <2>1. /\ emitted' = emitted + 1 /\ inbox' \subseteq inbox \cup {emitted'}
          /\ UNCHANGED <<outbox, stored>>
      BY <1>4 DEF Emit
    <2>2. \A g \in outbox : g < emitted'
      BY <2>1 DEF TypeOK
    <2>3. \A i \in DOMAIN stored : stored[i] < emitted'
      BY <2>1, FramesAreNumbers DEF TypeOK
    <2> QED
      BY <2>1, <2>2, <2>3
  <1>5. ASSUME NEW f \in Frames, PassOver(f) \/ Publish(f)
        PROVE  Ordered'
    <2>1. /\ f \in inbox /\ inbox' = inbox \ {f}
          /\ outbox' \subseteq outbox \cup {f} /\ stored' = stored
      BY <1>5 DEF PassOver, Publish, Turn, Oldest
    <2>2. \A g \in inbox' : f < g
      BY <1>5, <2>1, FramesAreNumbers DEF PassOver, Publish, Turn, Oldest
    <2> QED
      BY <2>1, <2>2
  <1>6. ASSUME NEW f \in Frames, Arrive(f)
        PROVE  Ordered'
    <2>1. /\ f \in outbox /\ outbox' = outbox \ {f} /\ inbox' = inbox
          /\ \A g \in outbox' : f < g
          /\ \/ stored' = Append(stored, f)
             \/ stored' = stored
      BY <1>6, ArriveFacts DEF feedVars
    <2>2. \A g \in inbox : f < g
      BY <2>1
    <2>3. CASE stored' = Append(stored, f)
      <3>1. \A i \in DOMAIN stored' : stored'[i] = f \/ (i \in DOMAIN stored /\ stored'[i] = stored[i])
        BY <2>3, FramesAreNumbers DEF TypeOK
      <3> QED
        BY <2>1, <2>2, <3>1
    <2>4. CASE stored' = stored
      BY <2>1, <2>4
    <2> QED
      BY <2>1, <2>3, <2>4
  <1>7. CASE UNCHANGED vars
    BY <1>7 DEF vars, feedVars
  <1> QED
    BY <1>1, <1>2, <1>3, <1>4, <1>5, <1>6, <1>7 DEF Next

LEMMA OrderedAlways == Spec => []Ordered
  <1>1. Init => Ordered
    BY DEF Init, Ordered
  <1> QED
    BY <1>1, OrderedStep, TypeCorrect, PTL DEF Spec

(* A frame enters the stream at most once, and in the order of the feed,   *)
(* whatever times out, breaks, reconnects or starts again.                 *)
THEOREM Implementation == Spec => ImplementsAtMostOnce
  <1>1. Init => Promise!Init
    BY DEF Init, Promise!Init
  <1>2. TypeOK /\ Ordered /\ [Next]_vars => [Promise!Next]_(Promise!vars)
    <2> SUFFICES ASSUME TypeOK, Ordered, [Next]_vars
                 PROVE  [Promise!Next]_(Promise!vars)
      OBVIOUS
    <2>0. SessionTypeOK
      BY DEF TypeOK
    <2>1. CASE (\E s \in Services : SetUp(s)) \/ Environment \/ LinkBreaks \/ LinkCloses
      BY <2>0, <2>1, ElsewhereFacts DEF feedVars, Promise!vars
    <2>2. CASE IngestorDies \/ OpenFails \/ Leave
      BY <2>2 DEF IngestorDies, OpenFails, Leave, Die, Promise!vars
    <2>3. CASE OpenSocket \/ CloseSocket \/ PublishReturns \/ PublishRaises
      BY <2>3 DEF OpenSocket, CloseSocket, PublishReturns, PublishRaises, feedVars,
                  Promise!vars
    <2>4. CASE Emit
      BY <2>4 DEF Emit, Promise!Next, Promise!Emit
    <2>5. ASSUME NEW f \in Frames, PassOver(f) \/ Publish(f)
          PROVE  UNCHANGED Promise!vars
      BY <2>5 DEF PassOver, Publish, Promise!vars
    <2>6. ASSUME NEW f \in Frames, Arrive(f)
          PROVE  Promise!Store(f) \/ UNCHANGED Promise!vars
      <3>1. f \in outbox /\ f <= emitted
        <4>1. f \in outbox
          BY <2>6, ArriveFacts
        <4>2. outbox \subseteq heard /\ heard \subseteq 1..emitted /\ emitted \in Nat
          BY DEF TypeOK
        <4> QED
          BY <4>1, <4>2
      <3>2. /\ emitted' = emitted
            /\ stored' = Append(stored, f) \/ stored' = stored
        BY <2>6, ArriveFacts DEF feedVars
      <3>3. \A i \in DOMAIN stored : stored[i] < f
        BY <3>1 DEF Ordered
      <3> QED
        BY <3>1, <3>2, <3>3 DEF Promise!Store, Promise!vars
    <2>7. CASE UNCHANGED vars
      BY <2>7 DEF vars, feedVars, Promise!vars
    <2> QED
      BY <2>1, <2>2, <2>3, <2>4, <2>5, <2>6, <2>7 DEF Next, Promise!Next, Frames
  <1> QED
    BY <1>1, <1>2, TypeCorrect, OrderedAlways, PTL
      DEF Spec, ImplementsAtMostOnce, Promise!Spec

-----------------------------------------------------------------------------
(* Without a fault or an outage a service past connect has its connection. *)
Smooth ==
    faults = 0 /\ outages = 0 =>
        /\ serverUp
        /\ \A s \in Services : phase[s] \notin {"down", "connect"} => link[s] = "open"

(* No fault now means none before. *)
LEMMA FaultsGrow ==
    ASSUME SessionTypeOK, SessionNext \/ UNCHANGED sessionVars
    PROVE  /\ faults' = 0 => faults = 0 /\ ~Fault
           /\ outages' = 0 => outages = 0 /\ ~Outage
           /\ deleteExisting' = deleteExisting
  <1>1. (faults' = faults \/ Fault) /\ (outages' = outages \/ Outage)
    BY DEF SessionNext, Step, Connect, ConnectGivesUp, LookFinds, LookFails,
           DeleteStream, CreateStream, CreateFails, Subscribe, SubscribeFails,
           Restart, Answered, Unanswered, Crash, Reconnect, GiveUp, Ends,
           Outage, ServerBack, FaultOnly, sessionVars
  <1>2. deleteExisting' = deleteExisting
    BY DEF SessionNext, Step, Connect, ConnectGivesUp, LookFinds, LookFails,
           DeleteStream, CreateStream, CreateFails, Subscribe, SubscribeFails,
           Restart, Crash, Reconnect, GiveUp, Ends, Outage, ServerBack,
           FaultOnly, sessionVars
  <1>3. faults \in Nat /\ outages \in Nat
    BY DEF SessionTypeOK
  <1> QED
    BY <1>1, <1>2, <1>3 DEF Fault, Outage

LEMMA SmoothStep ==
    ASSUME SessionTypeOK, Smooth, SessionNext \/ UNCHANGED sessionVars
    PROVE  Smooth'
  <1> SUFFICES ASSUME faults' = 0, outages' = 0
               PROVE  /\ serverUp'
                      /\ \A s \in Services : phase'[s] \notin {"down", "connect"}
                                                => link'[s] = "open"
    BY DEF Smooth
  <1>0. /\ serverUp /\ ~Fault /\ ~Outage
        /\ \A s \in Services : phase[s] \notin {"down", "connect"} => link[s] = "open"
        /\ phase \in [Services -> Phases] /\ link \in [Services -> Links]
    BY FaultsGrow DEF Smooth, SessionTypeOK
  <1>1. ASSUME NEW s \in Services, Step(s)
        PROVE  /\ serverUp' = serverUp
               /\ \/ /\ phase[s] \notin {"down", "connect"} /\ link' = link
                     /\ \E p \in Phases : phase' = [phase EXCEPT ![s] = p]
                  \/ phase' = [phase EXCEPT ![s] = "look"] /\ link' = [link EXCEPT ![s] = "open"]
                  \/ phase' = [phase EXCEPT ![s] = "down"] /\ link' = [link EXCEPT ![s] = "none"]
                  \/ phase' = [phase EXCEPT ![s] = "connect"] /\ link' = link
    <2>1. CASE Connect(s) \/ ConnectGivesUp(s) \/ Restart(s)
      BY <2>1 DEF Connect, ConnectGivesUp, Restart, Exit, Goto, serverVars
    <2>2. CASE LookFinds(s) \/ LookFails(s) \/ Subscribe(s)
      BY <2>2 DEF LookFinds, LookFails, Subscribe, GoOn, Goto, Phases, serverVars
    <2>3. CASE DeleteStream(s) \/ CreateStream(s)
      BY <2>3 DEF DeleteStream, CreateStream, Deleted, Created, GoOn, Goto, Phases,
                  serverVars
    <2>4. CASE CreateFails(s) \/ SubscribeFails(s)
      BY <2>4 DEF CreateFails, SubscribeFails, Created, Exit, Goto, serverVars
    <2> QED
      BY <1>1, <2>1, <2>2, <2>3, <2>4 DEF Step
  <1>2. ASSUME NEW s \in Services, Step(s)
        PROVE  /\ serverUp'
               /\ \A t \in Services : phase'[t] \notin {"down", "connect"}
                                         => link'[t] = "open"
    BY <1>0, <1>1, <1>2
  <1>3. ASSUME NEW s \in Services, Ends(s)
        PROVE  /\ serverUp'
               /\ \A t \in Services : phase'[t] \notin {"down", "connect"}
                                         => link'[t] = "open"
    BY <1>0, <1>3 DEF Ends, Exit, Goto, serverVars
  <1>4. ASSUME NEW s \in Services, Reconnect(s)
        PROVE  /\ serverUp'
               /\ \A t \in Services : phase'[t] \notin {"down", "connect"}
                                         => link'[t] = "open"
    BY <1>0, <1>4 DEF Reconnect, serverVars
  <1>5. CASE ServerBack \/ UNCHANGED sessionVars
    BY <1>0, <1>5 DEF ServerBack, sessionVars, serverVars
  <1> QED
    BY <1>0, <1>2, <1>3, <1>4, <1>5 DEF SessionNext, Crash, GiveUp, FaultOnly

(* What is in the process needs its loop; in the buffer of the client is   *)
(* at most the tick whose publish waits; nothing that came in is missing.  *)
Lossless ==
    /\ inbox # {} \/ publishing # NoFrame => Running
    /\ faults = 0 /\ outages = 0 /\ ~deleteExisting =>
            /\ outbox \subseteq {publishing}
            /\ heard \cap Tickers \subseteq inbox \cup outbox \cup Range(stored)

LEMMA LosslessStep ==
    ASSUME TypeOK, SessionInv, Ordered, Smooth, Lossless, [Next]_vars
    PROVE  Lossless'
  <1>0. SessionNext \/ UNCHANGED sessionVars
    BY IsSessionStep
  <1>1. /\ faults' = 0 => faults = 0 /\ ~Fault
        /\ outages' = 0 => outages = 0 /\ ~Outage
        /\ deleteExisting' = deleteExisting
    BY <1>0, FaultsGrow DEF TypeOK
  <1>2. NoFrame \notin outbox
    BY FramesAreNumbers DEF TypeOK, NoFrame
  <1>3. faults = 0 /\ outages = 0 => serverUp /\ (Running => link[Self] = "open")
    BY SelfIsService DEF Smooth, Running
  <1>4. CASE (\E s \in Services : SetUp(s)) \/ Environment
    <2>1. Elsewhere /\ (Running => Running')
      BY <1>4, ElsewhereFacts DEF SetUp, Environment, TypeOK
    <2> QED
      BY <1>1, <2>1 DEF Elsewhere, Lossless, feedVars
  <1>5. CASE LinkBreaks \/ LinkCloses
    <2>1. UNCHANGED <<inbox, publishing>> /\ (Running => Running')
      BY <1>5, ElsewhereFacts DEF TypeOK, feedVars
    <2>2. ~(faults' = 0 /\ outages' = 0)
      BY <1>1, <1>3, <1>5 DEF LinkBreaks, LinkCloses, GiveUp
    <2> QED
      BY <2>1, <2>2 DEF Lossless
  <1>6. CASE IngestorDies \/ OpenFails
    BY <1>1, <1>6 DEF IngestorDies, OpenFails, Crash, Die, Lossless
  <1>7. CASE Leave
    BY <1>1, <1>2, <1>7 DEF Leave, Die, Lossless
  <1>8. CASE OpenSocket \/ CloseSocket
    BY <1>8 DEF OpenSocket, CloseSocket, Lossless, sessionVars, Running
  <1>9. CASE Emit
    <2>1. UNCHANGED <<sessionVars, publishing, outbox, stored>>
      BY <1>9 DEF Emit
    <2>2. \/ ws = "open" /\ inbox' = inbox \cup {emitted'} /\ heard' = heard \cup {emitted'}
          \/ UNCHANGED <<inbox, heard>>
      BY <1>9 DEF Emit
    <2> QED
      BY <2>1, <2>2 DEF Lossless, TypeOK, sessionVars, Running
  <1>10. ASSUME NEW f \in Frames, PassOver(f)
         PROVE  Lossless'
    BY <1>10 DEF PassOver, Turn, Oldest, Lossless, sessionVars, Running
  <1>11. ASSUME NEW f \in Frames, Publish(f)
         PROVE  Lossless'
    <2>1. /\ f \in inbox /\ publishing = NoFrame /\ inbox' = inbox \ {f}
          /\ publishing' = f /\ UNCHANGED <<sessionVars, heard, stored>>
          /\ link[Self] = "open" => outbox' = outbox \cup {f}
      BY <1>11 DEF Publish, Turn, Oldest
    <2>2. Running /\ Running'
      BY <2>1 DEF Lossless, sessionVars, Running
    <2> QED
      BY <1>2, <1>3, <2>1, <2>2 DEF Lossless, sessionVars
  <1>12. ASSUME NEW f \in Frames, Arrive(f)
         PROVE  Lossless'
    <2>1. /\ f \in outbox /\ outbox' = outbox \ {f}
          /\ stream => stored' = Append(stored, f)
          /\ UNCHANGED <<sessionVars, feedVars, publishing>>
      BY <1>12, ArriveFacts
    <2>2. faults = 0 /\ outages = 0 /\ ~deleteExisting => stream
      BY <1>2, <2>1, SelfIsService DEF Lossless, SessionInv, Placed, Running
    <2>3. stored' = Append(stored, f) => Range(stored') = Range(stored) \cup {f}
      <3>1. stored \in Seq(heard \cap Tickers)
        BY DEF TypeOK
      <3> QED
        BY <3>1 DEF Range
    <2> QED
      BY <2>1, <2>2, <2>3 DEF Lossless, sessionVars, feedVars, Running
  <1>13. CASE PublishReturns
    <2>1. publishing \notin outbox
      <3>1. PICK i \in DOMAIN stored : publishing = stored[i]
        BY <1>13 DEF PublishReturns, Range
      <3>2. stored[i] \in Nat
        BY FramesAreNumbers DEF TypeOK
      <3> QED
        BY <3>1, <3>2 DEF Ordered
    <2> QED
      BY <1>13, <2>1 DEF PublishReturns, Lossless, sessionVars, feedVars, Running
  <1>14. CASE PublishRaises
    <2>1. /\ publishing # NoFrame /\ publishing' = NoFrame
          /\ UNCHANGED <<phase, feedVars, outbox, stored>>
          /\ Unconfirmed
      BY <1>14 DEF PublishRaises
    <2>2. faults' = 0 /\ outages' = 0 => publishing \notin outbox
      BY <1>1, <1>3, <2>1 DEF Unconfirmed, Lossless
    <2> QED
      BY <1>1, <2>1, <2>2 DEF Lossless, feedVars, Running
  <1>15. CASE UNCHANGED vars
    BY <1>15 DEF vars, Lossless, sessionVars, feedVars, Running
  <1> QED
    BY <1>4, <1>5, <1>6, <1>7, <1>8, <1>9, <1>10, <1>11, <1>12, <1>13, <1>14, <1>15
      DEF Next

(* No order in which the services set the stream up, and no socket that    *)
(* closes, loses a ticker that came in.                                    *)
THEOREM NoLossWithoutFault == Spec => []LossNeedsFault
  <1>1. Init => Smooth /\ Lossless
    BY DEF Init, SessionInit, Smooth, Lossless, NoFrame
  <1>2. TypeOK /\ Smooth /\ [Next]_vars => Smooth'
    BY IsSessionStep, SmoothStep DEF TypeOK
  <1>3. TypeOK /\ SessionInv /\ Ordered /\ Smooth /\ Lossless /\ [Next]_vars => Lossless'
    BY LosslessStep
  <1>4. Lossless => LossNeedsFault
    BY DEF Lossless, LossNeedsFault
  <1> QED
    BY <1>1, <1>2, <1>3, <1>4, TypeCorrect, SessionAlways, OrderedAlways, PTL DEF Spec

=============================================================================
