------------------------------ MODULE Ingestor ------------------------------
(***************************************************************************)
(* The ingestor (src/services/ingestor/app.py) among the services that set *)
(* up the stream: start() connects as Session says, then its websocket     *)
(* loop takes the frames of Coinbase one after the other and publishes     *)
(* those that are tickers.  When the socket closes the loop ends, and with *)
(* it the process.                                                         *)
(*                                                                         *)
(* publish_tick runs without a pause until the tick is in the buffer of    *)
(* the NATS client; then it waits for the confirmation of the server.      *)
(* Frames are numbered in the order in which Coinbase sends them.  The     *)
(* statistics are left out.                                                *)
(***************************************************************************)
EXTENDS Session, Sequences, Functions

CONSTANTS
    Self,       \* the ingestor
    Tickers,    \* the frames that are tickers and transform
    MaxFrames   \* bound: frames of the feed

ASSUME IngestorAssumption ==
    /\ Self \in Services \ Subscribers
    /\ MaxFrames \in Nat
    /\ Tickers \subseteq 1..MaxFrames

VARIABLES
    emitted,     \* frames of the feed so far
    ws,          \* the websocket: none, open, or closed at the other end
    inbox,       \* the frames in its buffer
    publishing,  \* the tick whose publish_tick waits, or NoFrame
    outbox,      \* the ticks in the buffer of the NATS client
    stored,      \* the ticks in the stream, in the order of the stream
    heard        \* history: the frames that came in

feedVars == <<emitted, ws, inbox, heard>>
vars == <<sessionVars, feedVars, publishing, outbox, stored>>

NoFrame == 0
Frames == 1..MaxFrames

Oldest(S) == {f \in S : \A g \in S : f <= g}

Running == phase[Self] = "run"

Init ==
    /\ SessionInit
    /\ emitted = 0
    /\ ws = "none"
    /\ inbox = {}
    /\ publishing = NoFrame
    /\ outbox = {}
    /\ stored = << >>
    /\ heard = {}

-----------------------------------------------------------------------------
(* The steps of Session, with what they mean to the ingestor.              *)

(* The process ends: the socket, the frames and the ticks in it are gone.  *)
Die ==
    /\ ws' = "none"
    /\ inbox' = {}
    /\ publishing' = NoFrame
    /\ outbox' = {}
    /\ UNCHANGED <<emitted, stored, heard>>

Elsewhere == UNCHANGED <<feedVars, publishing, outbox, stored>>

SetUp(s) == Step(s) /\ Elsewhere

Environment ==
    /\ \/ ServerBack
       \/ \E s \in Services : Reconnect(s)
       \/ \E s \in Services \ {Self} : Crash(s) \/ GiveUp(s)
    /\ Elsewhere

(* What was on its way to the server is lost, what was still in the buffer *)
(* stays there.                                                            *)
LinkBreaks ==
    /\ Outage
    /\ \E k \in 0..MaxFrames : outbox' = {f \in outbox : f > k}
    /\ UNCHANGED <<feedVars, publishing, stored>>

LinkCloses ==
    /\ GiveUp(Self)
    /\ outbox' = {}
    /\ UNCHANGED <<feedVars, publishing, stored>>

IngestorDies == Crash(Self) /\ Die

-----------------------------------------------------------------------------
(* Coinbase and the websocket.                                             *)

(* A bug the properties must notice: the socket is opened while the        *)
(* connection to the broker is under way.                                  *)
OpenEarly ==
    /\ phase[Self] # "down"
    /\ ws = "none"
    /\ ws' = "open"
    /\ UNCHANGED <<sessionVars, emitted, inbox, heard, publishing, outbox, stored>>

(* websockets.connect and the subscription. *)
OpenSocket ==
    /\ Running
    /\ ws = "none"
    /\ ws' = "open"
    /\ UNCHANGED <<sessionVars, emitted, inbox, heard, publishing, outbox, stored>>

(* It fails: the exception is logged, and the loop and the process end. *)
OpenFails ==
    /\ Running
    /\ ws = "none"
    /\ Fault
    /\ Exit(Self)
    /\ Die
    /\ UNCHANGED <<deleteExisting, serverVars, outages>>

(* A frame that comes while there is no socket is missed. *)
Emit ==
    /\ emitted < MaxFrames
    /\ emitted' = emitted + 1
    /\ IF ws = "open" THEN /\ inbox' = inbox \cup {emitted'}
                           /\ heard' = heard \cup {emitted'}
                      ELSE UNCHANGED <<inbox, heard>>
    /\ UNCHANGED <<sessionVars, ws, publishing, outbox, stored>>

(* The frames that came before are still there to be read. *)
CloseSocket ==
    /\ ws = "open"
    /\ ws' = "closed"
    /\ UNCHANGED <<sessionVars, emitted, inbox, heard, publishing, outbox, stored>>

(* Another: the loop stops, whatever is still to be read. *)
LeaveAtOnce ==
    /\ ws = "closed"
    /\ Exit(Self)
    /\ Die
    /\ UNCHANGED <<deleteExisting, serverVars, outages, faults>>

(* Another: the loop ends, and the health server keeps the process alive. *)
Linger ==
    /\ ws = "closed" /\ inbox = {} /\ publishing = NoFrame
    /\ UNCHANGED vars

(* The `async for` ends, _websocket_loop returns, main() stops the broker  *)
(* and ends.                                                               *)
Leave ==
    /\ ws = "closed" /\ inbox = {} /\ publishing = NoFrame
    /\ Exit(Self)
    /\ Die
    /\ UNCHANGED <<deleteExisting, serverVars, outages, faults>>

-----------------------------------------------------------------------------
(* _process_message and _process_ticker.                                   *)

(* The loop comes to frame f. *)
Turn(f) == publishing = NoFrame /\ f \in Oldest(inbox)

(* A confirmation of the subscription, a heartbeat, a frame of an unknown  *)
(* type, no JSON at all, or a ticker that lacks a field: nothing happens.  *)
PassOver(f) ==
    /\ Turn(f)
    /\ f \notin Tickers
    /\ inbox' = inbox \ {f}
    /\ UNCHANGED <<sessionVars, emitted, ws, heard, publishing, outbox, stored>>

(* publish_tick up to its wait.  Without a connection the client keeps the *)
(* tick for the time after, unless it has given up or its buffer is full.  *)
Publish(f) ==
    /\ Turn(f)
    /\ f \in Tickers
    /\ inbox' = inbox \ {f}
    /\ publishing' = f
    /\ \/ link[Self] # "closed" /\ outbox' = outbox \cup {f}
       \/ link[Self] # "open" /\ outbox' = outbox
    /\ UNCHANGED <<sessionVars, emitted, ws, heard, stored>>

(* The server gets the tick and stores it, if there is a stream. *)
Arrive(f) ==
    /\ link[Self] = "open"
    /\ f \in Oldest(outbox)
    /\ outbox' = outbox \ {f}
    /\ stored' = IF stream THEN Append(stored, f) ELSE stored
    /\ UNCHANGED <<sessionVars, feedVars, publishing>>

(* publish_tick returns. *)
PublishReturns ==
    /\ publishing \in Range(stored)
    /\ publishing' = NoFrame
    /\ UNCHANGED <<sessionVars, feedVars, outbox, stored>>

Unconfirmed ==
    \/ publishing \notin outbox \cup Range(stored) /\ UNCHANGED faults
    \/ link[Self] # "open" /\ UNCHANGED faults
    \/ Fault

(* Another: a publish that failed is tried again. *)
RetryPublish ==
    /\ publishing # NoFrame
    /\ Unconfirmed
    /\ publishing' = NoFrame
    /\ inbox' = inbox \cup {publishing}
    /\ UNCHANGED <<deleteExisting, serverVars, phase, link, outages, emitted,
                   ws, heard, outbox, stored>>

(* It raises: the tick was lost on its way, or the confirmation is late or *)
(* lost.  The exception is logged, the tick is not published again.        *)
PublishRaises ==
    /\ publishing # NoFrame
    /\ Unconfirmed
    /\ publishing' = NoFrame
    /\ UNCHANGED <<deleteExisting, serverVars, phase, link, outages, feedVars,
                   outbox, stored>>

-----------------------------------------------------------------------------
Next ==
    \/ \E s \in Services : SetUp(s)
    \/ Environment \/ LinkBreaks \/ LinkCloses \/ IngestorDies
    \/ OpenSocket \/ OpenFails \/ Emit \/ CloseSocket \/ Leave
    \/ \E f \in Frames : PassOver(f) \/ Publish(f) \/ Arrive(f)
    \/ PublishReturns \/ PublishRaises

Spec == Init /\ [][Next]_vars

(* The event loops run, a request is answered or fails, Kubernetes         *)
(* restarts the server and the pods, and the clients reconnect.            *)
Fairness ==
    /\ WF_vars(ServerBack /\ Elsewhere)
    /\ \A s \in Services : /\ WF_vars(SetUp(s))
                           /\ WF_vars(Reconnect(s) /\ Elsewhere)
    /\ WF_vars(OpenSocket \/ OpenFails)
    /\ WF_vars(Leave)
    /\ \A f \in Frames : WF_vars(PassOver(f) \/ Publish(f)) /\ WF_vars(Arrive(f))
    /\ WF_vars(PublishReturns \/ PublishRaises)

FairSpec == Spec /\ Fairness

-----------------------------------------------------------------------------
(* The types; there is a socket only in the loop, and what is in the       *)
(* process came in through it.                                             *)
TypeOK ==
    /\ SessionTypeOK
    /\ emitted \in 0..MaxFrames
    /\ ws \in {"none", "open", "closed"}
    /\ ws # "none" => Running
    /\ inbox \subseteq heard
    /\ publishing \in {NoFrame} \cup (heard \cap Tickers)
    /\ outbox \subseteq heard \cap Tickers
    /\ stored \in Seq(heard \cap Tickers)
    /\ heard \subseteq 1..emitted

(* The frames enter the stream at most once and in their order, though     *)
(* publishes time out, ticks wait in the client for a reconnection, and    *)
(* the process starts again: that is why a failed publish is not repeated. *)
Promise == INSTANCE AtMostOnce

ImplementsAtMostOnce == Promise!Spec

(* A ticker that came in is lost only if something failed: no order in     *)
(* which the services set up the stream, and no socket that closes, loses  *)
(* one.                                                                    *)
LossNeedsFault ==
    faults = 0 /\ outages = 0 /\ ~deleteExisting =>
        heard \cap Tickers \subseteq inbox \cup outbox \cup Range(stored)

(* The feed comes back, whatever closed it: the process ends and starts    *)
(* anew.                                                                   *)
FeedResumes == ~deleteExisting => (ws # "open" ~> ws = "open")

=============================================================================
