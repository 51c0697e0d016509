------------------------------ MODULE Session ------------------------------
(***************************************************************************)
(* From the start of a service to its work on the stream: NATSStreamManager*)
(* .connect of src/services/common/stream.py, which every service calls    *)
(* and in which it looks for the stream, may delete it and creates it; the *)
(* subscription that follows; the end of main() when one of them fails,    *)
(* after which Kubernetes starts the process again; and the connection of  *)
(* the NATS client (nats-py, external), which reconnects by itself after   *)
(* an outage of the server, but not without limit.                         *)
(*                                                                         *)
(* The services run connect at the same time: each await of it is an       *)
(* action.                                                                 *)
(***************************************************************************)
EXTENDS Naturals

CONSTANTS
    Services,        \* the processes
    Subscribers,     \* those that read a shard through a durable consumer
    DeleteExisting,  \* the values delete_existing is configured with
    MaxOutages,      \* bound: outages of the server
    MaxFaults        \* bound: crashes and requests that fail

ASSUME SessionAssumption ==
    /\ Subscribers \subseteq Services
    /\ DeleteExisting \subseteq BOOLEAN
    /\ MaxOutages \in Nat /\ MaxFaults \in Nat

VARIABLES
    deleteExisting,  \* config.delete_existing
    serverUp,        \* the server runs
    stream,          \* it has the stream (on disk, an outage keeps it)
    consumers,       \* the services whose durable consumer it has
    phase,           \* where each service is: down, at a step of connect, at
                     \* its subscription, or in its loop
    link,            \* its connection: none, open, lost (the client tries to
                     \* reconnect) or closed (it no longer does)
    outages, faults  \* so far

serverVars == <<serverUp, stream, consumers>>
sessionVars == <<deleteExisting, serverVars, phase, link, outages, faults>>

Phases == {"down", "connect", "look", "delete", "create", "subscribe", "run"}
Links  == {"none", "open", "lost", "closed"}

Fault ==
    /\ faults < MaxFaults
    /\ faults' = faults + 1

SessionInit ==
    /\ deleteExisting \in DeleteExisting
    /\ serverUp = TRUE
    /\ stream \in BOOLEAN
    /\ consumers = {}
    /\ phase = [s \in Services |-> "connect"]
    /\ link = [s \in Services |-> "none"]
    /\ outages = 0
    /\ faults = 0

-----------------------------------------------------------------------------
(* What the steps have in common.                                          *)

Goto(s, p) == phase' = [phase EXCEPT ![s] = p]

(* connect returned: a subscriber subscribes, the ingestor has nothing to. *)
GoOn(s) == Goto(s, IF s \in Subscribers THEN "subscribe" ELSE "run")

(* A bug the properties must notice: main() carries on without connection. *)
CarryOn(s) ==
    /\ Goto(s, "run")
    /\ link' = [link EXCEPT ![s] = "none"]

(* The exception ends main(), which closes the connection; or the process  *)
(* dies.                                                                   *)
Exit(s) ==
    /\ Goto(s, "down")
    /\ link' = [link EXCEPT ![s] = "none"]

(* A request to the server is answered, or fails: without a connection, or *)
(* with one but too late.                                                  *)
Answered(s) == link[s] = "open" /\ UNCHANGED faults
Unanswered(s) ==
    \/ link[s] # "open" /\ UNCHANGED faults
    \/ link[s] = "open" /\ Fault

-----------------------------------------------------------------------------
(* connect.                                                                *)

Connect(s) ==
    /\ phase[s] = "connect"
    /\ serverUp
    /\ link' = [link EXCEPT ![s] = "open"]
    /\ Goto(s, "look")
    /\ UNCHANGED <<deleteExisting, serverVars, outages, faults>>

(* No attempt succeeds until the timeout. *)
ConnectGivesUp(s) ==
    /\ phase[s] = "connect"
    /\ ~serverUp
    /\ Exit(s)
    /\ UNCHANGED <<deleteExisting, serverVars, outages, faults>>

(* stream_info finds the stream. *)
LookFinds(s) ==
    /\ phase[s] = "look"
    /\ stream /\ Answered(s)
    /\ GoOn(s)
    /\ UNCHANGED <<deleteExisting, serverVars, link, outages>>

(* Another: a look that fails passes for one that found the stream. *)
LookFailsOn(s) ==
    /\ phase[s] = "look"
    /\ \/ ~stream /\ Answered(s)
       \/ Unanswered(s)
    /\ GoOn(s)
    /\ UNCHANGED <<deleteExisting, serverVars, link, outages>>

(* stream_info raises: there is no stream, or the request fails. *)
LookFails(s) ==
    /\ phase[s] = "look"
    /\ \/ ~stream /\ Answered(s)
       \/ Unanswered(s)
    /\ Goto(s, IF deleteExisting THEN "delete" ELSE "create")
    /\ UNCHANGED <<deleteExisting, serverVars, link, outages>>

(* The stream goes with its consumers. *)
Deleted == stream' = FALSE /\ consumers' = {} /\ UNCHANGED serverUp

Created == stream' = TRUE /\ UNCHANGED <<serverUp, consumers>>

(* delete_stream, whose exceptions are swallowed. *)
DeleteStream(s) ==
    /\ phase[s] = "delete"
    /\ \/ Answered(s) /\ Deleted
       \/ Unanswered(s) /\ UNCHANGED serverVars
       \/ link[s] = "open" /\ Fault /\ Deleted
    /\ Goto(s, "create")
    /\ UNCHANGED <<deleteExisting, link, outages>>

(* add_stream creates the stream; it exists already, which is as good. *)
CreateStream(s) ==
    /\ phase[s] = "create"
    /\ Answered(s) /\ Created
    /\ GoOn(s)
    /\ UNCHANGED <<deleteExisting, link, outages>>

(* Any other exception is raised. *)
CreateFails(s) ==
    /\ phase[s] = "create"
    /\ \/ Unanswered(s) /\ UNCHANGED serverVars
       \/ link[s] = "open" /\ Fault /\ Created
    /\ Exit(s)
    /\ UNCHANGED <<deleteExisting, outages>>

-----------------------------------------------------------------------------
(* pull_subscribe with the durable name, and the life after.               *)

Subscribe(s) ==
    /\ phase[s] = "subscribe"
    /\ stream /\ Answered(s)
    /\ consumers' = consumers \cup {s}
    /\ Goto(s, "run")
    /\ UNCHANGED <<deleteExisting, serverUp, stream, link, outages>>

(* There is no stream, or the request fails. *)
SubscribeFails(s) ==
    /\ phase[s] = "subscribe"
    /\ \/ ~stream /\ Answered(s) /\ UNCHANGED consumers
       \/ Unanswered(s) /\ UNCHANGED consumers
       \/ stream /\ link[s] = "open" /\ Fault /\ consumers' = consumers \cup {s}
    /\ Exit(s)
    /\ UNCHANGED <<deleteExisting, serverUp, stream, outages>>

(* Kubernetes restarts the pod. *)
Restart(s) ==
    /\ phase[s] = "down"
    /\ Goto(s, "connect")
    /\ UNCHANGED <<deleteExisting, serverVars, link, outages, faults>>

Crash(s) ==
    /\ phase[s] # "down"
    /\ Fault
    /\ Exit(s)
    /\ UNCHANGED <<deleteExisting, serverVars, outages>>

-----------------------------------------------------------------------------
(* The server and the client's connection to it.                           *)

Outage ==
    /\ serverUp
    /\ outages < MaxOutages
    /\ serverUp' = FALSE
    /\ outages' = outages + 1
    /\ link' = [s \in Services |-> IF link[s] = "open" THEN "lost" ELSE link[s]]
    /\ UNCHANGED <<deleteExisting, stream, consumers, phase, faults>>

ServerBack ==
    /\ ~serverUp
    /\ serverUp' = TRUE
    /\ UNCHANGED <<deleteExisting, stream, consumers, phase, link, outages, faults>>

Reconnect(s) ==
    /\ serverUp
    /\ link[s] = "lost"
    /\ link' = [link EXCEPT ![s] = "open"]
    /\ UNCHANGED <<deleteExisting, serverVars, phase, outages, faults>>

(* After max_reconnect_attempts (60 by default, 2 s apart) the client      *)
(* closes the connection for good.                                         *)
GiveUp(s) ==
    /\ ~serverUp
    /\ link[s] = "lost"
    /\ link' = [link EXCEPT ![s] = "closed"]
    /\ UNCHANGED <<deleteExisting, serverVars, phase, outages, faults>>

(* What a service does by itself on its way to its loop. *)
Step(s) ==
    \/ Connect(s) \/ ConnectGivesUp(s)
    \/ LookFinds(s) \/ LookFails(s)
    \/ DeleteStream(s)
    \/ CreateStream(s) \/ CreateFails(s)
    \/ Subscribe(s) \/ SubscribeFails(s)
    \/ Restart(s)

-----------------------------------------------------------------------------
SessionTypeOK ==
    /\ deleteExisting \in BOOLEAN
    /\ serverUp \in BOOLEAN
    /\ stream \in BOOLEAN
    /\ consumers \subseteq Services
    /\ phase \in [Services -> Phases]
    /\ link \in [Services -> Links]
    /\ \A s \in Services : link[s] = "open" => serverUp
    /\ outages \in 0..MaxOutages
    /\ faults \in 0..MaxFaults

(* However the looks and creates of the services interleave and fail,      *)
(* whichever of them die: without delete_existing a service in its loop    *)
(* has the stream, and its durable consumer on it.                         *)
RunsOnStream ==
    \A s \in Services :
        phase[s] = "run" /\ ~deleteExisting =>
            stream /\ (s \in Subscribers => s \in consumers)

(* A service at work on the stream. *)
Served(s) ==
    /\ phase[s] = "run"
    /\ link[s] = "open"
    /\ stream
    /\ s \in Subscribers => s \in consumers

(* The loop of a service whose client gave up: every call raises, the loop *)
(* logs it and sleeps, and nothing ends the process.                       *)
Stuck(s) == phase[s] = "run" /\ link[s] = "closed"

(* Without delete_existing every service gets to work again and again,     *)
(* whatever failed, unless it is stuck.                                    *)
EventuallyServed ==
    ~deleteExisting => \A s \in Services : []<>(Served(s) \/ Stuck(s))

(* What /ready answers: nats_connection is set before the routes are       *)
(* served, and nothing unsets it; likewise the flags of the others.        *)
Ready(s) == phase[s] = "run"

(* services/gateway/app.py, ready(): "Check if broker is connected".  A    *)
(* service that says it is ready has a connection, or one that its client  *)
(* is about to restore.                                                    *)
ReadyMeansConnected == \A s \in Subscribers : Ready(s) => link[s] # "closed"

=============================================================================
