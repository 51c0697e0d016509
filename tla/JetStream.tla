----------------------------- MODULE JetStream -----------------------------
(***************************************************************************)
(* The part of a NATS JetStream server that the services rely on, as they  *)
(* use it (src/services/common/stream.py): a stream keeps, per subject,    *)
(* the messages published to it in order, numbered here from 1; a durable  *)
(* pull consumer remembers what it delivered and what was acknowledged,    *)
(* delivers every message, and delivers again, before anything new, what   *)
(* was not acknowledged within the ack wait (30 s by default) and without  *)
(* a limit on the number of deliveries.                                    *)
(*                                                                         *)
(* These are operators on the record of one consumer: the modules of the   *)
(* services own the variables.                                             *)
(***************************************************************************)
EXTENDS Naturals, FiniteSets

(* Messages are numbered from 1. *)
NoMsg == 0

(* pending: delivered and waiting for an ack; due: their wait ran out, to  *)
(* be delivered again; acked: acknowledged, never delivered again.         *)
Consumers(Msg) ==
    [pending : SUBSET Msg, due : SUBSET Msg, acked : SUBSET Msg]

(* pull_subscribe(durable=...) on a name the server does not know: the     *)
(* consumer starts at the first message of the subject.                    *)
NewConsumer == [pending |-> {}, due |-> {}, acked |-> {}]

(* A bug the properties must notice: a consumer that forgets what was not  *)
(* acknowledged in time.                                                   *)
NewOnly(con, last) == (1..last) \ (con.pending \cup con.due \cup con.acked)

(* What a fetch may deliver of a subject that holds the messages 1..last.  *)
Available(con, last) == (1..last) \ (con.pending \cup con.acked)

(* A fetch delivers at least one and at most `size` messages: those due    *)
(* first, in the order in which their waits ran out, and then the oldest   *)
(* new ones.                                                               *)
Batches(con, last, size) ==
    {B \in SUBSET Available(con, last) :
        /\ B # {}
        /\ Cardinality(B) <= size
        /\ B \ con.due # {} => con.due \subseteq B
        /\ \A m \in B \ con.due, k \in Available(con, last) :
                k < m => k \in B}

(* The messages of a batch that may come next in it; `again` are those     *)
(* that were due when it was fetched, whose order is not known here.       *)
NextOf(batch, again) ==
    {m \in batch : \/ m \in again
                   \/ batch \cap again = {} /\ \A k \in batch : m <= k}

(* Another: a redelivered message stays on the list of those due. *)
DeliverKeepingDue(con, B) ==
    [con EXCEPT !.pending = @ \cup B]

Deliver(con, B) ==
    [con EXCEPT !.pending = @ \cup B, !.due = @ \ B]

(* An ack counts even if it comes after the ack wait. *)
AckMessage(con, m) ==
    [con EXCEPT !.pending = @ \ {m}, !.due = @ \ {m}, !.acked = @ \cup {m}]

(* The ack wait of m runs out. *)
Expire(con, m) ==
    [con EXCEPT !.pending = @ \ {m}, !.due = @ \cup {m}]

=============================================================================
