---------------------------- MODULE AtMostOnce ----------------------------
(***************************************************************************)
(* What the ingestor promises the rest of the system: a frame of the feed  *)
(* enters the stream once or never, and no frame enters behind a younger   *)
(* one.  Ingestor implements it.                                           *)
(***************************************************************************)
EXTENDS Naturals, Sequences

CONSTANT MaxFrames  \* bound: frames of the feed

VARIABLES
    emitted,  \* frames of the feed so far
    stored    \* the frames in the stream, in the order of the stream

vars == <<emitted, stored>>

Init == emitted = 0 /\ stored = << >>

Emit ==
    /\ emitted < MaxFrames
    /\ emitted' = emitted + 1
    /\ UNCHANGED stored

Store(f) ==
    /\ f <= emitted
    /\ \A i \in DOMAIN stored : stored[i] < f
    /\ stored' = Append(stored, f)
    /\ UNCHANGED emitted

Next == Emit \/ \E f \in 1..MaxFrames : Store(f)

Spec == Init /\ [][Next]_vars

=============================================================================
