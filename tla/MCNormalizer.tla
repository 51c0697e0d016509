---------------------------- MODULE MCNormalizer ----------------------------
(***************************************************************************)
(* Two ticks of the feed at a time: a tick with two sides, one with a      *)
(* crossed book and one without a quote whose trade has no price.  Both    *)
(* configurations of output_stream: a stream of its own, and the one the   *)
(* shipped configuration names, which is the input stream.                 *)
(***************************************************************************)
EXTENDS Normalizer

Tick(seq, trade, bid, ask) ==
    [product |-> "BTC-USD", seq |-> seq, trade |-> trade, bid |-> bid, ask |-> ask]

MCStreams       == {"raw", "normalized"}
MCOutputStreams == {"raw", "normalized"}
MCFeed          == {Tick(1, 1, 1, 2), Tick(2, 1, 2, 1), Tick(3, 0, None, None)}

(* The shipped configuration. *)
Shipped == {"raw"}

=============================================================================
