--------------------------- MODULE MCSnapshotter ---------------------------
(***************************************************************************)
(* Two ticks, in one batch or two: two of one product, with a side in      *)
(* common and one of its own each, their numbers rising or falling along   *)
(* the shard; or one of either of two products.  One fault of the loop and *)
(* one of the store, alone or one upon the other.                          *)
(***************************************************************************)
EXTENDS Snapshotter

Tick(product, seq, sides) == [product |-> product, seq |-> seq, sides |-> sides]

MCProducts == {"BTC-USD", "ETH-USD"}
MCSides    == {"last_trade", "best_bid", "best_ask"}
Bid(seq)   == Tick("BTC-USD", seq, {"last_trade", "best_bid"})
Ask(seq)   == Tick("BTC-USD", seq, {"last_trade", "best_ask"})
MCShards   == {<<Bid(1), Ask(2)>>, <<Bid(2), Ask(1)>>,
               <<Bid(1), Tick("ETH-USD", 1, {"last_trade"})>>}

=============================================================================
