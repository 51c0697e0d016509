----------------------------- MODULE MCGateway -----------------------------
(***************************************************************************)
(* Three connections ever: two clients of a broadcast and a third that can *)
(* take the place of one of them, before or behind the iterator.           *)
(***************************************************************************)
EXTENDS Gateway

MCProducts == {"BTC-USD"}
MCRequests == {<<"BTC-USD">>}

=============================================================================
