----------------------------- MODULE MCDelivery -----------------------------
(***************************************************************************)
(* Two ticks: one on either side of a subscription, or of the read of its  *)
(* snapshot, the first of them perhaps delivered again after the second;   *)
(* their numbers rise or fall along the shard.                             *)
(***************************************************************************)
EXTENDS Delivery

MCNumberings == {<<1, 2>>, <<2, 1>>}

=============================================================================
