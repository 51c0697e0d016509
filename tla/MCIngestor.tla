---- MODULE MCIngestor ----
(* The ingestor with one reader of the stream, a gateway; three frames,    *)
(* the second of which is no ticker.                                       *)
EXTENDS Ingestor

CONSTANTS ingestor, gateway

MCServices    == {ingestor, gateway}
MCSubscribers == {gateway}
MCTickers     == {1, 3}
MCBoth        == BOOLEAN
====
