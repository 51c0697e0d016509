--------------------------- MODULE MCRateLimiter ---------------------------
(***************************************************************************)
(* 200 tokens per second and a burst of 2, time in units of 25 us: a token *)
(* takes 5 ms (200 units) to earn.  A step of 199 units earns exactly the  *)
(* tolerated 0.995 of a token, one of 40 a fifth of a token; 520 units are *)
(* more than two refills of an empty bucket.                               *)
(***************************************************************************)
EXTENDS RateLimiter

MCSteps     == {40, 199}
MCStepBacks == {80}

=============================================================================
