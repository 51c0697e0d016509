---------------------------- MODULE RateLimiter ----------------------------
(***************************************************************************)
(* The token bucket every gateway connection owns (class RateLimiter of    *)
(* src/services/gateway/app.py).                                           *)
(*                                                                         *)
(* Time is counted in units of 1/Tick ms and a token in 1000 * Tick parts, *)
(* so that `elapsed * max_rate` is an integer: a unit of time at MaxRate   *)
(* tokens per second earns exactly MaxRate parts.  The clock is            *)
(* time.time(), which is not monotonic: it advances by any amount of Steps *)
(* and an administrator or NTP may set it back by an amount of StepBacks.  *)
(***************************************************************************)
EXTENDS Integers, Sequences

CONSTANTS
    Tick,       \* units of time in a millisecond
    MaxRate,    \* max_rate: tokens earned per second
    Burst,      \* burst: capacity of the bucket, in tokens
    Steps,      \* amounts the clock may advance by between two calls
    StepBacks,  \* amounts the clock may be set back by
    MaxNow,     \* bound: the clock never passes this reading
    MaxBack     \* bound: total amount the clock is set back

ASSUME TickAssumption  == Tick \in Nat \ {0}
ASSUME RateAssumption  == MaxRate \in Nat \ {0}
ASSUME BurstAssumption == Burst \in Nat \ {0}
ASSUME ClockAssumption == /\ Steps \subseteq Nat
                          /\ StepBacks \subseteq Nat
                          /\ MaxNow \in Nat
                          /\ MaxBack \in Nat

Token   == 1000 * Tick  \* one token
Epsilon == 5 * Tick     \* the tolerance of is_allowed: 0.005 token

VARIABLES
    tokens,     \* self.tokens
    lastUpdate, \* self.last_update
    now,        \* what time.time() returns
    granted,    \* history: the clock's reading at each call that was allowed
    promises,   \* history: when the refusals since the last grant said to retry
    back        \* history: total amount the clock was set back

vars == <<tokens, lastUpdate, now, granted, promises, back>>

(* A bug the properties must notice: the delay rounded to whole seconds. *)
RetryDelayInSeconds == 1000 * Tick * (1 \div MaxRate)

(* get_retry_delay: whole milliseconds, truncated, here in units of time. *)
RetryDelay == Tick * (1000 \div MaxRate)

(* The rates whose delay is not truncated: 100, the shipped one, is one of *)
(* them.  The others promise up to a millisecond too little.               *)
DelayExact == MaxRate * (1000 \div MaxRate) = 1000

Init ==
    /\ tokens = Burst * Token
    /\ lastUpdate = 0
    /\ now = 0
    /\ granted = << >>
    /\ promises = {}
    /\ back = 0

(* Another: a refill that forgets the capacity. *)
UncappedRefill == tokens + MaxRate * (now - lastUpdate)

(* The level min(burst, tokens + elapsed * max_rate) a call starts from. *)
Refilled ==
    LET earned == tokens + MaxRate * (now - lastUpdate)
    IN  IF earned < Burst * Token THEN earned ELSE Burst * Token

(* is_allowed returns True and spends a token. *)
Grant ==
    /\ Refilled >= Token - Epsilon
    /\ tokens' = Refilled - Token
    /\ lastUpdate' = now
    /\ granted' = Append(granted, now)
    /\ promises' = {}
    /\ UNCHANGED <<now, back>>

(* Another: a bucket that charges the calls it refuses. *)
ChargingRefuse ==
    /\ Refilled < Token - Epsilon
    /\ tokens' = Refilled - Token
    /\ lastUpdate' = now
    /\ promises' = promises \cup {now + RetryDelay + back}
    /\ UNCHANGED <<now, granted, back>>

(* is_allowed returns False; send_message answers with get_retry_delay(). *)
Refuse ==
    /\ Refilled < Token - Epsilon
    /\ tokens' = Refilled
    /\ lastUpdate' = now
    /\ promises' = promises \cup {now + RetryDelay + back}
    /\ UNCHANGED <<now, granted, back>>

Advance ==
    \E d \in Steps :
        /\ now + d <= MaxNow
        /\ now' = now + d
        /\ UNCHANGED <<tokens, lastUpdate, granted, promises, back>>

SetBack ==
    \E d \in StepBacks :
        /\ d <= now
        /\ back + d <= MaxBack
        /\ now' = now - d
        /\ back' = back + d
        /\ UNCHANGED <<tokens, lastUpdate, granted, promises>>

Next == Grant \/ Refuse \/ Advance \/ SetBack

Spec == Init /\ [][Next]_vars

-----------------------------------------------------------------------------
(* The types, with the capacity of the bucket: it never holds more than    *)
(* burst tokens, however long a client stays silent.                       *)
TypeOK ==
    /\ tokens \in Int
    /\ tokens <= Burst * Token
    /\ lastUpdate \in Nat
    /\ now \in Nat
    /\ granted \in Seq(Nat)
    /\ promises \subseteq Nat
    /\ back \in Nat

(* Between any two grants i and j of one connection the calls allowed are  *)
(* at most burst plus what the rate earned in between, plus the tolerance  *)
(* of 0.005 token once: the tolerance that is_allowed gives every call is  *)
(* taken from the bucket and never accumulates, and a clock set back is    *)
(* not earned again when it catches up.                                    *)
WindowBound ==
    \A i, j \in 1..Len(granted) :
        i <= j => (j - i + 1) * Token
                    <= Burst * Token + Epsilon + MaxRate * (granted[j] - granted[i])

(* The debt of a bucket: never below the tolerance, but for what a clock   *)
(* that was set back took away (is_allowed subtracts tokens for a negative *)
(* elapsed time).                                                          *)
DebtBounded == tokens >= -Epsilon - MaxRate * back

(* A client that waits retry_ms after a refusal, by the server's clock and *)
(* longer by what that clock was set back, is not refused again.  It holds *)
(* under DelayExact, as the run's rate and the shipped one do.             *)
RetryHonoured == [][Refuse => \A p \in promises : now < p]_vars

=============================================================================
