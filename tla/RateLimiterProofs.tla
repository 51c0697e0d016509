------------------------- MODULE RateLimiterProofs -------------------------
(***************************************************************************)
(* Proofs about RateLimiter for every rate, burst and behaviour of the     *)
(* clock.                                                                  *)
(*                                                                         *)
(* None of the three properties is inductive.  What holds them up is one   *)
(* quantity, the level the bucket would have if it were refilled now:      *)
(* it pays for the grants of every window (WindowInv), it is bounded below *)
(* by what the clock took back (DebtInv), and a refusal leaves it on the   *)
(* line that reaches a token when the promised delay is over (PromiseInv). *)
(***************************************************************************)
EXTENDS RateLimiter, TLAPS

(* Every grant i so far, and the ones after it, were paid by the bucket at *)
(* grant i and the time since; what is left is still in the bucket.        *)
WindowInv ==
    \A i \in 1..Len(granted) :
        (Len(granted) - i + 1) * Token + tokens
            <= Burst * Token + MaxRate * (lastUpdate - granted[i])

(* The bucket, refilled now, owes at most the tolerance and what the clock *)
(* took back.                                                              *)
DebtInv ==
    tokens + MaxRate * (now - lastUpdate) >= -Epsilon - MaxRate * back

(* Refilled at the moment a refusal promised, the bucket holds enough.     *)
PromiseInv ==
    \A p \in promises :
        tokens + MaxRate * (p - lastUpdate) >= Token - Epsilon

(* What a rate earns from l to n and from g to l, it earns from g to n. *)
LEMMA Spans ==
    ASSUME NEW r \in Int, NEW n \in Int, NEW l \in Int, NEW g \in Int
    PROVE  /\ r * (n - l) \in Int /\ r * (l - g) \in Int /\ r * (n - g) \in Int
           /\ r * (n - l) + r * (l - g) = r * (n - g)
  OBVIOUS

(* The units, so that the proofs need not open them. *)
LEMMA Units ==
    /\ Token \in Int /\ Epsilon \in Int
    /\ 0 < Epsilon /\ Epsilon < Token
    /\ MaxRate \in Int /\ MaxRate > 0
    /\ Burst * Token \in Int /\ Token <= Burst * Token
  <1>1. Tick \in Int /\ 0 < Tick /\ Burst \in Int /\ 1 <= Burst
    BY TickAssumption, BurstAssumption
  <1>2. Token \in Int /\ 0 < Token /\ Epsilon \in Int /\ 0 < Epsilon /\ Epsilon < Token
    BY <1>1 DEF Token, Epsilon
  <1>3. Burst * Token \in Int /\ Token <= Burst * Token
    <2>1. \A b, t \in Int : 1 <= b /\ 0 < t => b * t \in Int /\ t <= b * t
      OBVIOUS
    <2> QED
      BY <1>1, <1>2, <2>1
  <1> QED
    BY <1>2, <1>3, RateAssumption

(* A refill never exceeds the capacity, nor what the elapsed time earned;  *)
(* when it is short of a token, the capacity did not matter.               *)
LEMMA RefillFacts ==
    ASSUME TypeOK
    PROVE  /\ Refilled \in Int
           /\ Refilled <= Burst * Token
           /\ Refilled <= tokens + MaxRate * (now - lastUpdate)
           /\ \/ Refilled = tokens + MaxRate * (now - lastUpdate)
              \/ Refilled = Burst * Token /\ Refilled >= Token
  <1> DEFINE earned == tokens + MaxRate * (now - lastUpdate)
  <1>1. earned \in Int
    BY Units DEF TypeOK
  <1>2. Burst * Token \in Int /\ Burst * Token >= Token
    BY Units
  <1>3. Refilled = IF earned < Burst * Token THEN earned ELSE Burst * Token
    BY DEF Refilled
  <1> HIDE DEF earned
  <1>4. /\ Refilled \in Int
        /\ Refilled <= Burst * Token
        /\ Refilled <= earned
        /\ Refilled = earned \/ (Refilled = Burst * Token /\ Refilled >= Token)
    BY <1>1, <1>2, <1>3, Units
  <1> QED
    BY <1>4 DEF earned

(* Type correctness, with the capacity: the bucket never holds more than   *)
(* burst tokens, whatever the clock does.                                  *)
THEOREM TypeCorrect == Spec => []TypeOK
  <1>1. Init => TypeOK
    BY Units DEF Init, TypeOK
  <1>2. TypeOK /\ [Next]_vars => TypeOK'
    <2> SUFFICES ASSUME TypeOK, [Next]_vars
                 PROVE  TypeOK'
      OBVIOUS
    <2> USE DEF TypeOK
    <2>1. CASE Grant
      <3>1. Refilled \in Int /\ Refilled <= Burst * Token
        BY RefillFacts
      <3>2. tokens' \in Int /\ tokens' <= Burst * Token
        BY <2>1, <3>1, Units DEF Grant
      <3> QED
        BY <2>1, <3>2 DEF Grant
    <2>2. CASE Refuse
      <3>1. RetryDelay \in Nat
        <4>1. 1000 \div MaxRate \in Nat
          BY RateAssumption
        <4> QED
          BY <4>1, TickAssumption DEF RetryDelay
      <3>2. Refilled \in Int /\ Refilled <= Burst * Token
        BY RefillFacts
      <3> QED
        BY <2>2, <3>1, <3>2 DEF Refuse
    <2>3. CASE Advance
      BY <2>3, ClockAssumption DEF Advance
    <2>4. CASE SetBack
      BY <2>4, ClockAssumption DEF SetBack
    <2>5. CASE UNCHANGED vars
      BY <2>5 DEF vars
    <2> QED
      BY <2>1, <2>2, <2>3, <2>4, <2>5 DEF Next
  <1> QED
    BY <1>1, <1>2, PTL DEF Spec

(* The payment of every window is preserved by every step. *)
LEMMA WindowStep ==
    ASSUME TypeOK, WindowInv, [Next]_vars
    PROVE  WindowInv'
  <1> USE DEF TypeOK
  <1> DEFINE Paid(i)    == (Len(granted) - i + 1) * Token
             Earned     == MaxRate * (now - lastUpdate)
             Span(i)    == MaxRate * (lastUpdate - granted[i])
             SpanNow(i) == MaxRate * (now - granted[i])
             Cap        == Burst * Token
  <1>1. /\ Earned \in Int /\ Cap \in Int /\ Token \in Int
        /\ Refilled \in Int /\ Refilled <= Cap /\ Refilled <= tokens + Earned
    BY RefillFacts, Units
  <1>2. ASSUME NEW i \in 1..Len(granted)
        PROVE  /\ Paid(i) \in Int /\ SpanNow(i) \in Int
               /\ Paid(i) + tokens + Earned <= Cap + SpanNow(i)
    <2>1. granted[i] \in Int
      BY <1>2
    <2>2. Span(i) \in Int /\ SpanNow(i) \in Int /\ Earned + Span(i) = SpanNow(i)
      BY <2>1, Spans, Units
    <2>3. Paid(i) \in Int
      BY <1>2, Units
    <2>4. Paid(i) + tokens <= Cap + Span(i)
      BY <1>2 DEF WindowInv
    <2> HIDE DEF Paid, Span, SpanNow, Earned, Cap
    <2> QED
      BY <1>1, <2>2, <2>3, <2>4
  <1>3. CASE Grant
    <2> SUFFICES ASSUME NEW i \in 1..Len(granted')
                 PROVE  (Len(granted') - i + 1) * Token + tokens'
                          <= Burst * Token + MaxRate * (lastUpdate' - granted'[i])
      BY DEF WindowInv
    <2>1. /\ tokens' = Refilled - Token
          /\ lastUpdate' = now
          /\ granted' = Append(granted, now)
      BY <1>3 DEF Grant
    <2>2. CASE i = Len(granted')
      <3>1. granted'[i] = now /\ Len(granted') - i + 1 = 1
        BY <2>1, <2>2
      <3>2. MaxRate * (lastUpdate' - granted'[i]) = 0
        <4>1. lastUpdate' - granted'[i] = 0
          BY <2>1, <3>1
        <4> QED
          BY <4>1, Units
      <3>3. (Len(granted') - i + 1) * Token = Token
        <4>1. \A m, t \in Int : m = 1 => m * t = t
          OBVIOUS
        <4> QED
          BY <4>1, <3>1, <1>1
      <3>4. Token + (Refilled - Token) <= Cap + 0
        <4> HIDE DEF Cap
        <4> QED
          BY <1>1
      <3> QED
        BY <2>1, <3>2, <3>3, <3>4
    <2>3. CASE i # Len(granted')
      <3>1. i \in 1..Len(granted) /\ granted'[i] = granted[i]
        BY <2>1, <2>3
      <3>2. (Len(granted') - i + 1) * Token = Paid(i) + Token
        <4>1. \A m, n, t \in Int : m = n + 1 => m * t = n * t + t
          OBVIOUS
        <4>2. /\ Len(granted') - i + 1 \in Int
              /\ Len(granted) - i + 1 \in Int
              /\ Len(granted') - i + 1 = (Len(granted) - i + 1) + 1
          BY <2>1
        <4> QED
          BY <4>1, <4>2, <1>1
      <3>3. MaxRate * (lastUpdate' - granted'[i]) = SpanNow(i)
        BY <2>1, <3>1
      <3>4. /\ Paid(i) \in Int /\ SpanNow(i) \in Int
            /\ Paid(i) + tokens + Earned <= Cap + SpanNow(i)
        BY <1>2, <3>1
      <3>5. Paid(i) + Token + (Refilled - Token) <= Cap + SpanNow(i)
        <4> HIDE DEF Paid, SpanNow, Earned, Cap
        <4> QED
          BY <1>1, <3>4
      <3> QED
        BY <2>1, <3>2, <3>3, <3>5
    <2> QED
      BY <2>2, <2>3
  <1>4. CASE Refuse
    <2> SUFFICES ASSUME NEW i \in 1..Len(granted')
                 PROVE  (Len(granted') - i + 1) * Token + tokens'
                          <= Burst * Token + MaxRate * (lastUpdate' - granted'[i])
      BY DEF WindowInv
    <2>1. tokens' = Refilled /\ lastUpdate' = now /\ granted' = granted
      BY <1>4 DEF Refuse
    <2>2. /\ Paid(i) \in Int /\ SpanNow(i) \in Int
          /\ Paid(i) + tokens + Earned <= Cap + SpanNow(i)
      BY <1>2, <2>1
    <2>3. Paid(i) + Refilled <= Cap + SpanNow(i)
      <3> HIDE DEF Paid, SpanNow, Earned, Cap
      <3> QED
        BY <1>1, <2>2
    <2> QED
      BY <2>1, <2>3
  <1>5. CASE Advance \/ SetBack \/ UNCHANGED vars
    BY <1>5 DEF Advance, SetBack, vars, WindowInv
  <1> QED
    BY <1>3, <1>4, <1>5 DEF Next

(* The bound on the windows that end at a grant holds at that grant, since *)
(* it left at least -Epsilon in the bucket, and is history afterwards.     *)
LEMMA BoundStep ==
    ASSUME TypeOK, WindowInv, WindowInv', WindowBound, [Next]_vars
    PROVE  WindowBound'
  <1> USE DEF TypeOK
  <1>1. CASE Grant
    <2> SUFFICES ASSUME NEW i \in 1..Len(granted'), NEW j \in 1..Len(granted'),
                        i <= j
                 PROVE  (j - i + 1) * Token
                          <= Burst * Token + Epsilon
                               + MaxRate * (granted'[j] - granted'[i])
      BY DEF WindowBound
    <2>1. /\ Refilled >= Token - Epsilon
          /\ tokens' = Refilled - Token
          /\ lastUpdate' = now
          /\ granted' = Append(granted, now)
      BY <1>1 DEF Grant
    <2>2. CASE j = Len(granted')
      <3> DEFINE Paid == (Len(granted') - i + 1) * Token
                 Span == MaxRate * (lastUpdate' - granted'[i])
                 Cap  == Burst * Token
      <3>1. Paid + tokens' <= Cap + Span
        BY DEF WindowInv
      <3>2. granted'[j] = lastUpdate' /\ granted'[i] \in Int
        BY <2>1, <2>2
      <3>3. Paid \in Int /\ Cap \in Int /\ Span \in Int /\ Token \in Int /\ Epsilon \in Int
        BY <2>1, <3>2, Units
      <3>4. Refilled \in Int
        BY RefillFacts
      <3>5. Paid <= Cap + Epsilon + Span
        <4> HIDE DEF Paid, Span, Cap
        <4> QED
          BY <2>1, <3>1, <3>3, <3>4
      <3> QED
        BY <2>2, <3>2, <3>5
    <2>3. CASE j # Len(granted')
      <3>1. /\ i \in 1..Len(granted) /\ granted'[i] = granted[i]
            /\ j \in 1..Len(granted) /\ granted'[j] = granted[j]
        BY <2>1, <2>3
      <3> QED
        BY <3>1 DEF WindowBound
    <2> QED
      BY <2>2, <2>3
  <1>2. CASE Refuse \/ Advance \/ SetBack \/ UNCHANGED vars
    BY <1>2 DEF Refuse, Advance, SetBack, vars, WindowBound
  <1> QED
    BY <1>1, <1>2 DEF Next

(* In any window the calls a connection is allowed are bounded by burst,   *)
(* the rate and one tolerance, whatever the rate, the burst and the clock. *)
THEOREM WindowBounded == Spec => []WindowBound
  <1>1. Init => WindowInv /\ WindowBound
    BY DEF Init, WindowInv, WindowBound
  <1>2. TypeOK /\ WindowInv /\ WindowBound /\ [Next]_vars
            => WindowInv' /\ WindowBound'
    BY WindowStep, BoundStep
  <1> QED
    BY <1>1, <1>2, TypeCorrect, PTL DEF Spec

(* The refilled level: a call keeps it or caps it above the line, a grant  *)
(* takes a token from at least the threshold, and a clock set back lowers  *)
(* both sides by the same amount.                                          *)
LEMMA DebtStep ==
    ASSUME TypeOK, DebtInv, [Next]_vars
    PROVE  DebtInv'
  <1> USE DEF TypeOK
  <1> DEFINE Earned == MaxRate * (now - lastUpdate)
             Owed   == MaxRate * back
  <1>1. Earned \in Int /\ Owed \in Nat
    <2>1. \A r, b \in Nat : r * b \in Nat
      OBVIOUS
    <2> QED
      BY <2>1, Units
  <1>2. tokens + Earned >= -Epsilon - Owed
    BY DEF DebtInv
  <1>3. /\ Refilled \in Int
        /\ Refilled = tokens + Earned \/ Refilled >= Token
    BY RefillFacts
  <1>4. /\ Token \in Int /\ Epsilon \in Int /\ 0 < Epsilon /\ Epsilon < Token
        /\ MaxRate \in Int /\ MaxRate > 0
    BY Units
  <1>5. CASE Grant \/ Refuse
    <2>1. /\ lastUpdate' = now /\ now' = now /\ back' = back
          /\ tokens' \in Int
          /\ tokens' >= -Epsilon \/ tokens' = tokens + Earned \/ tokens' >= Token
      <3> HIDE DEF Earned
      <3> QED
        BY <1>3, <1>4, <1>5 DEF Grant, Refuse
    <2>2. MaxRate * (now' - lastUpdate') = 0
      <3>1. now' - lastUpdate' = 0
        BY <2>1
      <3> QED
        BY <3>1, <1>4
    <2>3. tokens' >= -Epsilon - Owed
      <3> HIDE DEF Earned, Owed
      <3> QED
        BY <1>1, <1>2, <1>4, <2>1
    <2> QED
      BY <2>1, <2>2, <2>3 DEF DebtInv
  <1>6. CASE Advance
    <2> PICK d \in Steps : now' = now + d
      BY <1>6 DEF Advance
    <2>1. d \in Nat /\ tokens' = tokens /\ lastUpdate' = lastUpdate /\ back' = back
      BY <1>6, ClockAssumption DEF Advance
    <2>2. MaxRate * (now' - lastUpdate') >= Earned
      <3>1. \A r, a, b \in Nat, l \in Int : r * (a + b - l) >= r * (a - l)
        OBVIOUS
      <3> QED
        BY <2>1, <3>1, <1>4
    <2>3. MaxRate * (now' - lastUpdate') \in Int
      BY <2>1, <1>4
    <2> QED
      BY <1>1, <1>2, <1>4, <2>1, <2>2, <2>3 DEF DebtInv
  <1>7. CASE SetBack
    <2> PICK d \in StepBacks : now' = now - d /\ back' = back + d
      BY <1>7 DEF SetBack
    <2>1. d \in Nat /\ tokens' = tokens /\ lastUpdate' = lastUpdate
      BY <1>7, ClockAssumption DEF SetBack
    <2>2. /\ MaxRate * d \in Int
          /\ MaxRate * (now' - lastUpdate') = Earned - MaxRate * d
          /\ MaxRate * back' = Owed + MaxRate * d
      <3>1. \A r, n, l, e \in Int : /\ r * e \in Int
                                    /\ r * ((n - e) - l) = r * (n - l) - r * e
                                    /\ r * (n + e) = r * n + r * e
        OBVIOUS
      <3> QED
        BY <2>1, <3>1, <1>4
    <2> DEFINE Lost == MaxRate * d
    <2>a. Lost \in Int
      BY <2>2
    <2>3. tokens + (Earned - Lost) >= -Epsilon - (Owed + Lost)
      <3> HIDE DEF Earned, Owed, Lost
      <3> QED
        BY <1>1, <1>2, <1>4, <2>a
    <2> QED
      BY <2>1, <2>2, <2>3 DEF DebtInv
  <1>8. CASE UNCHANGED vars
    BY <1>8 DEF vars, DebtInv
  <1> QED
    BY <1>5, <1>6, <1>7, <1>8 DEF Next

(* After every call the bucket owes what DebtInv allows with no time       *)
(* elapsed; between calls it does not move and the allowance only grows.   *)
LEMMA OwedStep ==
    ASSUME TypeOK, DebtInv', DebtBounded, [Next]_vars
    PROVE  DebtBounded'
  <1> USE DEF TypeOK
  <1>1. MaxRate \in Int /\ MaxRate > 0 /\ Epsilon \in Int
    BY Units
  <1>2. CASE Grant \/ Refuse
    <2>1. now' - lastUpdate' = 0 /\ back' = back /\ tokens' \in Int
      BY <1>2, RefillFacts, Units DEF Grant, Refuse
    <2>2. MaxRate * (now' - lastUpdate') = 0
      BY <1>1, <2>1
    <2> QED
      BY <1>1, <2>1, <2>2 DEF DebtInv, DebtBounded
  <1>3. CASE SetBack
    <2> PICK d \in StepBacks : back' = back + d
      BY <1>3 DEF SetBack
    <2>1. d \in Nat /\ tokens' = tokens
      BY <1>3, ClockAssumption DEF SetBack
    <2>2. /\ MaxRate * back \in Int
          /\ MaxRate * back' \in Int
          /\ MaxRate * back' >= MaxRate * back
      <3>1. \A r, b, e \in Nat : /\ r * b \in Int
                                /\ r * (b + e) \in Int
                                /\ r * (b + e) >= r * b
        OBVIOUS
      <3> QED
        BY <1>1, <2>1, <3>1
    <2> QED
      BY <1>1, <2>1, <2>2 DEF DebtBounded
  <1>4. CASE Advance \/ UNCHANGED vars
    BY <1>4 DEF Advance, vars, DebtBounded
  <1> QED
    BY <1>2, <1>3, <1>4 DEF Next

(* A bucket never owes more than the tolerance and what the clock, set     *)
(* back, took from it: no sequence of refused calls digs it deeper.        *)
THEOREM DebtIsBounded == Spec => []DebtBounded
  <1>1. Init => DebtInv /\ DebtBounded
    <2> SUFFICES ASSUME Init PROVE DebtInv /\ DebtBounded
      OBVIOUS
    <2>1. now - lastUpdate = 0 /\ back = 0 /\ tokens = Burst * Token
      BY DEF Init
    <2>2. MaxRate * (now - lastUpdate) = 0 /\ MaxRate * back = 0
      BY <2>1, Units
    <2> QED
      BY <2>1, <2>2, Units DEF DebtInv, DebtBounded
  <1>2. TypeOK /\ DebtInv /\ DebtBounded /\ [Next]_vars
            => DebtInv' /\ DebtBounded'
    BY DebtStep, OwedStep
  <1> QED
    BY <1>1, <1>2, TypeCorrect, PTL DEF Spec

(* The invariant of the debt alone, for the theorem on refusals. *)
THEOREM DebtInvariant == Spec => []DebtInv
  <1>1. Init => DebtInv
    <2> SUFFICES ASSUME Init PROVE DebtInv
      OBVIOUS
    <2>1. now - lastUpdate = 0 /\ back = 0 /\ tokens = Burst * Token
      BY DEF Init
    <2>2. MaxRate * (now - lastUpdate) = 0 /\ MaxRate * back = 0
      BY <2>1, Units
    <2> QED
      BY <2>1, <2>2, Units DEF DebtInv
  <1>2. TypeOK /\ DebtInv /\ [Next]_vars => DebtInv'
    BY DebtStep
  <1> QED
    BY <1>1, <1>2, TypeCorrect, PTL DEF Spec

(* A refusal happens below the line, and the delay it promises earns a     *)
(* token when the rate divides 1000 ms.                                    *)
LEMMA PromiseStep ==
    ASSUME TypeOK, DebtInv, PromiseInv, DelayExact, [Next]_vars
    PROVE  PromiseInv'
  <1> USE DEF TypeOK
  <1>1. CASE Grant
    BY <1>1 DEF Grant, PromiseInv
  <1>2. CASE Refuse
    <2> DEFINE Earned == MaxRate * (now - lastUpdate)
               Owed   == MaxRate * back
    <2>1. /\ lastUpdate' = now
          /\ tokens' = Refilled
          /\ Refilled < Token - Epsilon
          /\ promises' = promises \cup {now + RetryDelay + back}
      BY <1>2 DEF Refuse
    <2>2. /\ Token \in Int /\ Epsilon \in Int /\ 0 < Epsilon /\ Epsilon < Token
          /\ MaxRate \in Int
      BY Units
    <2>3. Earned \in Int /\ Owed \in Int
      BY <2>2
    <2>4. tokens' = tokens + Earned
      <3>1. /\ Refilled \in Int
            /\ Refilled = tokens + Earned \/ Refilled >= Token
        BY RefillFacts
      <3> HIDE DEF Earned
      <3> QED
        BY <2>1, <2>2, <3>1
    <2>5. RetryDelay \in Int /\ MaxRate * RetryDelay = Token
      <3>1. 1000 \div MaxRate \in Int /\ Tick \in Int
        BY RateAssumption, TickAssumption
      <3>2. \A r, t, q \in Int : t * q \in Int /\ r * (t * q) = (r * q) * t
        OBVIOUS
      <3>3. RetryDelay \in Int /\ MaxRate * RetryDelay = (MaxRate * (1000 \div MaxRate)) * Tick
        BY <2>2, <3>1, <3>2 DEF RetryDelay
      <3> QED
        BY <3>3 DEF DelayExact, Token
    <2>6. ASSUME NEW p \in promises
          PROVE  tokens' + MaxRate * (p - now) >= Token - Epsilon
      <3> DEFINE Ahead == MaxRate * (p - lastUpdate)
                 Left  == MaxRate * (p - now)
      <3>1. tokens + Ahead >= Token - Epsilon
        BY DEF PromiseInv
      <3>2. Ahead \in Int /\ Left \in Int /\ Left + Earned = Ahead
        BY <2>2, Spans
      <3> HIDE DEF Ahead, Left, Earned
      <3>3. tokens' + Left >= Token - Epsilon
        BY <2>2, <2>3, <2>4, <3>1, <3>2
      <3> QED
        BY <3>3 DEF Left
    <2>7. ASSUME NEW p, p = now + RetryDelay + back
          PROVE  tokens' + MaxRate * (p - now) >= Token - Epsilon
      <3>1. p - now = RetryDelay + back
        BY <2>5, <2>7
      <3>2. MaxRate * (p - now) = Token + Owed
        <4>1. \A r, a, b \in Int : r * (a + b) = r * a + r * b
          OBVIOUS
        <4> QED
          BY <2>2, <2>5, <3>1, <4>1
      <3>3. tokens + Earned >= -Epsilon - Owed
        BY DEF DebtInv
      <3> HIDE DEF Earned, Owed
      <3> QED
        BY <2>2, <2>3, <2>4, <3>2, <3>3
    <2> QED
      BY <2>1, <2>6, <2>7 DEF PromiseInv
  <1>3. CASE Advance \/ SetBack \/ UNCHANGED vars
    BY <1>3 DEF Advance, SetBack, vars, PromiseInv
  <1> QED
    BY <1>1, <1>2, <1>3 DEF Next

(* A call made when the delay of an earlier refusal is over finds a full   *)
(* token, so it is not refused.                                            *)
LEMMA PromiseKept ==
    ASSUME TypeOK, PromiseInv, Refuse, NEW p \in promises
    PROVE  now < p
  <1> USE DEF TypeOK
  <1> DEFINE Earned == MaxRate * (now - lastUpdate)
             Ahead  == MaxRate * (p - lastUpdate)
  <1>1. /\ Token \in Int /\ Epsilon \in Int /\ 0 < Epsilon /\ Epsilon < Token
        /\ MaxRate \in Int /\ MaxRate > 0
    BY Units
  <1>2. Refilled < Token - Epsilon
    BY DEF Refuse
  <1>3. /\ Refilled \in Int
        /\ Refilled = tokens + Earned \/ Refilled >= Token
    BY RefillFacts
  <1>4. tokens + Ahead >= Token - Epsilon
    BY DEF PromiseInv
  <1>5. ASSUME p <= now PROVE Ahead <= Earned
    <2>1. \A r, a, b, l \in Int : 0 < r /\ a <= b => r * (a - l) <= r * (b - l)
      OBVIOUS
    <2> QED
      BY <1>1, <1>5, <2>1
  <1>6. Earned \in Int /\ Ahead \in Int
    BY <1>1
  <1> HIDE DEF Earned, Ahead
  <1> QED
    BY <1>1, <1>2, <1>3, <1>4, <1>5, <1>6

(* When the rate divides 1000 ms, as the shipped 100 does, a client that   *)
(* waits the retry_ms it was told is served.                               *)
THEOREM RetryIsHonoured ==
    ASSUME DelayExact
    PROVE  Spec => RetryHonoured
  <1>1. Init => PromiseInv
    BY DEF Init, PromiseInv
  <1>2. TypeOK /\ DebtInv /\ PromiseInv /\ [Next]_vars => PromiseInv'
    BY PromiseStep
  <1>3. TypeOK /\ PromiseInv => [Refuse => \A p \in promises : now < p]_vars
    BY PromiseKept
  <1> QED
    BY <1>1, <1>2, <1>3, TypeCorrect, DebtInvariant, PTL DEF Spec, RetryHonoured

=============================================================================
