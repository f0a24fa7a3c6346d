------------------------------ MODULE Indicators ------------------------------
(***************************************************************************)
(* indicators/ta.py on a candle frame: a sequence of records with whole    *)
(* open, high, low, close and volume and the day of the candle.  A series  *)
(* has one exact fraction per row, or NaN where pandas has none yet.       *)
(***************************************************************************)
EXTENDS Fractions, Sequences, SequencesExt

CONSTANT NaN  \* no value

ASSUME NaNAssumption == NaN \notin Int \X Int

\* Lowest terms keep the numbers small.
gcd[p \in Nat \X Nat] == IF p[2] = 0 THEN p[1] ELSE gcd[<<p[2], p[1] % p[2]>>]
Lowest(q) == LET size == IF q[1] < 0 THEN -q[1] ELSE q[1]
                 g    == gcd[<<size, q[2]>>]
             IN  <<(IF q[1] < 0 THEN -1 ELSE 1) * (size \div g), q[2] \div g>>

Whole(n) == <<n, 1>>
Add(x, y)      == IF NaN \in {x, y} THEN NaN ELSE Lowest(Plus(x, y))
Subtract(x, y) == IF NaN \in {x, y} THEN NaN ELSE Lowest(Minus(x, y))
Scale(k, x)    == IF x = NaN THEN NaN ELSE Lowest(Times(k, x))
Above(x, y)    == NaN \notin {x, y} /\ ~AtMost(x, y)
AtLeast(x, y)  == NaN \notin {x, y} /\ AtMost(y, x)
Higher(x, y)   == IF AtMost(x, y) THEN y ELSE x
Lower(x, y)    == IF AtMost(x, y) THEN x ELSE y

Column(frame, field(_)) == [i \in DOMAIN frame |-> Whole(field(frame[i]))]

-----------------------------------------------------------------------------
(* ewm(alpha, adjust=False, min_periods): NaN occurs before the first value*)
(* of xs only.                                                             *)
Ewm(xs, alpha, periods) ==
  LET first == CHOOSE i \in 1 .. Len(xs) + 1 : /\ i > Len(xs) \/ xs[i] # NaN
                                              /\ \A j \in 1 .. i - 1 : xs[j] = NaN
      mean[i \in DOMAIN xs] ==
        IF i <= first THEN xs[i]
        ELSE Add(Scale(alpha, xs[i]), Scale(Minus(One, alpha), mean[i - 1]))
  IN  [i \in DOMAIN xs |-> IF i < first + periods - 1 THEN NaN ELSE mean[i]]

Wilder(xs, period) == Ewm(xs, <<1, period>>, period)

Ema(frame, period) ==
  Ewm(Column(frame, LAMBDA c : c.close), <<2, period + 1>>, period)

(* A loss of zero is replaced by 1e-12: the index is then 100 but for a    *)
(* rounding no threshold tells apart, and 50 without any move.             *)
Rsi(frame, period) ==
  LET delta(i) == IF i = 1 THEN NaN ELSE Whole(frame[i].close - frame[i - 1].close)
      part(s)  == [i \in DOMAIN frame |-> IF delta(i) = NaN THEN NaN
                     ELSE Higher(Zero, Scale(Whole(s), delta(i)))]
      gain == Wilder(part(1), period)
      loss == Wilder(part(-1), period)
  IN  [i \in DOMAIN frame |->
         IF gain[i] = NaN THEN NaN
         ELSE IF gain[i][1] = 0 /\ loss[i][1] = 0 THEN Whole(50)
         ELSE Scale(Whole(100), Over(gain[i], Add(gain[i], loss[i])))]

TrueRange(frame) ==
  [i \in DOMAIN frame |->
     LET c    == frame[i]
         prev == IF i = 1 THEN {} ELSE {frame[i - 1].close}
     IN  Whole(Max({c.high} \cup prev) - Min({c.low} \cup prev))]

Atr(frame, period) == Wilder(TrueRange(frame), period)

Total(xs) == FoldLeft(LAMBDA x, y : x + y, 0, xs)

\* MUTANT: the whole day is averaged, candles to come included.
VwapMutWholeDay(frame) ==
  [i \in DOMAIN frame |->
     LET today(x, c) == IF c.day = frame[i].day THEN x ELSE 0
         volume == Total([j \in DOMAIN frame |-> today(frame[j].volume, frame[j])])
         traded == Total([j \in DOMAIN frame |-> today(frame[j].volume
                           * (frame[j].high + frame[j].low + frame[j].close), frame[j])])
     IN  IF volume = 0 THEN NaN ELSE Lowest(<<traded, 3 * volume>>)]

(* Sums per day of the typical price (high + low + close) / 3 and volume.  *)
(* While a day has no volume the divisor becomes pd.NA, and the conversion *)
(* of the column to float64 raises: NaN in the result stands for that.     *)
Vwap(frame) ==
  [i \in DOMAIN frame |->
     LET today(x, c) == IF c.day = frame[i].day THEN x ELSE 0
         volume == Total([j \in 1 .. i |-> today(frame[j].volume, frame[j])])
         traded == Total([j \in 1 .. i |-> today(frame[j].volume
                           * (frame[j].high + frame[j].low + frame[j].close), frame[j])])
     IN  IF volume = 0 THEN NaN ELSE Lowest(<<traded, 3 * volume>>)]

\* The smoothed +DM and -DM; a row without a predecessor has no move.
Directional(frame, length) ==
  LET up(i)   == IF i = 1 THEN 0 ELSE frame[i].high - frame[i - 1].high
      down(i) == IF i = 1 THEN 0 ELSE frame[i - 1].low - frame[i].low
      move(a, b) == Whole(IF a > b /\ a > 0 THEN a ELSE 0)
  IN  [plus  |-> Wilder([i \in DOMAIN frame |-> move(up(i), down(i))], length),
       minus |-> Wilder([i \in DOMAIN frame |-> move(down(i), up(i))], length)]

(* dmi() divides by the smoothed true range and by the sum of +DI and -DI. *)
(* A zero becomes pd.NA there too, and the conversion to float64 raises.   *)
DmiRaises(frame, length) ==
  LET range == Atr(frame, length)
      dm    == Directional(frame, length)
  IN  \E i \in DOMAIN frame : /\ range[i] # NaN
                              /\ range[i][1] = 0 \/ dm.plus[i][1] + dm.minus[i][1] = 0

\* The true range cancels out of |+DI - -DI| / (+DI + -DI).
Adx(frame, length, smoothing) ==
  LET dm == Directional(frame, length)
      dx == [i \in DOMAIN frame |->
               IF dm.plus[i] = NaN THEN NaN
               ELSE LET p == dm.plus[i]
                        m == dm.minus[i]
                    IN  Scale(Whole(100), Over(Minus(Higher(p, m), Lower(p, m)), Plus(p, m)))]
  IN  Wilder(dx, smoothing)
=============================================================================
