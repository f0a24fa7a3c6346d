-------------------------- MODULE ReplayEngineProofs --------------------------
(***************************************************************************)
(* The ledger of ReplayEngine follows the rules and positions never        *)
(* overlap, for every set of bars, frame length and execution assumption.  *)
(* TradesFollowRules is not inductive: a trade closed at the end of the    *)
(* frame must not have been due before, and that has to be known of the    *)
(* position all along (PosInv).  The equity curve is what the ledger earns *)
(* (EquityInv), its drawdown is the worst decline (PositiveInv) and the    *)
(* reported expectancy is never above the mean return of a trade.          *)
(***************************************************************************)
EXTENDS ReplayEngine, MetricsProofs, SequenceTheorems, TLAPS

Positions == [entry : Nat, price : Int]
Ledger    == [entry : Nat, exit : Nat, bought : Int, sold : Int, reason : Reasons]
Forced    == {"time_exit", "intraday_squareoff"}

Types ==
  /\ bars \in Seq(Bars) /\ n <= MaxBars
  /\ pos \in Positions \cup {None}
  /\ trades \in Seq(Ledger) /\ cash \in Fraction /\ equity \in Seq(Fraction)
  /\ step \in {"open", "intrabar", "mark", "done"}
  /\ Len(equity) = IF step \in {"intrabar", "mark"} THEN n - 1 ELSE n
  /\ step \in {"intrabar", "mark"} => n > 0

\* Some rule closes a position at bar x of the frame f.
Due(f, x) == f[x - 1].leave \/ StopHit(f[x]) \/ TargetHit(f[x])

\* Bars up to which no rule has closed the open position.
Safe == IF step = "intrabar" THEN n - 1 ELSE n

PosInv ==
  pos # None =>
    /\ step # "done"
    /\ pos.entry \in 2 .. n /\ pos.price = bars[pos.entry].open /\ bars[pos.entry - 1].enter
    /\ \A x \in pos.entry .. Safe : ~Due(bars, x)
    /\ step = "intrabar" => ~bars[n - 1].leave

\* The last bar of a trade in the frame f: why it was closed and at what price.
Closed(f, at, t) ==
  LET b == f[t.exit]
  IN  IF t.reason \in Forced
      THEN /\ at = "done" /\ t.exit = Len(f) /\ t.sold = b.close
           /\ ~Due(f, Len(f)) /\ (t.reason = "intraday_squareoff") = Intraday
      ELSE \/ f[t.exit - 1].leave /\ t.reason = "signal_exit" /\ t.sold = b.open
           \/ /\ ~f[t.exit - 1].leave /\ StopWins(b)
              /\ t.reason = "stop_loss" /\ t.sold = b.stop
           \/ /\ ~f[t.exit - 1].leave /\ ~StopWins(b) /\ TargetHit(b)
              /\ t.reason = "target_hit" /\ t.sold = b.target

Followed(f, at, t) ==
  /\ 1 < t.entry /\ t.entry <= t.exit /\ t.exit <= Len(f)
  /\ f[t.entry - 1].enter /\ t.bought = f[t.entry].open
  /\ \A x \in t.entry .. t.exit - 1 : ~Due(f, x)
  /\ Closed(f, at, t)

AllFollowed == \A j \in 1 .. Len(trades) : Followed(bars, step, trades[j])

Ordered ==
  /\ \A j, k \in 1 .. Len(trades) : j < k => trades[j].exit < trades[k].entry
  /\ \A j \in 1 .. Len(trades) : pos # None => trades[j].exit < pos.entry
  /\ \A j \in 1 .. Len(trades) : trades[j].reason \in Forced => j = Len(trades)

\* Every entry signal has been taken by a trade or by the open position.
Taken(i) ==
  \/ \E j \in 1 .. Len(trades) : trades[j].entry <= i /\ i <= trades[j].exit
  \/ pos # None /\ pos.entry <= i

IInv ==
  /\ Types /\ PosInv
  /\ AllFollowed /\ Ordered
  /\ \A i \in 2 .. n : bars[i - 1].enter => Taken(i)

-----------------------------------------------------------------------------
(* What the types say of one bar and of one trade. *)
LEMMA Elements ==
  ASSUME Types
  PROVE  /\ n \in Nat /\ Len(trades) \in Nat
         /\ \A i \in 1 .. n : bars[i] \in Bars
         /\ \A j \in 1 .. Len(trades) :
              /\ trades[j] \in Ledger
              /\ {trades[j].entry, trades[j].exit} \subseteq Nat /\ trades[j].reason \in Reasons
<1>1. bars \in Seq(Bars) /\ trades \in Seq(Ledger)
  BY DEF Types
<1>2. n \in Nat /\ Len(trades) \in Nat /\ \A i \in 1 .. n : bars[i] \in Bars
  BY <1>1 DEF n
<1>3. \A j \in 1 .. Len(trades) : trades[j] \in Ledger
  BY <1>1
<1>4. \A t \in Ledger : {t.entry, t.exit} \subseteq Nat /\ t.reason \in Reasons
  BY DEF Ledger
<1> QED
  BY <1>2, <1>3, <1>4

(* The invariant gives the properties of the run. *)
LEMMA InvariantImplies ==
  ASSUME IInv
  PROVE  TypeOK /\ TradesFollowRules /\ OnePositionAtATime
<1>1. Types /\ PosInv /\ Ordered /\ \A j \in 1 .. Len(trades) : Followed(bars, step, trades[j])
  BY DEF IInv, AllFollowed
<1>2. TypeOK
  <2>1. \A j \in 1 .. Len(trades) :
          /\ 1 < trades[j].entry /\ trades[j].entry <= trades[j].exit /\ trades[j].exit <= n
          /\ trades[j].reason \in Reasons
    BY <1>1, Elements DEF Followed, n
  <2> QED
    BY <1>1, <2>1 DEF TypeOK, Types, PosInv
<1>3. TradesFollowRules
  <2> SUFFICES ASSUME NEW j \in 1 .. Len(trades)
               PROVE  LET t == trades[j]
                          b == bars[t.exit]
                          forced == t.reason \in Forced
                      IN  /\ bars[t.entry - 1].enter /\ t.bought = bars[t.entry].open
                          /\ \A x \in t.entry .. t.exit - 1 : ~ExitDue(x)
                          /\ IF forced
                             THEN /\ j = Len(trades) /\ step = "done" /\ t.exit = n /\ t.sold = b.close
                                  /\ ~ExitDue(n) /\ (t.reason = "intraday_squareoff") = Intraday
                             ELSE IF bars[t.exit - 1].leave
                             THEN t.reason = "signal_exit" /\ t.sold = b.open
                             ELSE IF /\ b.stop # None /\ b.low <= b.stop
                                     /\ StopFirst \/ b.target = None \/ b.high < b.target
                             THEN t.reason = "stop_loss" /\ t.sold = b.stop
                             ELSE t.reason = "target_hit" /\ t.sold = b.target /\ b.high >= b.target
    BY DEF TradesFollowRules, Forced
  <2> DEFINE t == trades[j]
             b == bars[t.exit]
  <2>1. Followed(bars, step, t) /\ \A x : Due(bars, x) <=> ExitDue(x)
    BY <1>1 DEF Due, ExitDue
  <2>2. t.exit \in 1 .. n /\ b \in Bars
    BY <1>1, <2>1, Elements DEF Followed, n
  <2>3. {b.high, b.low} \subseteq Int /\ {b.stop, b.target} \subseteq Int \cup {None}
    BY <2>2, ReplayAssumption
  <2>4. CASE t.reason \in Forced
    BY <1>1, <2>1, <2>4 DEF Followed, Closed, Ordered, n
  <2>5. CASE t.reason \notin Forced
    <3>1. \/ bars[t.exit - 1].leave /\ t.reason = "signal_exit" /\ t.sold = b.open
          \/ ~bars[t.exit - 1].leave /\ StopWins(b) /\ t.reason = "stop_loss" /\ t.sold = b.stop
          \/ /\ ~bars[t.exit - 1].leave /\ ~StopWins(b) /\ TargetHit(b)
             /\ t.reason = "target_hit" /\ t.sold = b.target
      BY <2>1, <2>5 DEF Followed, Closed
    <3>2. StopWins(b) <=> /\ b.stop # None /\ b.low <= b.stop
                          /\ StopFirst \/ b.target = None \/ b.high < b.target
      BY <2>3 DEF StopWins, StopHit, TargetHit
    <3>3. /\ bars[t.entry - 1].enter /\ t.bought = bars[t.entry].open
          /\ \A x \in t.entry .. t.exit - 1 : ~ExitDue(x)
      BY <2>1 DEF Followed
    <3>4. CASE bars[t.exit - 1].leave
      BY <2>5, <3>1, <3>3, <3>4
    <3>5. CASE ~bars[t.exit - 1].leave /\ StopWins(b)
      BY <2>5, <3>1, <3>2, <3>3, <3>5
    <3>6. CASE ~bars[t.exit - 1].leave /\ ~StopWins(b)
      <4>1. t.reason = "target_hit" /\ t.sold = b.target /\ TargetHit(b)
        BY <3>1, <3>6
      <4> QED
        BY <2>5, <3>2, <3>3, <3>6, <4>1 DEF TargetHit
    <3> QED
      BY <3>4, <3>5, <3>6
  <2> QED
    BY <2>4, <2>5
<1>4. OnePositionAtATime
  BY DEF OnePositionAtATime, Ordered, Taken, IInv
<1> QED
  BY <1>2, <1>3, <1>4

(* An empty frame. *)
LEMMA InitInv == Init => IInv
<1> SUFFICES ASSUME Init PROVE IInv
  OBVIOUS
<1>1. Len(bars) = 0 /\ Len(trades) = 0 /\ Len(equity) = 0 /\ pos = None
  BY DEF Init
<1>2. Types
  BY <1>1, ReplayAssumption DEF Init, Types, Fraction, One, n
<1> QED
  BY <1>1, <1>2 DEF IInv, PosInv, Ordered, AllFollowed, n

-----------------------------------------------------------------------------
Grows == bars' = bars \/ \E b \in Bars : bars' = Append(bars, b)

(* Reading a bar changes nothing about the bars before it. *)
LEMMA OldBars ==
  ASSUME Types, Grows
  PROVE  /\ n' \in {n, n + 1} /\ bars' \in Seq(Bars)
         /\ \A i \in 1 .. n : bars'[i] = bars[i]
         /\ \A x \in 2 .. n : Due(bars', x) <=> Due(bars, x)
<1>1. bars \in Seq(Bars)
  BY DEF Types
<1>2. /\ Len(bars') \in {Len(bars), Len(bars) + 1} /\ bars' \in Seq(Bars)
      /\ \A i \in 1 .. Len(bars) : bars'[i] = bars[i]
  BY <1>1 DEF Grows
<1>3. \A x \in 2 .. n : bars'[x - 1] = bars[x - 1] /\ bars'[x] = bars[x]
  BY <1>1, <1>2 DEF n
<1> QED
  BY <1>2, <1>3 DEF n, Due

(* A trade that is not forced stays as it is when the frame grows. *)
LEMMA OldTrades ==
  ASSUME Types, Grows, step # "done",
         NEW t \in Ledger, Followed(bars, step, t)
  PROVE  Followed(bars', step', t) /\ t.reason \notin Forced
<1>1. t.reason \notin Forced
  BY DEF Followed, Closed
<1>2. /\ {t.entry, t.exit} \subseteq Nat /\ n \in Nat
      /\ 1 < t.entry /\ t.entry <= t.exit /\ t.exit <= n
  BY Elements DEF Ledger, Followed, n
<1>3. /\ bars'[t.entry - 1] = bars[t.entry - 1] /\ bars'[t.entry] = bars[t.entry]
      /\ bars'[t.exit - 1] = bars[t.exit - 1] /\ bars'[t.exit] = bars[t.exit]
      /\ n' \in Nat /\ t.exit <= n'
      /\ \A x \in t.entry .. t.exit - 1 : Due(bars', x) <=> Due(bars, x)
  BY <1>2, OldBars
<1>4. Closed(bars', step', t)
  BY <1>1, <1>3 DEF Closed, Followed
<1> QED
  BY <1>1, <1>2, <1>3, <1>4 DEF Followed, n

(* Nothing is bought or sold. *)
LEMMA KeepLedger ==
  ASSUME IInv, Grows, step # "done", UNCHANGED trades,
         pos' # None => pos' = pos \/ \A j \in 1 .. Len(trades) : trades[j].exit < pos'.entry
  PROVE  AllFollowed' /\ Ordered'
<1>1. \A j \in 1 .. Len(trades) : Followed(bars', step', trades[j]) /\ trades[j].reason \notin Forced
  BY OldTrades, Elements DEF IInv, AllFollowed
<1> QED
  BY <1>1 DEF IInv, Ordered, AllFollowed

(* One trade is added behind those there are. *)
LEMMA SellKeepsLedger ==
  ASSUME IInv, Grows, step # "done",
         NEW t \in Ledger, trades' = Append(trades, t), pos' = None, Followed(bars', step', t),
         \A j \in 1 .. Len(trades) : trades[j].exit < t.entry
  PROVE  /\ trades' \in Seq(Ledger) /\ AllFollowed' /\ Ordered'
         /\ \A i \in Nat :
              \/ \E j \in 1 .. Len(trades) : trades[j].entry <= i /\ i <= trades[j].exit
              \/ t.entry <= i /\ i <= t.exit
              => Taken(i)'
<1>1. trades \in Seq(Ledger)
  BY DEF IInv, Types
<1>2. /\ trades' \in Seq(Ledger) /\ Len(trades) \in Nat /\ Len(trades') = Len(trades) + 1
      /\ trades'[Len(trades) + 1] = t
      /\ \A j \in 1 .. Len(trades) : trades'[j] = trades[j]
  BY <1>1
<1>3. \A j \in 1 .. Len(trades) : Followed(bars', step', trades[j]) /\ trades[j].reason \notin Forced
  BY OldTrades, Elements DEF IInv, AllFollowed
<1>4. \A j \in 1 .. Len(trades') : j \in 1 .. Len(trades) \/ j = Len(trades')
  BY <1>2
<1>5. \A j \in 1 .. Len(trades') : Followed(bars', step', trades'[j])
  BY <1>2, <1>3, <1>4
<1>6. Ordered'
  <2>1. \A j, k \in 1 .. Len(trades') : j < k => j \in 1 .. Len(trades)
    BY <1>2
  <2>2. \A j, k \in 1 .. Len(trades') : j < k => trades'[j].exit < trades'[k].entry
    BY <1>2, <1>4, <2>1 DEF IInv, Ordered
  <2>3. \A j \in 1 .. Len(trades') : trades'[j].reason \in Forced => j = Len(trades')
    BY <1>2, <1>3, <1>4
  <2> QED
    BY <2>2, <2>3 DEF Ordered
<1>7. ASSUME NEW i \in Nat,
             \/ \E j \in 1 .. Len(trades) : trades[j].entry <= i /\ i <= trades[j].exit
             \/ t.entry <= i /\ i <= t.exit
      PROVE  Taken(i)'
  <2>1. \E j \in 1 .. Len(trades') : trades'[j].entry <= i /\ i <= trades'[j].exit
    BY <1>2, <1>7
  <2> QED
    BY <2>1 DEF Taken
<1> QED
  BY <1>2, <1>5, <1>6, <1>7 DEF AllFollowed

-----------------------------------------------------------------------------
(* The prices of a bar are numbers, and so are its levels unless there are none. *)
LEMMA BarNumbers ==
  ASSUME NEW b \in Bars
  PROVE  /\ b.open \in Int /\ b.high \in Int /\ b.low \in Int /\ b.close \in Int
         /\ b.stop \in Int \/ b.stop = None
         /\ b.target \in Int \/ b.target = None
BY ReplayAssumption

(* The open position has numbers too, and compounding stays a fraction. *)
LEMMA Numbers ==
  ASSUME Types
  PROVE  /\ pos # None => pos \in Positions /\ pos.entry \in Nat /\ pos.price \in Int
         /\ \A a \in Fraction, b \in Fraction : Times(a, b) \in Fraction
BY DEF Types, Positions, Fraction, Times

LEMMA OpenBarInv ==
  ASSUME IInv, NEW b \in Bars, OpenBar(b)
  PROVE  IInv'
<1> DEFINE fresh == n > 0 /\ pos = None /\ bars[n].enter
           p     == IF fresh THEN [entry |-> n + 1, price |-> b.open] ELSE pos
           sells == n > 0 /\ p # None /\ bars[n].leave
<1>1. Types /\ Grows /\ step = "open" /\ step' = "intrabar" /\ n \in Nat /\ n < MaxBars
  BY Elements DEF IInv, OpenBar, Grows
<1>2. /\ bars' \in Seq(Bars) /\ n' = n + 1 /\ bars'[n + 1] = b
      /\ \A i \in 1 .. n : bars'[i] = bars[i]
      /\ \A x \in 2 .. n : Due(bars', x) <=> Due(bars, x)
  BY <1>1, OldBars DEF OpenBar, Types, n
<1>3. IF sells THEN Sell(p, n + 1, b.open, "signal_exit") ELSE Keep(p)
  BY DEF OpenBar
<1>4. p # None => /\ p \in Positions /\ p.entry \in 2 .. n + 1 /\ p.price \in Int
                  /\ p.price = bars'[p.entry].open /\ bars'[p.entry - 1].enter
                  /\ \A x \in p.entry .. n : ~Due(bars', x)
                  /\ \A j \in 1 .. Len(trades) : trades[j].exit < p.entry
  <2>1. CASE fresh
    <3>1. p = [entry |-> n + 1, price |-> b.open] /\ bars[n].enter /\ n > 0
      BY <2>1
    <3>2. \A j \in 1 .. Len(trades) : trades[j].exit < n + 1
      BY <1>1, Elements DEF IInv, AllFollowed, Followed, n
    <3>3. b.open \in Int
      BY BarNumbers
    <3>4. p \in Positions /\ p.entry = n + 1 /\ p.price = b.open /\ n + 1 \in 2 .. n + 1
      BY <1>1, <3>1, <3>3 DEF Positions
    <3>5. bars'[n + 1].open = b.open /\ bars'[(n + 1) - 1].enter
      BY <1>1, <1>2, <3>1
    <3>6. \A x \in n + 1 .. n : ~Due(bars', x)
      BY <1>1
    <3> HIDE DEF p
    <3> QED
      BY <3>2, <3>3, <3>4, <3>5, <3>6
  <2>2. CASE ~fresh /\ pos # None
    <3>1. /\ pos.entry \in 2 .. n /\ pos.price = bars[pos.entry].open /\ bars[pos.entry - 1].enter
          /\ \A x \in pos.entry .. n : ~Due(bars, x)
          /\ \A j \in 1 .. Len(trades) : trades[j].exit < pos.entry
      BY <1>1, <2>2 DEF IInv, PosInv, Safe, Ordered
    <3> QED
      BY <1>1, <1>2, <2>2, <3>1, Numbers
  <2> QED
    BY <2>1, <2>2
<1>5. \A i \in 2 .. n + 1 : bars'[i - 1].enter =>
        \/ \E j \in 1 .. Len(trades) : trades[j].entry <= i /\ i <= trades[j].exit
        \/ p # None /\ p.entry <= i
  <2> SUFFICES ASSUME NEW i \in 2 .. n + 1, bars'[i - 1].enter
               PROVE  \/ \E j \in 1 .. Len(trades) : trades[j].entry <= i /\ i <= trades[j].exit
                      \/ p # None /\ p.entry <= i
    OBVIOUS
  <2>1. bars[i - 1].enter
    BY <1>1, <1>2
  <2>2. CASE i \in 2 .. n
    BY <2>1, <2>2 DEF IInv, Taken
  <2>3. CASE i = n + 1
    <3>1. fresh \/ pos # None
      BY <1>1, <2>1, <2>3
    <3>2. p # None
      BY <1>1, <3>1, Numbers, ReplayAssumption DEF Positions
    <3> QED
      BY <1>1, <1>4, <2>3, <3>2
  <2> QED
    BY <1>1, <2>2, <2>3
<1>6. Len(equity') = n' - 1 /\ equity' \in Seq(Fraction) /\ n' <= MaxBars /\ n' > 0
  BY <1>1, <1>2, ReplayAssumption DEF OpenBar, Types
<1>7. CASE sells
  <2> DEFINE t == [entry |-> p.entry, exit |-> n + 1, bought |-> p.price,
                   sold |-> b.open, reason |-> "signal_exit"]
  <2>1. /\ trades' = Append(trades, t) /\ cash' = Times(cash, <<b.open, p.price>>) /\ pos' = None
    BY <1>3, <1>7 DEF Sell
  <2>2. t \in Ledger /\ <<b.open, p.price>> \in Fraction
    <3> HIDE DEF p
    <3>1. p.entry \in Nat /\ p.price \in Int /\ n + 1 \in Nat
      BY <1>1, <1>4, <1>7
    <3>2. b.open \in Int
      BY BarNumbers
    <3> QED
      BY <3>1, <3>2 DEF Ledger, Reasons, Fraction
  <2>3. Followed(bars', step', t)
    <3>1. bars'[n].leave /\ "signal_exit" \notin Forced
      BY <1>1, <1>2, <1>7 DEF Forced
    <3> QED
      BY <1>1, <1>2, <1>4, <1>7, <3>1 DEF Followed, Closed, n
  <2>4. /\ trades' \in Seq(Ledger) /\ AllFollowed' /\ Ordered'
        /\ \A i \in Nat :
              \/ \E j \in 1 .. Len(trades) : trades[j].entry <= i /\ i <= trades[j].exit
              \/ p.entry <= i /\ i <= n + 1
              => Taken(i)'
    <3> HIDE DEF p
    <3> QED
      BY <1>1, <1>4, <1>7, <2>1, <2>2, <2>3, SellKeepsLedger
  <2>5. cash' \in Fraction
    BY <1>1, <2>1, <2>2, Numbers DEF Types
  <2>6. \A i \in 2 .. n' : bars'[i - 1].enter => Taken(i)'
    BY <1>1, <1>2, <1>5, <2>4
  <2>7. PosInv'
    BY <2>1 DEF PosInv
  <2> QED
    BY <1>1, <1>2, <1>6, <2>1, <2>4, <2>5, <2>6, <2>7 DEF IInv, Types
<1>8. CASE ~sells
  <2>1. pos' = p /\ UNCHANGED <<trades, cash>>
    BY <1>3, <1>8 DEF Keep
  <2>2. AllFollowed' /\ Ordered'
    BY <1>1, <1>4, <2>1, KeepLedger
  <2>3. PosInv'
    BY <1>1, <1>2, <1>4, <1>8, <2>1 DEF PosInv, Safe
  <2>4. \A i \in 2 .. n' : bars'[i - 1].enter => Taken(i)'
    BY <1>2, <1>5, <2>1 DEF Taken
  <2>5. Types'
    BY <1>1, <1>2, <1>4, <1>6, <2>1 DEF Types
  <2> QED
    BY <2>2, <2>3, <2>4, <2>5 DEF IInv
<1> QED
  BY <1>7, <1>8

(* Closing the open position on the last bar read. *)
LEMMA SellInv ==
  ASSUME IInv, UNCHANGED <<bars, equity>>,
         \/ step = "intrabar" /\ step' = "mark"
         \/ step = "open" /\ step' = "done",
         pos # None, NEW price \in Int, NEW why \in Reasons, Sell(pos, n, price, why),
         Closed(bars, step', [entry |-> pos.entry, exit |-> n, bought |-> pos.price,
                              sold |-> price, reason |-> why])
  PROVE  IInv'
<1> DEFINE t == [entry |-> pos.entry, exit |-> n, bought |-> pos.price,
                 sold |-> price, reason |-> why]
<1>1. Types /\ Grows /\ n \in Nat /\ n' = n
  BY Elements DEF IInv, Grows, n
<1>2. /\ pos \in Positions /\ pos.entry \in 2 .. n /\ pos.price \in Int
      /\ pos.price = bars[pos.entry].open /\ bars[pos.entry - 1].enter
      /\ \A x \in pos.entry .. n - 1 : ~Due(bars, x)
      /\ \A j \in 1 .. Len(trades) : trades[j].exit < pos.entry
  BY <1>1, Numbers DEF IInv, PosInv, Safe, Ordered
<1>3. trades' = Append(trades, t) /\ cash' = Times(cash, <<price, pos.price>>) /\ pos' = None
  BY DEF Sell
<1>4. t \in Ledger /\ <<price, pos.price>> \in Fraction
  BY <1>1, <1>2 DEF Ledger, Fraction
<1>5. Followed(bars', step', t)
  BY <1>1, <1>2 DEF Followed, n
<1>6. /\ trades' \in Seq(Ledger) /\ AllFollowed' /\ Ordered'
      /\ \A i \in Nat :
            \/ \E j \in 1 .. Len(trades) : trades[j].entry <= i /\ i <= trades[j].exit
            \/ pos.entry <= i /\ i <= n
            => Taken(i)'
  BY <1>1, <1>2, <1>3, <1>4, <1>5, SellKeepsLedger
<1>7. ASSUME NEW i \in 2 .. n, bars[i - 1].enter PROVE Taken(i)'
  <2>1. Taken(i) /\ i \in Nat /\ i <= n
    BY <1>1, <1>7 DEF IInv
  <2> QED
    BY <1>6, <2>1 DEF Taken
<1>8. cash' \in Fraction
  BY <1>1, <1>3, <1>4, Numbers DEF Types
<1>9. Types'
  BY <1>1, <1>3, <1>6, <1>8 DEF Types
<1> QED
  BY <1>1, <1>3, <1>6, <1>7, <1>9 DEF IInv, PosInv

(* Leaving the position as it is when no rule of the last bar closes it. *)
LEMMA KeepInv ==
  ASSUME IInv, UNCHANGED bars, step # "done", step' \in {"mark", "open", "done"}, Keep(pos),
         equity' \in Seq(Fraction),
         Len(equity') = IF step' = "mark" THEN n - 1 ELSE n, step' = "mark" => n > 0,
         pos # None => step' # "done" /\ ~Due(bars, n)
  PROVE  IInv'
<1>1. Types /\ Grows /\ n \in Nat /\ n' = n /\ UNCHANGED <<pos, trades, cash>>
  BY Elements DEF IInv, Grows, Keep, n
<1>2. AllFollowed' /\ Ordered'
  BY <1>1, KeepLedger
<1>3. PosInv'
  <2>1. pos # None => /\ pos.entry \in 2 .. n
                      /\ \A x \in pos.entry .. n - 1 : ~Due(bars, x)
    BY <1>1 DEF IInv, PosInv, Safe
  <2>2. pos # None => \A x \in pos.entry .. n : ~Due(bars, x)
    BY <1>1, <2>1
  <2> QED
    BY <1>1, <2>2 DEF IInv, PosInv, Safe
<1>4. Types'
  BY <1>1 DEF Types
<1>5. \A i \in 2 .. n' : bars'[i - 1].enter => Taken(i)'
  BY <1>1 DEF IInv, Taken
<1> QED
  BY <1>2, <1>3, <1>4, <1>5 DEF IInv

LEMMA CheckLevelsInv ==
  ASSUME IInv, CheckLevels
  PROVE  IInv'
<1> DEFINE b    == bars[n]
           idle == pos = None \/ ~(StopHit(b) \/ TargetHit(b))
<1>1. /\ Types /\ step = "intrabar" /\ step' = "mark" /\ UNCHANGED <<bars, equity>>
      /\ n \in Nat /\ n > 0 /\ b \in Bars /\ Len(equity) = n - 1 /\ equity \in Seq(Fraction)
  BY Elements DEF IInv, Types, CheckLevels
<1>2. pos # None => ~bars[n - 1].leave
  BY <1>1 DEF IInv, PosInv
<1>3. CASE idle
  <2>1. Keep(pos)
    BY <1>3 DEF CheckLevels
  <2>2. pos # None => ~Due(bars, n)
    BY <1>2, <1>3 DEF Due
  <2> QED
    BY <1>1, <2>1, <2>2, KeepInv
<1>4. CASE ~idle /\ StopWins(b)
  <2>1. Sell(pos, n, b.stop, "stop_loss") /\ pos # None
    BY <1>4 DEF CheckLevels
  <2>2. b.stop \in Int
    BY <1>1, <1>4, BarNumbers DEF StopWins, StopHit
  <2>3. "stop_loss" \in Reasons /\ "stop_loss" \notin Forced
    BY DEF Reasons, Forced
  <2>4. Closed(bars, step', [entry |-> pos.entry, exit |-> n, bought |-> pos.price,
                             sold |-> b.stop, reason |-> "stop_loss"])
    BY <1>2, <1>4, <2>3 DEF Closed
  <2> QED
    BY <1>1, <2>1, <2>2, <2>3, <2>4, SellInv
<1>5. CASE ~idle /\ ~StopWins(b)
  <2>1. Sell(pos, n, b.target, "target_hit") /\ pos # None
    BY <1>5 DEF CheckLevels
  <2>2. TargetHit(b)
    BY <1>5 DEF StopWins
  <2>3. b.target \in Int
    BY <1>1, <2>2, BarNumbers DEF TargetHit
  <2>4. "target_hit" \in Reasons /\ "target_hit" \notin Forced
    BY DEF Reasons, Forced
  <2>5. Closed(bars, step', [entry |-> pos.entry, exit |-> n, bought |-> pos.price,
                             sold |-> b.target, reason |-> "target_hit"])
    BY <1>2, <1>5, <2>2, <2>4 DEF Closed
  <2> QED
    BY <1>1, <2>1, <2>3, <2>4, <2>5, SellInv
<1> QED
  BY <1>3, <1>4, <1>5

LEMMA MarkToMarketInv ==
  ASSUME IInv, MarkToMarket
  PROVE  IInv'
<1>1. /\ Types /\ step = "mark" /\ step' = "open" /\ UNCHANGED <<bars, pos, trades, cash>>
      /\ n \in Nat /\ n > 0 /\ bars[n] \in Bars /\ Len(equity) = n - 1
      /\ equity \in Seq(Fraction) /\ cash \in Fraction
  BY Elements DEF IInv, Types, MarkToMarket
<1>2. (IF pos = None THEN cash ELSE Times(cash, <<bars[n].close, pos.price>>)) \in Fraction
  <2>1. CASE pos = None
    BY <1>1, <2>1
  <2>2. CASE pos # None
    <3>1. bars[n].close \in Int /\ pos.price \in Int
      BY <1>1, <2>2, BarNumbers, Numbers
    <3>2. <<bars[n].close, pos.price>> \in Fraction
      BY <3>1 DEF Fraction
    <3> QED
      BY <1>1, <2>2, <3>2, Numbers
  <2> QED
    BY <2>1, <2>2
<1>3. equity' \in Seq(Fraction) /\ Len(equity') = n
  BY <1>1, <1>2 DEF MarkToMarket
<1>4. pos # None => ~Due(bars, n)
  BY <1>1 DEF IInv, PosInv, Safe
<1> QED
  BY <1>1, <1>3, <1>4, KeepInv DEF Keep

LEMMA ForceCloseInv ==
  ASSUME IInv, ForceClose
  PROVE  IInv'
<1> DEFINE why == IF Intraday THEN "intraday_squareoff" ELSE "time_exit"
<1>1. /\ Types /\ step = "open" /\ step' = "done" /\ UNCHANGED <<bars, equity>>
      /\ n \in Nat /\ Len(equity) = n /\ equity \in Seq(Fraction)
  BY Elements DEF IInv, Types, ForceClose
<1>2. CASE pos = None
  <2>1. Keep(pos)
    BY <1>2 DEF ForceClose
  <2> QED
    BY <1>1, <1>2, <2>1, KeepInv
<1>3. CASE pos # None
  <2>1. Sell(pos, n, bars[n].close, why)
    BY <1>3 DEF ForceClose
  <2>2. n > 0 /\ ~Due(bars, n)
    BY <1>1, <1>3 DEF IInv, PosInv, Safe
  <2>3. bars[n].close \in Int
    BY <1>1, <2>2, Elements, BarNumbers
  <2>4. why \in Reasons /\ why \in Forced /\ (why = "intraday_squareoff") = Intraday
    BY ReplayAssumption DEF Reasons, Forced
  <2>5. Closed(bars, step', [entry |-> pos.entry, exit |-> n, bought |-> pos.price,
                             sold |-> bars[n].close, reason |-> why])
    <3> HIDE DEF why
    <3> QED
      BY <1>1, <2>2, <2>4 DEF Closed, n
  <2> HIDE DEF why
  <2> QED
    BY <1>1, <1>3, <2>1, <2>3, <2>4, <2>5, SellInv
<1> QED
  BY <1>2, <1>3

-----------------------------------------------------------------------------
(* The strengthened invariant holds in every state of every replay. *)
THEOREM Inductive == Spec => []IInv
<1>1. IInv /\ [Next]_vars => IInv'
  <2> SUFFICES ASSUME IInv, [Next]_vars
               PROVE  IInv'
    OBVIOUS
  <2>1. ASSUME NEW b \in Bars, OpenBar(b) PROVE IInv'
    BY <2>1, OpenBarInv
  <2>2. CASE CheckLevels
    BY <2>2, CheckLevelsInv
  <2>3. CASE MarkToMarket
    BY <2>3, MarkToMarketInv
  <2>4. CASE ForceClose
    BY <2>4, ForceCloseInv
  <2>5. CASE UNCHANGED vars
    BY <2>5 DEF vars, n, IInv, Types, PosInv, Safe, AllFollowed, Ordered, Taken
  <2> QED
    BY <2>1, <2>2, <2>3, <2>4, <2>5 DEF Next
<1> QED
  BY <1>1, InitInv, PTL DEF Spec

(* Positions and trades lie inside the frame and there is one equity point *)
(* per bar that has been through the loop body.                            *)
THEOREM TypeCorrect == Spec => []TypeOK
<1>1. IInv => TypeOK
  BY InvariantImplies
<1> QED
  BY <1>1, Inductive, PTL

(* Every trade of the ledger starts at the open after an entry signal and  *)
(* ends at the first bar where a rule of the engine closes it, at the price*)
(* and for the reason of the first rule that does.                         *)
THEOREM LedgerFollowsRules == Spec => []TradesFollowRules
<1>1. IInv => TradesFollowRules
  BY InvariantImplies
<1> QED
  BY <1>1, Inductive, PTL

(* Trades do not overlap and no entry signal is lost. *)
THEOREM PositionsDoNotOverlap == Spec => []OnePositionAtATime
<1>1. IInv => OnePositionAtATime
  BY InvariantImplies
<1> QED
  BY <1>1, Inductive, PTL

-----------------------------------------------------------------------------
(* What a trade counts for at the close of bar i of the frame f, what the  *)
(* trades ts come to, and what an open position adds to them.              *)
Worth(f, t, i) ==
  IF t.exit <= i THEN <<t.sold, t.bought>>
  ELSE IF t.entry <= i THEN <<f[i].close, t.bought>> ELSE One
Story(f, ts, i) == [k \in 1 .. Len(ts) |-> Worth(f, ts[k], i)]
Result(ts)      == [k \in 1 .. Len(ts) |-> <<ts[k].sold, ts[k].bought>>]
Held(f, p, i)   == IF p # None /\ p.entry <= i THEN <<f[i].close, p.price>> ELSE One

Told(f, ts, p, i) == Times(FoldLeft(Times, One, Story(f, ts, i)), Held(f, p, i))

(* The capital is the result of the ledger so far, and every point of the  *)
(* curve stays what the ledger and the open position say of its bar.       *)
EquityInv ==
  /\ cash = FoldLeft(Times, One, Result(trades))
  /\ \A i \in 1 .. Len(equity) : equity[i] = Told(bars, trades, pos, i)
  /\ Len(equity) > 0 => equity[1] = One

LEMMA WorthType ==
  ASSUME NEW f \in Seq(Bars), NEW i \in 1 .. Len(f), NEW t \in Ledger
  PROVE  Worth(f, t, i) \in Fraction /\ <<t.sold, t.bought>> \in Fraction
<1>1. f[i] \in Bars /\ t.sold \in Int /\ t.bought \in Int
  BY DEF Ledger
<1>2. f[i].close \in Int
  BY <1>1, BarNumbers
<1> QED BY <1>1, <1>2 DEF Worth, Fraction, One

(* One more trade multiplies the story of every bar by its worth there.    *)
LEMMA StoryAppend ==
  ASSUME NEW f \in Seq(Bars), NEW i \in 1 .. Len(f), NEW ts \in Seq(Ledger), NEW t \in Ledger
  PROVE  FoldLeft(Times, One, Story(f, Append(ts, t), i))
           = Times(FoldLeft(Times, One, Story(f, ts, i)), Worth(f, t, i))
<1> DEFINE long == Append(ts, t)
<1>1. /\ Len(long) = Len(ts) + 1 /\ Len(ts) \in Nat /\ long[Len(ts) + 1] = t
      /\ \A k \in 1 .. Len(ts) : long[k] = ts[k] /\ ts[k] \in Ledger
      /\ \A k \in 1 .. Len(long) : long[k] \in Ledger
  OBVIOUS
<1> HIDE DEF long
<1>2. Story(f, ts, i) \in Seq(Fraction) /\ Len(Story(f, ts, i)) = Len(ts)
  <2>1. \A k \in 1 .. Len(ts) : Worth(f, ts[k], i) \in Fraction
    BY <1>1, WorthType
  <2> QED BY <1>1, <2>1 DEF Story
<1>3. Story(f, long, i) \in Seq(Fraction) /\ Len(Story(f, long, i)) = Len(ts) + 1
  <2>1. \A k \in 1 .. Len(long) : Worth(f, long[k], i) \in Fraction
    BY <1>1, WorthType
  <2> QED BY <1>1, <2>1 DEF Story
<1>4. Worth(f, t, i) \in Fraction
  BY WorthType
<1> DEFINE app == Append(Story(f, ts, i), Worth(f, t, i))
<1>5. /\ app \in Seq(Fraction) /\ Len(app) = Len(ts) + 1
      /\ app[Len(ts) + 1] = Worth(f, t, i)
      /\ \A k \in 1 .. Len(ts) : app[k] = Worth(f, ts[k], i)
  <2>1. \A k \in 1 .. Len(ts) : Story(f, ts, i)[k] = Worth(f, ts[k], i)
    BY DEF Story
  <2> QED BY <1>1, <1>2, <1>4, <2>1
<1> HIDE DEF app
<1>6. \A k \in 1 .. Len(ts) + 1 : Story(f, long, i)[k] = app[k]
  <2>1. \A k \in 1 .. Len(ts) + 1 : Story(f, long, i)[k] = Worth(f, long[k], i)
    BY <1>1 DEF Story
  <2>2. \A k \in 1 .. Len(ts) + 1 : k = Len(ts) + 1 \/ k \in 1 .. Len(ts)
    BY <1>1
  <2> QED BY <1>1, <1>5, <2>1, <2>2
<1>7. Story(f, long, i) = app
  BY <1>3, <1>5, <1>6, SeqEqual
<1> QED BY <1>2, <1>4, <1>7, ProductAppend DEF app, long

LEMMA ResultAppend ==
  ASSUME NEW ts \in Seq(Ledger), NEW t \in Ledger
  PROVE  /\ FoldLeft(Times, One, Result(Append(ts, t)))
              = Times(FoldLeft(Times, One, Result(ts)), <<t.sold, t.bought>>)
         /\ Result(ts) \in Seq(Fraction)
<1> DEFINE long == Append(ts, t)
           r(x) == <<x.sold, x.bought>>
<1>1. /\ Len(long) = Len(ts) + 1 /\ Len(ts) \in Nat /\ long[Len(ts) + 1] = t
      /\ \A k \in 1 .. Len(ts) : long[k] = ts[k] /\ ts[k] \in Ledger
      /\ \A k \in 1 .. Len(long) : long[k] \in Ledger
  OBVIOUS
<1>2. \A x \in Ledger : r(x) \in Fraction
  BY DEF Ledger, Fraction
<1>3. Result(ts) = [k \in 1 .. Len(ts) |-> r(ts[k])] /\ Result(long) = [k \in 1 .. Len(long) |-> r(long[k])]
  BY DEF Result
<1> HIDE DEF long, r
<1>4. Result(ts) \in Seq(Fraction) /\ Len(Result(ts)) = Len(ts)
  BY <1>1, <1>2, <1>3
<1>5. Result(long) \in Seq(Fraction) /\ Len(Result(long)) = Len(ts) + 1
  BY <1>1, <1>2, <1>3
<1> DEFINE app == Append(Result(ts), r(t))
<1>6. /\ app \in Seq(Fraction) /\ Len(app) = Len(ts) + 1 /\ app[Len(ts) + 1] = r(t)
      /\ \A k \in 1 .. Len(ts) : app[k] = r(ts[k])
  BY <1>1, <1>2, <1>3, <1>4
<1> HIDE DEF app
<1>7. \A k \in 1 .. Len(ts) + 1 : Result(long)[k] = app[k]
  <2>1. \A k \in 1 .. Len(ts) + 1 : Result(long)[k] = r(long[k])
    BY <1>1, <1>3
  <2>2. \A k \in 1 .. Len(ts) + 1 : k = Len(ts) + 1 \/ k \in 1 .. Len(ts)
    BY <1>1
  <2> QED BY <1>1, <1>6, <2>1, <2>2
<1>8. Result(long) = app
  BY <1>5, <1>6, <1>7, SeqEqual
<1> QED BY <1>2, <1>4, <1>8, ProductAppend DEF app, long, r

(* Only the bar itself matters to what is told of it.                      *)
LEMMA TellsTheSame ==
  ASSUME NEW f \in Seq(Bars), NEW g \in Seq(Bars), NEW i \in Nat, f[i] = g[i],
         NEW ts \in Seq(Ledger), NEW p \in Positions \cup {None}
  PROVE  Told(f, ts, p, i) = Told(g, ts, p, i)
<1>1. Story(f, ts, i) = Story(g, ts, i)
  BY DEF Story, Worth
<1> QED BY <1>1 DEF Told, Held

(* Selling at a later bar, or at the close of the bar itself, changes      *)
(* nothing about what is told of a bar.                                    *)
LEMMA SellTellsTheSame ==
  ASSUME NEW f \in Seq(Bars), NEW i \in 1 .. Len(f), NEW ts \in Seq(Ledger),
         NEW t \in Ledger, NEW p \in Positions, t.entry = p.entry, t.bought = p.price,
         i < t.exit \/ (p.entry <= i /\ t.sold = f[i].close)
  PROVE  Told(f, Append(ts, t), None, i) = Told(f, ts, p, i)
<1>1. p # None
  BY ReplayAssumption DEF Positions
<1>2. Worth(f, t, i) = Held(f, p, i)
  <2>1. i \in Nat /\ t.exit \in Nat /\ p.entry \in Nat
    BY DEF Ledger, Positions
  <2> QED BY <1>1, <2>1 DEF Worth, Held
<1>3. Held(f, None, i) = One
  BY DEF Held
<1>4. Times(Told(f, ts, p, i), One) = Told(f, ts, p, i)
  <2>1. Story(f, ts, i) \in Seq(Fraction)
    <3>1. \A k \in 1 .. Len(ts) : ts[k] \in Ledger
      OBVIOUS
    <3>2. \A k \in 1 .. Len(ts) : Worth(f, ts[k], i) \in Fraction
      BY <3>1, WorthType
    <3> QED BY <3>2 DEF Story
  <2>2. FoldLeft(Times, One, Story(f, ts, i)) \in Fraction
    BY <2>1, ProductType
  <2>3. Told(f, ts, p, i) \in Fraction
    BY <1>2, <2>2, WorthType, TimesType DEF Told
  <2> QED BY <2>3, TimesOne
<1> QED BY <1>2, <1>3, <1>4, StoryAppend DEF Told

LEMMA SellEquity ==
  ASSUME Types, EquityInv, Grows, UNCHANGED equity, Len(equity) <= Len(bars),
         NEW p \in Positions, NEW e \in Nat, NEW price \in Int, NEW why \in Reasons,
         Sell(p, e, price, why),
         \A i \in 1 .. Len(equity) :
           /\ Told(bars, trades, pos, i) = Told(bars, trades, p, i)
           /\ i < e \/ (p.entry <= i /\ price = bars[i].close)
  PROVE  EquityInv'
<1> DEFINE t == [entry |-> p.entry, exit |-> e, bought |-> p.price, sold |-> price, reason |-> why]
<1>1. /\ t \in Ledger /\ t.entry = p.entry /\ t.exit = e /\ t.bought = p.price /\ t.sold = price
      /\ p.price \in Int
  BY DEF Ledger, Positions
<1>2. trades' = Append(trades, t) /\ cash' = Times(cash, <<t.sold, t.bought>>) /\ pos' = None
  BY DEF Sell
<1> HIDE DEF t
<1>3. bars \in Seq(Bars) /\ bars' \in Seq(Bars) /\ trades \in Seq(Ledger) /\ equity \in Seq(Fraction)
  BY OldBars DEF Types
<1>4. cash' = FoldLeft(Times, One, Result(trades'))
  BY <1>1, <1>2, <1>3, ResultAppend DEF EquityInv
<1>5. ASSUME NEW i \in 1 .. Len(equity)
      PROVE  equity'[i] = Told(bars', trades', pos', i)
  <2>1. i \in 1 .. Len(bars) /\ bars'[i] = bars[i]
    BY <1>3, OldBars DEF n
  <2>2. Told(bars, trades', None, i) = Told(bars, trades, p, i)
    BY <1>1, <1>2, <1>3, <2>1, SellTellsTheSame
  <2>3. equity[i] = Told(bars, trades, pos, i)
    BY DEF EquityInv
  <2>4. Told(bars', trades', None, i) = Told(bars, trades', None, i)
    <3> trades' \in Seq(Ledger)
      BY <1>1, <1>2, <1>3
    <3>1. PICK f \in Seq(Bars), ts \in Seq(Ledger) : f = bars' /\ ts = trades'
      BY <1>3
    <3>2. f[i] = bars[i] /\ i \in Nat
      BY <2>1, <3>1
    <3>3. Told(f, ts, None, i) = Told(bars, ts, None, i)
      BY <1>3, <3>1, <3>2, TellsTheSame, Z3
    <3> QED BY <3>1, <3>3
  <2> QED BY <1>2, <2>2, <2>3, <2>4
<1> QED BY <1>4, <1>5 DEF EquityInv

LEMMA OpenBarEquity ==
  ASSUME IInv, EquityInv, NEW b \in Bars, OpenBar(b)
  PROVE  EquityInv'
<1> DEFINE fresh == n > 0 /\ pos = None /\ bars[n].enter
           p     == IF fresh THEN [entry |-> n + 1, price |-> b.open] ELSE pos
           sells == n > 0 /\ p # None /\ bars[n].leave
<1>1. /\ Types /\ Grows /\ n \in Nat /\ Len(equity) = n /\ UNCHANGED equity
      /\ bars \in Seq(Bars) /\ bars' \in Seq(Bars) /\ trades \in Seq(Ledger) /\ n = Len(bars)
      /\ b.open \in Int
  BY Elements, OldBars, BarNumbers DEF IInv, OpenBar, Grows, Types, n
<1>2. p \in Positions \cup {None} /\ (fresh => p \in Positions)
  BY <1>1 DEF Types, Positions
<1>3. ASSUME NEW i \in 1 .. n
      PROVE  Told(bars, trades, pos, i) = Told(bars, trades, p, i)
  <2>1. CASE fresh
    <3>1. p # None /\ p.entry = n + 1 /\ pos = None
      BY <1>2, <2>1, ReplayAssumption DEF Positions
    <3>2. Held(bars, p, i) = One /\ Held(bars, pos, i) = One
      BY <1>1, <3>1 DEF Held
    <3> QED BY <3>2 DEF Told
  <2>2. CASE ~fresh
    BY <2>2
  <2> QED BY <2>1, <2>2
<1>4. IF sells THEN Sell(p, n + 1, b.open, "signal_exit") ELSE Keep(p)
  BY DEF OpenBar
<1>5. CASE sells
  <2>1. p \in Positions /\ Sell(p, n + 1, b.open, "signal_exit")
    BY <1>2, <1>4, <1>5
  <2>2. "signal_exit" \in Reasons /\ n + 1 \in Nat /\ \A i \in 1 .. Len(equity) : i < n + 1
    BY <1>1 DEF Reasons
  <2> HIDE DEF p
  <2> QED BY <1>1, <1>3, <2>1, <2>2, SellEquity
<1>6. CASE ~sells
  <2>1. pos' = p /\ UNCHANGED <<trades, cash>>
    BY <1>4, <1>6 DEF Keep
  <2>2. ASSUME NEW i \in 1 .. n PROVE equity[i] = Told(bars', trades, p, i)
    <3>1. bars'[i] = bars[i] /\ i \in Nat
      BY <1>1, OldBars
    <3>2. PICK f \in Seq(Bars) : f = bars'
      BY <1>1
    <3> HIDE DEF p
    <3>3. Told(f, trades, p, i) = Told(bars, trades, p, i)
      BY <1>1, <1>2, <3>1, <3>2, TellsTheSame, Z3
    <3> QED BY <1>1, <1>3, <3>2, <3>3 DEF EquityInv
  <2> HIDE DEF p
  <2> QED BY <1>1, <2>1, <2>2 DEF EquityInv
<1> QED BY <1>5, <1>6

LEMMA CheckLevelsEquity ==
  ASSUME IInv, EquityInv, CheckLevels
  PROVE  EquityInv'
<1>1. /\ Types /\ Grows /\ n \in Nat /\ Len(equity) = n - 1 /\ UNCHANGED <<bars, equity>>
      /\ n > 0 /\ bars[n] \in Bars /\ n = Len(bars)
  BY Elements DEF IInv, CheckLevels, Grows, Types, n
<1>2. \A i \in 1 .. Len(equity) : i < n
  BY <1>1
<1>3. CASE Keep(pos)
  BY <1>1, <1>3 DEF Keep, EquityInv
<1>4. ASSUME pos # None, NEW price \in Int, NEW why \in Reasons, Sell(pos, n, price, why)
      PROVE  EquityInv'
  <2>1. pos \in Positions
    BY <1>1, <1>4 DEF Types
  <2> QED BY <1>1, <1>2, <1>4, <2>1, SellEquity
<1>5. "stop_loss" \in Reasons /\ "target_hit" \in Reasons
  BY DEF Reasons
<1>6. CASE pos # None /\ StopWins(bars[n]) /\ Sell(pos, n, bars[n].stop, "stop_loss")
  <2>1. bars[n].stop \in Int
    BY <1>1, <1>6, BarNumbers DEF StopWins, StopHit
  <2> QED BY <1>4, <1>5, <1>6, <2>1
<1>7. CASE pos # None /\ TargetHit(bars[n]) /\ Sell(pos, n, bars[n].target, "target_hit")
  <2>1. bars[n].target \in Int
    BY <1>1, <1>7, BarNumbers DEF TargetHit
  <2> QED BY <1>4, <1>5, <1>7, <2>1
<1> QED BY <1>3, <1>6, <1>7 DEF CheckLevels, StopWins

LEMMA ForceCloseEquity ==
  ASSUME IInv, EquityInv, ForceClose
  PROVE  EquityInv'
<1>1. /\ Types /\ Grows /\ n \in Nat /\ Len(equity) = n /\ UNCHANGED <<bars, equity>> /\ n = Len(bars)
  BY Elements DEF IInv, ForceClose, Grows, Types, n
<1>2. CASE pos = None
  BY <1>1, <1>2 DEF ForceClose, Keep, EquityInv
<1>3. CASE pos # None
  <2> DEFINE why == IF Intraday THEN "intraday_squareoff" ELSE "time_exit"
  <2>1. Sell(pos, n, bars[n].close, why) /\ why \in Reasons
    BY <1>3 DEF ForceClose, Reasons
  <2>2. pos \in Positions /\ pos.entry \in 2 .. n
    BY <1>1, <1>3 DEF Types, IInv, PosInv
  <2>3. bars[n].close \in Int
    BY <1>1, <2>2, Elements, BarNumbers
  <2>4. \A i \in 1 .. Len(equity) : i < n \/ (pos.entry <= i /\ bars[n].close = bars[i].close)
    BY <1>1, <2>2
  <2> HIDE DEF why
  <2> QED BY <1>1, <2>1, <2>2, <2>3, <2>4, SellEquity
<1> QED BY <1>2, <1>3

LEMMA MarkToMarketEquity ==
  ASSUME IInv, EquityInv, MarkToMarket
  PROVE  EquityInv'
<1>1. /\ Types /\ n \in Nat /\ n > 0 /\ Len(equity) = n - 1 /\ equity \in Seq(Fraction)
      /\ UNCHANGED <<bars, pos, trades, cash>> /\ cash \in Fraction
      /\ trades \in Seq(Ledger) /\ bars \in Seq(Bars) /\ n = Len(bars)
  BY Elements DEF IInv, MarkToMarket, Types, n
<1>2. \A k \in 1 .. Len(trades) : trades[k].exit <= n /\ trades[k].entry > 1
                                 /\ trades[k].entry <= trades[k].exit /\ trades[k] \in Ledger
  BY <1>1, Elements DEF IInv, AllFollowed, Followed
<1>3. pos # None => pos.entry <= n /\ pos.entry > 1 /\ pos \in Positions
  BY <1>1, Numbers DEF IInv, PosInv
<1>4. Story(bars, trades, n) = Result(trades)
  BY <1>2 DEF Story, Result, Worth
<1>5. equity' = Append(equity, Told(bars, trades, pos, n))
  <2>1. Told(bars, trades, pos, n) = Times(cash, Held(bars, pos, n))
    BY <1>4 DEF Told, EquityInv
  <2>2. CASE pos = None
    BY <1>1, <2>1, <2>2, TimesOne DEF Held, MarkToMarket
  <2>3. CASE pos # None
    BY <1>3, <2>1, <2>3 DEF Held, MarkToMarket
  <2> QED BY <2>2, <2>3
<1>6. Told(bars, trades, pos, n) \in Fraction
  <2>1. Len(equity') = n /\ equity'[n] = Told(bars, trades, pos, n)
    BY <1>1, <1>5
  <2>2. equity' \in Seq(Fraction)
    BY MarkToMarketInv DEF IInv, Types
  <2> QED BY <1>1, <2>1, <2>2
<1>7. /\ Len(equity') = n /\ equity'[n] = Told(bars, trades, pos, n)
      /\ \A i \in 1 .. n - 1 : equity'[i] = equity[i]
  BY <1>1, <1>5, <1>6
<1>8. \A i \in 1 .. n : equity'[i] = Told(bars, trades, pos, i)
  BY <1>1, <1>7 DEF EquityInv
<1>9. equity'[1] = One
  <2>1. CASE n > 1
    BY <1>1, <1>7, <2>1 DEF EquityInv
  <2>2. CASE n = 1
    <3>1. pos = None /\ Len(trades) = 0
      BY <1>1, <1>2, <1>3, <2>2, Elements DEF Positions, Ledger
    <3>2. Result(trades) = <<>>
      BY <3>1 DEF Result
    <3>3. cash = One
      BY <3>2, ProductEmpty DEF EquityInv
    <3>4. Told(bars, trades, pos, 1) = One
      BY <1>4, <2>2, <3>1, <3>3, TimesOne, OneInFraction DEF Told, Held, EquityInv
    <3> QED BY <1>7, <2>2, <3>4
  <2> QED BY <1>1, <2>1, <2>2
<1> QED BY <1>1, <1>7, <1>8, <1>9 DEF EquityInv

LEMMA EquityInductive == Spec => []EquityInv
<1>1. Init => EquityInv
  <2> SUFFICES ASSUME Init PROVE EquityInv
    OBVIOUS
  <2>1. Result(trades) = <<>> /\ cash = One /\ Len(equity) = 0
    BY DEF Init, Result
  <2> QED BY <2>1, ProductEmpty DEF EquityInv
<1>2. IInv /\ EquityInv /\ [Next]_vars => EquityInv'
  <2> SUFFICES ASSUME IInv, EquityInv, [Next]_vars
               PROVE  EquityInv'
    OBVIOUS
  <2>1. ASSUME NEW b \in Bars, OpenBar(b) PROVE EquityInv'
    BY <2>1, OpenBarEquity
  <2>2. CASE CheckLevels
    BY <2>2, CheckLevelsEquity
  <2>3. CASE MarkToMarket
    BY <2>3, MarkToMarketEquity
  <2>4. CASE ForceClose
    BY <2>4, ForceCloseEquity
  <2>5. CASE UNCHANGED vars
    BY <2>5 DEF vars, EquityInv
  <2> QED
    BY <2>1, <2>2, <2>3, <2>4, <2>5 DEF Next
<1> QED
  BY <1>1, <1>2, Inductive, PTL DEF Spec

LEMMA EquityImplies ==
  ASSUME IInv, EquityInv
  PROVE  EquityMatchesLedger
<1> SUFFICES ASSUME step = "done"
             PROVE  /\ \A i \in 1 .. n : Same(equity[i], FoldLeft(Times, One, Story(bars, trades, i)))
                    /\ n > 0 => Same(cash, equity[n])
  BY DEF EquityMatchesLedger, Story, Worth
<1>1. /\ Types /\ pos = None /\ n \in Nat /\ Len(equity) = n /\ n = Len(bars)
      /\ trades \in Seq(Ledger) /\ bars \in Seq(Bars) /\ cash \in Fraction
  BY Elements DEF IInv, PosInv, Types, n
<1>2. \A a \in Fraction : Same(a, a)
  BY DEF Same
<1>3. ASSUME NEW i \in 1 .. n
      PROVE  /\ FoldLeft(Times, One, Story(bars, trades, i)) \in Fraction
             /\ equity[i] = FoldLeft(Times, One, Story(bars, trades, i))
  <2>1. Story(bars, trades, i) \in Seq(Fraction)
    <3>1. \A k \in 1 .. Len(trades) : trades[k] \in Ledger
      BY <1>1
    <3>2. \A k \in 1 .. Len(trades) : Worth(bars, trades[k], i) \in Fraction
      BY <1>1, <3>1, WorthType
    <3> QED BY <1>1, <3>2 DEF Story
  <2>2. FoldLeft(Times, One, Story(bars, trades, i)) \in Fraction
    BY <2>1, ProductType
  <2>3. Held(bars, pos, i) = One
    BY <1>1 DEF Held
  <2> QED BY <1>1, <2>2, <2>3, TimesOne DEF EquityInv, Told
<1>4. ASSUME n > 0 PROVE Story(bars, trades, n) = Result(trades)
  <2>1. \A k \in 1 .. Len(trades) : trades[k].exit <= n
    BY <1>1 DEF IInv, AllFollowed, Followed
  <2> QED BY <2>1 DEF Story, Result, Worth
<1>5. n > 0 => cash = equity[n]
  BY <1>1, <1>3, <1>4 DEF EquityInv
<1> QED BY <1>1, <1>2, <1>3, <1>5

(* The equity curve of a finished replay is, at every bar, the product of  *)
(* what each trade of the ledger has come to, and the final capital is its *)
(* last point.                                                             *)
THEOREM CurveMatchesLedger == Spec => []EquityMatchesLedger
<1>1. IInv /\ EquityInv => EquityMatchesLedger
  BY EquityImplies
<1> QED
  BY <1>1, Inductive, EquityInductive, PTL

-----------------------------------------------------------------------------
(* Prices are positive, so the capital is, and a decline is defined.       *)
PositiveInv == cash \in Positive /\ equity \in Seq(Positive)

LEMMA PositivePrices ==
  ASSUME NEW b \in Bars
  PROVE  /\ b.open \in Nat \ {0} /\ b.close \in Nat \ {0}
         /\ StopHit(b) => b.stop \in Nat \ {0}
         /\ TargetHit(b) => b.target \in Nat \ {0}
<1>1. b.low > 0 /\ b.low <= b.open /\ b.low <= b.close
  BY ReplayAssumption
<1>2. StopHit(b) => b.stop \in Int /\ b.low <= b.stop
  BY BarNumbers DEF StopHit
<1>3. TargetHit(b) => b.target \in Int /\ b.target > 0
  BY BarNumbers, TargetAssumption DEF TargetHit
<1> QED BY <1>1, <1>2, <1>3, BarNumbers

LEMMA SellPositive ==
  ASSUME cash \in Positive, NEW p, NEW i, NEW price \in Nat \ {0}, NEW why,
         p.price \in Nat \ {0}, Sell(p, i, price, why)
  PROVE  cash' \in Positive
<1>1. cash' = Times(cash, <<price, p.price>>) /\ <<price, p.price>> \in Positive
  BY DEF Sell, Positive
<1> QED BY <1>1, TimesPositive

LEMMA PositiveStep ==
  ASSUME IInv, PositiveInv, [Next]_vars
  PROVE  PositiveInv'
<1>1. Types /\ n \in Nat /\ \A i \in 1 .. n : bars[i] \in Bars
  BY Elements DEF IInv
<1>2. pos # None => pos.price \in Nat \ {0} /\ n > 0
  <2>1. pos # None => pos.entry \in 2 .. n /\ pos.price = bars[pos.entry].open
    BY DEF IInv, PosInv
  <2>2. pos # None => pos.entry \in 1 .. n
    BY <1>1, <2>1
  <2> QED BY <1>1, <2>1, <2>2, PositivePrices
<1>3. ASSUME NEW b \in Bars, OpenBar(b) PROVE PositiveInv'
  <2> DEFINE fresh == n > 0 /\ pos = None /\ bars[n].enter
             p     == IF fresh THEN [entry |-> n + 1, price |-> b.open] ELSE pos
             sells == n > 0 /\ p # None /\ bars[n].leave
  <2>1. (IF sells THEN Sell(p, n + 1, b.open, "signal_exit") ELSE Keep(p)) /\ UNCHANGED equity
    BY <1>3 DEF OpenBar
  <2>2. p # None => p.price \in Nat \ {0}
    BY <1>2, PositivePrices
  <2>3. CASE sells
    <3>1. Sell(p, n + 1, b.open, "signal_exit") /\ p.price \in Nat \ {0} /\ b.open \in Nat \ {0}
      BY <2>1, <2>2, <2>3, PositivePrices
    <3> HIDE DEF p
    <3> QED BY <2>1, <3>1, SellPositive DEF PositiveInv
  <2>4. CASE ~sells
    BY <2>1, <2>4 DEF Keep, PositiveInv
  <2> QED BY <2>3, <2>4
<1>4. CASE CheckLevels
  <2>1. n > 0 /\ bars[n] \in Bars /\ UNCHANGED equity
    BY <1>1, <1>4 DEF CheckLevels, Types
  <2>2. CASE pos # None /\ StopWins(bars[n]) /\ Sell(pos, n, bars[n].stop, "stop_loss")
    <3>1. bars[n].stop \in Nat \ {0}
      BY <2>1, <2>2, PositivePrices DEF StopWins
    <3> QED BY <1>2, <2>1, <2>2, <3>1, SellPositive DEF PositiveInv
  <2>3. CASE pos # None /\ TargetHit(bars[n]) /\ Sell(pos, n, bars[n].target, "target_hit")
    <3>1. bars[n].target \in Nat \ {0}
      BY <2>1, <2>3, PositivePrices
    <3> QED BY <1>2, <2>1, <2>3, <3>1, SellPositive DEF PositiveInv
  <2>4. CASE Keep(pos)
    BY <2>1, <2>4 DEF Keep, PositiveInv
  <2> QED BY <1>4, <2>2, <2>3, <2>4 DEF CheckLevels, StopWins
<1>5. CASE MarkToMarket
  <2>1. /\ n > 0 /\ bars[n] \in Bars /\ UNCHANGED <<bars, cash>>
        /\ equity' = Append(equity, IF pos = None THEN cash
                                    ELSE Times(cash, <<bars[n].close, pos.price>>))
    BY <1>1, <1>5 DEF MarkToMarket, Types
  <2>2. pos # None => Times(cash, <<bars[n].close, pos.price>>) \in Positive
    <3>1. pos # None => <<bars[n].close, pos.price>> \in Positive
      BY <1>2, <2>1, PositivePrices DEF Positive
    <3> QED BY <3>1, TimesPositive DEF PositiveInv
  <2> QED BY <2>1, <2>2 DEF PositiveInv
<1>6. CASE ForceClose
  <2>1. UNCHANGED equity
    BY <1>6 DEF ForceClose
  <2>2. CASE pos = None
    BY <1>6, <2>1, <2>2 DEF ForceClose, Keep, PositiveInv
  <2>3. CASE pos # None
    <3> DEFINE why == IF Intraday THEN "intraday_squareoff" ELSE "time_exit"
    <3>1. Sell(pos, n, bars[n].close, why) /\ bars[n].close \in Nat \ {0}
      BY <1>1, <1>2, <1>6, <2>3, PositivePrices DEF ForceClose
    <3> HIDE DEF why
    <3> QED BY <1>2, <2>1, <2>3, <3>1, SellPositive DEF PositiveInv
  <2> QED BY <2>2, <2>3
<1>7. CASE UNCHANGED vars
  BY <1>7 DEF vars, PositiveInv
<1> QED BY <1>3, <1>4, <1>5, <1>6, <1>7 DEF Next

LEMMA PositiveInductive == Spec => []PositiveInv
<1>1. Init => PositiveInv
  BY DEF Init, PositiveInv, Positive, One
<1> QED
  BY <1>1, PositiveStep, Inductive, PTL DEF Spec

(* The reported drawdown is the worst decline between two points of the    *)
(* curve in time order, the initial capital included.                      *)
THEOREM DrawdownIsWorst == Spec => []DrawdownIsWorstDecline
<1>1. IInv /\ EquityInv /\ PositiveInv => DrawdownIsWorstDecline
  <2> SUFFICES ASSUME IInv, EquityInv, PositiveInv, step = "done", n > 0
               PROVE  /\ Same(equity[1], One)
                      /\ \A j \in 1 .. n : \A i \in 1 .. j : AtMost(MaxDrawdown(equity), Decline(equity, i, j))
                      /\ \E j \in 1 .. n : \E i \in 1 .. j : Same(MaxDrawdown(equity), Decline(equity, i, j))
    BY DEF DrawdownIsWorstDecline, Decline
  <2>1. Len(equity) = n /\ equity \in Seq(Positive) /\ n \in Nat
    BY Elements DEF IInv, Types, PositiveInv
  <2>2. /\ \A j \in 1 .. n : \A i \in 1 .. j : AtMost(MaxDrawdown(equity), Decline(equity, i, j))
        /\ \E j \in 1 .. n : \E i \in 1 .. j : MaxDrawdown(equity) = Decline(equity, i, j)
    BY <2>1, MaxDrawdownIsWorst
  <2>3. \A a : Same(a, a)
    BY DEF Same
  <2>4. equity[1] = One
    BY <2>1 DEF EquityInv
  <2> QED BY <2>2, <2>3, <2>4
<1> QED
  BY <1>1, Inductive, EquityInductive, PositiveInductive, PTL
-----------------------------------------------------------------------------
(* A trade was bought at the open of a bar, a positive price.              *)
LEMMA TradeReturns ==
  ASSUME IInv, NEW j \in 1 .. Len(trades)
  PROVE  /\ PnlPct(trades[j]) \in Proper
         /\ PnlPct(trades[j])[1] = trades[j].sold - trades[j].bought
<1>1. Types /\ n \in Nat /\ n = Len(bars) /\ \A i \in 1 .. n : bars[i] \in Bars
  BY Elements DEF IInv, n
<1>2. trades[j] \in Ledger
  BY <1>1 DEF Types
<1>3. PICK t : t = trades[j] /\ t.sold \in Int /\ t.bought \in Int /\ t.entry \in Nat /\ t.exit \in Nat
  BY <1>2 DEF Ledger
<1>4. t.entry \in 1 .. n /\ t.bought = bars[t.entry].open
  BY <1>1, <1>3 DEF IInv, AllFollowed, Followed
<1>5. t.bought \in Nat \ {0}
  BY <1>1, <1>4, PositivePrices
<1>6. PnlPct(t) = <<t.sold - t.bought, t.bought>>
  BY <1>3 DEF PnlPct, Minus, One
<1> QED BY <1>3, <1>5, <1>6 DEF Proper

(* Expectancy is at most the mean return per trade, and is less exactly    *)
(* when some trade breaks even and another one loses: compute_metrics      *)
(* weighs the average loss with every trade that is not a win.             *)
THEOREM ExpectancyIsNoFlattery == Spec => []ExpectancyNeverFlatters
<1>1. IInv => ExpectancyNeverFlatters
  <2> DEFINE even == \E j \in 1 .. Len(trades) : trades[j].sold - trades[j].bought = 0
             lost == \E j \in 1 .. Len(trades) : trades[j].sold - trades[j].bought < 0
  <2> SUFFICES ASSUME IInv, step = "done"
               PROVE  /\ AtMost(Expectancy(trades), Mean(Returns(trades)))
                      /\ ~Same(Expectancy(trades), Mean(Returns(trades))) <=> even /\ lost
    BY DEF ExpectancyNeverFlatters, Returns
  <2>1. PICK m \in Nat : m = Len(trades)
    BY Elements DEF IInv
  <2>2. \A j \in 1 .. m : /\ PnlPct(trades[j]) \in Proper
                          /\ PnlPct(trades[j])[1] = trades[j].sold - trades[j].bought
    BY <2>1, TradeReturns
  <2>3. CASE m = 0
    <3>1. trades = <<>>
      <4>1. trades \in Seq(Ledger)
        BY DEF IInv, Types
      <4> QED BY <2>1, <2>3, <4>1, EmptySeq
    <3>2. 1 .. Len(trades) = {}
      BY <2>1, <2>3
    <3>3. ~even
      BY <3>2, Zenon
    <3> HIDE DEF even, lost
    <3> QED BY <3>1, <3>3, ExpectancyOfNothing
  <2>4. CASE m > 0
    <3>1. trades # <<>> /\ m \in Nat \ {0}
      BY <2>1, <2>4
    <3>2. /\ AtMost(Expectancy(trades), Mean(Returns(trades)))
          /\ ~Same(Expectancy(trades), Mean(Returns(trades)))
               <=> /\ \E i \in 1 .. m : PnlPct(trades[i])[1] = 0
                   /\ \E i \in 1 .. m : PnlPct(trades[i])[1] < 0
      BY <2>1, <2>2, <3>1, ExpectancyAtMostMean
    <3>3. /\ (\E i \in 1 .. m : PnlPct(trades[i])[1] = 0) <=> even
          /\ (\E i \in 1 .. m : PnlPct(trades[i])[1] < 0) <=> lost
      BY <2>1, <2>2
    <3> HIDE DEF even, lost
    <3> QED BY <3>2, <3>3
  <2> QED BY <2>3, <2>4
<1> QED
  BY <1>1, Inductive, PTL
=============================================================================
