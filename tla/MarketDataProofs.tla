--------------------------- MODULE MarketDataProofs ---------------------------
(***************************************************************************)
(* What MarketData promises for any market, day length, requests, chunk    *)
(* size, number of retries and number of processes.  The plan of a request *)
(* is treated first: every instant its first read did not see lies in a    *)
(* planned range or in a gap over midnight (PlanCovers).  The invariant    *)
(* then says of each candle where it is: stored, still planned, or never   *)
(* to be fetched.                                                          *)
(***************************************************************************)
EXTENDS MarketData, WellFoundedInduction, TLAPS

(* The natural numbers are well ordered.                                   *)
LEMMA Least ==
  ASSUME NEW S \in SUBSET Nat, S # {}
  PROVE  \E x \in S : \A y \in S : x <= y
<1>1. PICK x \in S : \A y \in S : <<y, x>> \notin OpToRel(<, Nat)
  BY WFMin, NatLessThanWellFounded
<1>2. \A y \in S : ~(y < x)
  BY <1>1 DEF OpToRel
<1> QED BY <1>2

(* Of numbers with a bound one is the greatest.                            *)
LEMMA Greatest ==
  ASSUME NEW N \in Nat, NEW S \in SUBSET Nat, S # {}, \A x \in S : x <= N
  PROVE  \E x \in S : \A y \in S : x >= y
<1> DEFINE T == {d \in Nat : \E x \in S : d = N - x}
<1>1. \A x \in S : N - x \in T
  OBVIOUS
<1>2. PICK d \in T : \A e \in T : d <= e
  <2>1. T \in SUBSET Nat /\ T # {}
    BY <1>1
  <2> HIDE DEF T
  <2> QED BY <2>1, Least
<1>3. PICK x \in S : d = N - x
  OBVIOUS
<1>4. \A y \in S : d <= N - y
  BY <1>1, <1>2
<1> QED BY <1>3, <1>4

LEMMA MinFacts ==
  ASSUME NEW S \in SUBSET Nat, S # {}
  PROVE  Min(S) \in S /\ \A y \in S : Min(S) <= y
BY Least DEF Min

LEMMA MaxFacts ==
  ASSUME NEW N \in Nat, NEW S \in SUBSET Nat, S # {}, \A x \in S : x <= N
  PROVE  Max(S) \in S /\ \A y \in S : Max(S) >= y
BY Greatest DEF Max

Ranges == Nat \X Nat

LEMMA FirstFacts ==
  ASSUME NEW R \in SUBSET Ranges, R # {}
  PROVE  First(R) \in R /\ \A q \in R : First(R)[1] <= q[1]
<1> DEFINE T == {q[1] : q \in R}
<1>1. T \in SUBSET Nat /\ T # {}
  BY DEF Ranges
<1>2. PICK x \in T : \A y \in T : x <= y
  BY <1>1, Least
<1>3. PICK q \in R : q[1] = x
  OBVIOUS
<1>4. \A o \in R : q[1] <= o[1]
  BY <1>2, <1>3
<1> QED BY <1>4 DEF First

-----------------------------------------------------------------------------
(* What a first read of a request can return.                              *)
Asked(r) == r \in Ranges /\ r[1] <= r[2]
Seen(S, r) == S \in SUBSET Nat /\ \A t \in S : r[1] <= t /\ t <= r[2]

Cells(S, r) == UNION {p[1] .. p[2] - 1 : p \in RawRanges(S, r)}

(* Raw ranges lie inside the request.                                      *)
LEMMA RawInside ==
  ASSUME NEW r, Asked(r), NEW S, Seen(S, r), NEW p \in RawRanges(S, r)
  PROVE  p \in Ranges /\ r[1] <= p[1] /\ p[2] <= r[2]
<1>1. r[1] \in Nat /\ r[2] \in Nat
  BY DEF Asked, Ranges
<1>2. CASE S = {}
  BY <1>1, <1>2 DEF RawRanges, Asked
<1>3. CASE S # {}
  <2>1. Min(S) \in S /\ Max(S) \in S
    BY <1>1, <1>3, MinFacts, MaxFacts DEF Seen
  <2>2. \A t \in S : t \in Nat /\ r[1] <= t /\ t <= r[2]
    BY DEF Seen
  <2>3. CASE p \in Neighbours(S)
    BY <2>2, <2>3 DEF Neighbours, Ranges
  <2>4. CASE p = <<r[1], Min(S)>> \/ p = <<Max(S), r[2]>>
    BY <1>1, <2>1, <2>2, <2>4 DEF Ranges
  <2> QED BY <1>3, <2>3, <2>4 DEF RawRanges
<1> QED BY <1>2, <1>3

(* The cells of the raw ranges are instants before the end of the request. *)
LEMMA CellsInside ==
  ASSUME NEW r, Asked(r), NEW S, Seen(S, r), NEW c \in Cells(S, r)
  PROVE  c \in Nat /\ r[1] <= c /\ c < r[2]
<1>1. PICK p \in RawRanges(S, r) : c \in p[1] .. p[2] - 1
  BY DEF Cells
<1>2. /\ p[1] \in Nat /\ p[2] \in Nat /\ r[1] <= p[1] /\ p[2] <= r[2]
      /\ r[1] \in Nat /\ r[2] \in Nat
  BY RawInside DEF Ranges, Asked
<1> QED BY <1>1, <1>2

LEMMA MissingDef ==
  ASSUME NEW r, NEW S, NEW p
  PROVE  p \in MissingRanges(S, r) <=>
           /\ p \in Cells(S, r) \X {c + 1 : c \in Cells(S, r)}
           /\ p[1] < p[2] /\ p[1] .. p[2] - 1 \subseteq Cells(S, r)
           /\ p[1] - 1 \notin Cells(S, r) /\ p[2] \notin Cells(S, r)
BY DEF MissingRanges, Cells

(* Planned ranges are proper and lie inside the request.                   *)
LEMMA MissingInside ==
  ASSUME NEW r, Asked(r), NEW S, Seen(S, r), NEW p \in MissingRanges(S, r)
  PROVE  p \in Ranges /\ r[1] <= p[1] /\ p[1] < p[2] /\ p[2] <= r[2]
<1> DEFINE C == Cells(S, r)
<1>1. p \in C \X {c + 1 : c \in C} /\ p[1] < p[2]
  BY MissingDef
<1>2. PICK c \in C : p[2] = c + 1
  BY <1>1
<1>3. p[1] \in C
  BY <1>1
<1>4. p[1] \in Nat /\ r[1] <= p[1] /\ c \in Nat /\ c < r[2] /\ r[2] \in Nat
  BY <1>3, CellsInside DEF Asked, Ranges
<1> HIDE DEF C
<1>5. p = <<p[1], p[2]>>
  BY <1>1
<1>6. p[2] \in Nat /\ p[2] <= r[2]
  BY <1>2, <1>4
<1> QED BY <1>1, <1>4, <1>5, <1>6 DEF Ranges

(* A proper raw range lies inside a planned one, the run of cells around   *)
(* it.                                                                     *)
LEMMA RawIsPlanned ==
  ASSUME NEW r, Asked(r), NEW S, Seen(S, r), NEW p \in RawRanges(S, r), p[1] < p[2]
  PROVE  \E m \in MissingRanges(S, r) : m[1] <= p[1] /\ p[2] <= m[2]
<1> DEFINE C == Cells(S, r)
<1>1. p[1] \in Nat /\ p[2] \in Nat /\ p[2] <= r[2] /\ r[2] \in Nat
  BY RawInside DEF Ranges, Asked
<1>2. p[1] .. p[2] - 1 \subseteq C
  BY DEF Cells
<1>3. \A c \in C : c \in Nat /\ c < r[2]
  BY CellsInside
<1> HIDE DEF C
<1>4. PICK lo \in Nat : /\ lo <= p[1] /\ lo .. p[1] \subseteq C
                        /\ \A x \in Nat : x <= p[1] /\ x .. p[1] \subseteq C => lo <= x
  <2> DEFINE T == {x \in Nat : x <= p[1] /\ x .. p[1] \subseteq C}
  <2>1. p[1] \in T
    BY <1>1, <1>2
  <2>2. PICK x \in T : \A y \in T : x <= y
    <3>1. T \in SUBSET Nat /\ T # {}
      BY <2>1
    <3> HIDE DEF T
    <3> QED BY <3>1, Least
  <2> QED BY <2>2
<1>5. PICK hi \in Nat : /\ p[1] < hi /\ hi \notin C
                        /\ \A x \in Nat : p[1] < x /\ x \notin C => hi <= x
  <2> DEFINE T == {x \in Nat : p[1] < x /\ x \notin C}
  <2>1. r[2] \in T
    BY <1>1, <1>3
  <2>2. PICK x \in T : \A y \in T : x <= y
    <3>1. T \in SUBSET Nat /\ T # {}
      BY <2>1
    <3> HIDE DEF T
    <3> QED BY <3>1, Least
  <2> QED BY <2>2
<1>6. lo - 1 \notin C
  <2> SUFFICES ASSUME lo - 1 \in C PROVE FALSE
    OBVIOUS
  <2>1. lo - 1 \in Nat
    BY <1>3
  <2>2. (lo - 1) .. p[1] \subseteq C
    BY <1>1, <1>4
  <2> QED BY <1>1, <1>4, <2>1, <2>2
<1>7. lo .. hi - 1 \subseteq C
  <2> SUFFICES ASSUME NEW x \in lo .. hi - 1 PROVE x \in C
    OBVIOUS
  <2>1. CASE x <= p[1]
    BY <1>1, <1>4, <2>1
  <2>2. CASE p[1] < x
    BY <1>1, <1>5, <2>2
  <2> QED BY <1>1, <2>1, <2>2
<1>8. p[2] <= hi
  BY <1>1, <1>2, <1>5
<1>9. <<lo, hi>> \in C \X {c + 1 : c \in C}
  <2>1. lo \in C /\ hi - 1 \in C
    BY <1>1, <1>4, <1>5, <1>7
  <2>2. hi = (hi - 1) + 1
    OBVIOUS
  <2> QED BY <2>1, <2>2
<1>10. <<lo, hi>> \in MissingRanges(S, r)
  BY <1>1, <1>4, <1>5, <1>6, <1>7, <1>9, MissingDef DEF C
<1> QED BY <1>4, <1>8, <1>10

(* An instant the first read did not see, of a proper request, lies in a   *)
(* planned range or strictly inside a gap over midnight.                   *)
LEMMA PlanCovers ==
  ASSUME NEW r, Asked(r), r[1] < r[2], NEW S, Seen(S, r),
         NEW c \in Nat, r[1] <= c, c <= r[2], c \notin S
  PROVE  \/ \E m \in MissingRanges(S, r) : m[1] <= c /\ c <= m[2]
         \/ \E g \in Neighbours(S) : g[1] < c /\ c < g[2] /\ day(g[1]) # day(g[2])
<1>1. r[1] \in Nat /\ r[2] \in Nat /\ S \subseteq Nat
  BY DEF Asked, Ranges, Seen
<1>2. ASSUME NEW p \in RawRanges(S, r), p[1] < p[2], p[1] <= c, c <= p[2]
      PROVE  \E m \in MissingRanges(S, r) : m[1] <= c /\ c <= m[2]
  <2>1. PICK m \in MissingRanges(S, r) : m[1] <= p[1] /\ p[2] <= m[2]
    BY <1>2, RawIsPlanned
  <2>2. m \in Ranges /\ p \in Ranges
    BY MissingInside, RawInside
  <2> QED BY <1>2, <2>1, <2>2 DEF Ranges
<1>3. CASE S = {}
  <2>1. r \in RawRanges(S, r)
    BY <1>3 DEF RawRanges
  <2> QED BY <1>2, <2>1
<1>4. CASE S # {}
  <2>1. /\ Min(S) \in S /\ \A y \in S : Min(S) <= y
        /\ Max(S) \in S /\ \A y \in S : Max(S) >= y
    BY <1>1, <1>4, MinFacts, MaxFacts DEF Seen
  <2>2. /\ <<r[1], Min(S)>> \in RawRanges(S, r) /\ <<Max(S), r[2]>> \in RawRanges(S, r)
    BY <1>4 DEF RawRanges
  <2>3. Min(S) \in Nat /\ Max(S) \in Nat
    BY <1>1, <2>1
  <2>4. CASE c < Min(S)
    <3>1. r[1] < Min(S)
      BY <1>1, <2>3, <2>4
    <3> QED BY <1>1, <1>2, <2>2, <2>3, <2>4, <3>1
  <2>5. CASE Max(S) < c
    <3>1. Max(S) < r[2]
      BY <1>1, <2>3, <2>5
    <3> QED BY <1>1, <1>2, <2>2, <2>3, <2>5, <3>1
  <2>6. CASE Min(S) < c /\ c < Max(S)
    <3>1. PICK a \in S : a < c /\ \A y \in S : y < c => y <= a
      <4> DEFINE T == {t \in S : t < c}
      <4>0. Min(S) \in T
        BY <2>1, <2>6
      <4>1. T \in SUBSET Nat /\ T # {} /\ \A x \in T : x <= c
        <5>1. \A x \in T : x \in Nat /\ x <= c
          BY <1>1
        <5> HIDE DEF T
        <5> QED BY <4>0, <5>1
      <4>2. PICK x \in T : \A y \in T : x >= y
        <5> HIDE DEF T
        <5> QED BY <4>1, Greatest
      <4> QED BY <1>1, <4>2
    <3>2. PICK b \in S : c < b /\ \A y \in S : c < y => b <= y
      <4> DEFINE T == {t \in S : c < t}
      <4>1. T \in SUBSET Nat /\ T # {}
        BY <1>1, <2>1, <2>6
      <4>2. PICK x \in T : \A y \in T : x <= y
        <5> HIDE DEF T
        <5> QED BY <4>1, Least
      <4> QED BY <1>1, <4>2
    <3>3. a \in Nat /\ b \in Nat
      BY <1>1
    <3>4. ~ \E t \in S : a < t /\ t < b
      <4> SUFFICES ASSUME NEW t \in S, a < t, t < b PROVE FALSE
        OBVIOUS
      <4>1. t \in Nat /\ t # c
        BY <1>1
      <4> QED BY <3>1, <3>2, <3>3, <4>1
    <3>5. <<a, b>> \in Neighbours(S)
      BY <3>1, <3>2, <3>3, <3>4 DEF Neighbours
    <3>6. CASE day(a) # day(b)
      BY <3>1, <3>2, <3>5, <3>6
    <3>7. CASE day(a) = day(b)
      <4>1. 2 * (b - a) > 3
        BY <3>1, <3>2, <3>3
      <4>2. <<a, b>> \in RawRanges(S, r)
        BY <1>4, <3>5, <3>7, <4>1 DEF RawRanges
      <4> QED BY <1>2, <3>1, <3>2, <3>3, <4>2
    <3> QED BY <3>6, <3>7
  <2>7. c # Min(S) /\ c # Max(S)
    BY <2>1
  <2> QED BY <2>3, <2>4, <2>5, <2>6, <2>7
<1> QED BY <1>3, <1>4

-----------------------------------------------------------------------------
Phases == {"idle", "fetch", "store", "read", "answered", "failed"}

Request == [phase : Phases, ask : Ranges, seen : SUBSET Market, todo : SUBSET Ranges,
            at : Nat, attempt : Nat, rows : SUBSET Market, answer : SUBSET Market]

\* The candle is stored, or the plan never asks for it.
Settled(q, S, c) == c \in S \/ InOvernightGap(q, c)

\* The plan of a request: proper ranges, and each candle settled or in one of them.
PlanInv(q, S) ==
  q.phase \in {"fetch", "store", "read", "failed"} =>
    /\ \A m \in q.todo : q.ask[1] <= m[1] /\ m[1] < m[2] /\ m[2] <= q.ask[2]
    /\ q.ask[1] < q.ask[2] =>
         \A c \in Within(Market, q.ask) :
           Settled(q, S, c) \/ \E m \in q.todo : m[1] <= c /\ c <= m[2]
    /\ IF q.phase = "read" THEN q.todo = {} ELSE q.todo # {}

\* Where a fetch stands in its range, and that its rows are what it passed.
FetchInv(q) ==
  /\ q.phase = "fetch" =>
       /\ First(q.todo)[1] <= q.at /\ q.at < First(q.todo)[2] /\ q.attempt <= MaxRetries
       /\ \A c \in Market : First(q.todo)[1] <= c /\ c < q.at => c \in q.rows
  /\ q.phase = "store" =>
       /\ q.at = First(q.todo)[2] /\ Within(Market, First(q.todo)) \subseteq q.rows
  /\ q.attempt <= MaxRetries + 1

AnswerInv(q) ==
  q.phase = "answered" /\ q.ask[1] < q.ask[2] =>
    \A c \in Within(Market, q.ask) : Settled(q, q.answer, c)

RequestInv(q, S) ==
  /\ q \in Request /\ q.seen \subseteq S /\ q.answer \subseteq S
  /\ PlanInv(q, S) /\ FetchInv(q) /\ AnswerInv(q)

IInv ==
  /\ store \subseteq Market /\ asks \in 0 .. MaxAsks
  /\ DOMAIN req = Process /\ req = [p \in Process |-> req[p]]
  /\ \A p \in Process : RequestInv(req[p], store)

-----------------------------------------------------------------------------
(* What other requests store takes nothing from a request.                 *)
LEMMA StoreGrows ==
  ASSUME NEW q, NEW S, NEW T, S \subseteq T, RequestInv(q, S)
  PROVE  RequestInv(q, T)
BY DEF RequestInv, PlanInv, Settled

(* A step that stores nothing less and leaves one request consistent keeps *)
(* the invariant.                                                          *)
LEMMA OneMoves ==
  ASSUME IInv, NEW p \in Process, NEW q, req' = [req EXCEPT ![p] = q],
         store \subseteq store', store' \subseteq Market, asks' \in 0 .. MaxAsks,
         RequestInv(q, store')
  PROVE  IInv'
<1>1. req'[p] = q /\ \A o \in Process \ {p} : req'[o] = req[o]
  BY DEF IInv
<1>2. \A o \in Process : RequestInv(req'[o], store')
  <2>1. \A o \in Process \ {p} : RequestInv(req[o], store')
    BY StoreGrows DEF IInv
  <2> QED BY <1>1, <2>1
<1>3. DOMAIN req' = Process /\ req' = [o \in Process |-> req'[o]]
  BY DEF IInv
<1> QED BY <1>2, <1>3 DEF IInv

(* The fields after Turn.                                                  *)
LEMMA TurnFields ==
  ASSUME NEW q \in Request, NEW todo \in SUBSET Ranges
  PROVE  /\ Turn(q, todo) \in Request
         /\ Turn(q, todo).ask = q.ask /\ Turn(q, todo).seen = q.seen
         /\ Turn(q, todo).answer = q.answer /\ Turn(q, todo).todo = todo
         /\ Turn(q, todo).rows = {} /\ Turn(q, todo).attempt = 0
         /\ todo = {} => Turn(q, todo).phase = "read"
         /\ todo # {} => /\ Turn(q, todo).phase = "fetch"
                         /\ Turn(q, todo).at = First(todo)[1]
<1>1. todo # {} => First(todo)[1] \in Nat
  BY FirstFacts DEF Ranges
<1>2. (IF todo = {} THEN "read" ELSE "fetch") \in Phases
  BY DEF Phases
<1>3. (IF todo = {} THEN q.at ELSE First(todo)[1]) \in Nat
  BY <1>1 DEF Request
<1> QED BY <1>2, <1>3 DEF Turn, Request

(* A turn to ranges that cover what is not settled is consistent.          *)
LEMMA TurnInv ==
  ASSUME NEW q \in Request, NEW todo \in SUBSET Ranges, NEW S, q.seen \subseteq S, q.answer \subseteq S,
         \A m \in todo : q.ask[1] <= m[1] /\ m[1] < m[2] /\ m[2] <= q.ask[2],
         q.ask[1] < q.ask[2] =>
           \A c \in Within(Market, q.ask) :
             Settled(q, S, c) \/ \E m \in todo : m[1] <= c /\ c <= m[2]
  PROVE  RequestInv(Turn(q, todo), S)
<1> DEFINE n == Turn(q, todo)
<1>1. /\ n \in Request /\ n.ask = q.ask /\ n.seen = q.seen /\ n.answer = q.answer /\ n.todo = todo
      /\ n.rows = {} /\ n.attempt = 0
      /\ todo = {} => n.phase = "read"
      /\ todo # {} => n.phase = "fetch" /\ n.at = First(todo)[1]
  BY TurnFields
<1> HIDE DEF n
<1>2. n.phase \in {"read", "fetch"}
  BY <1>1
<1>3. PlanInv(n, S)
  <2>1. \A c : InOvernightGap(n, c) <=> InOvernightGap(q, c)
    BY <1>1 DEF InOvernightGap
  <2> QED BY <1>1, <2>1 DEF PlanInv, Settled
<1>4. FetchInv(n)
  <2>1. CASE todo = {}
    BY <1>1, <2>1, MarketAssumption DEF FetchInv
  <2>2. CASE todo # {}
    <3>1. First(todo) \in todo /\ First(todo)[1] \in Nat
      BY <2>2, FirstFacts DEF Ranges
    <3>2. First(todo)[1] < First(todo)[2]
      BY <3>1
    <3>3. \A c \in Market : ~(First(todo)[1] <= c /\ c < First(todo)[1])
      BY <3>1, MarketAssumption
    <3> QED BY <1>1, <2>2, <3>1, <3>2, <3>3, MarketAssumption DEF FetchInv
  <2> QED BY <2>1, <2>2
<1>5. AnswerInv(n)
  BY <1>2 DEF AnswerInv
<1> QED BY <1>1, <1>3, <1>4, <1>5 DEF RequestInv, n

LEMMA IdleInv == RequestInv(Idle, {}) /\ Idle \in Request
<1>1. Idle \in Request
  BY DEF Idle, Request, Phases, Ranges
<1>2. Idle.phase = "idle" /\ Idle.seen = {} /\ Idle.answer = {} /\ Idle.attempt = 0
  BY DEF Idle
<1>3. PlanInv(Idle, {}) /\ FetchInv(Idle) /\ AnswerInv(Idle)
  BY <1>2, MarketAssumption DEF PlanInv, FetchInv, AnswerInv
<1> QED BY <1>1, <1>2, <1>3 DEF RequestInv

LEMMA InitInv == Init => IInv
<1> SUFFICES ASSUME Init PROVE IInv
  OBVIOUS
<1>1. \A p \in Process : RequestInv(req[p], store)
  BY IdleInv DEF Init
<1>2. store \subseteq Market /\ asks \in 0 .. MaxAsks
  <2>1. 0 \in 0 .. MaxAsks
    BY MarketAssumption
  <2> QED BY <2>1 DEF Init
<1> QED BY <1>1, <1>2 DEF Init, IInv

LEMMA AskKeeps ==
  ASSUME IInv, NEW p \in Process, NEW r \in Requests, Ask(p, r)
  PROVE  IInv'
<1> DEFINE seen == Within(store, r)
           q == [Idle EXCEPT !.ask = r, !.seen = seen]
           todo == MissingRanges(seen, r)
<1>1. /\ req' = [req EXCEPT ![p] = Turn(q, todo)] /\ asks < MaxAsks /\ asks' = asks + 1
      /\ store' = store
  BY DEF Ask
<1>2. Asked(r) /\ Seen(seen, r) /\ seen \subseteq store /\ store \subseteq Market
  BY MarketAssumption DEF IInv, Asked, Ranges, Seen, Within
<1>3. q \in Request /\ q.ask = r /\ q.seen = seen /\ q.answer = {}
  BY <1>2, IdleInv DEF Request, Idle, Asked
<1>4. \A m \in todo : m \in Ranges /\ r[1] <= m[1] /\ m[1] < m[2] /\ m[2] <= r[2]
  BY <1>2, MissingInside
<1>5. ASSUME r[1] < r[2], NEW c \in Within(Market, r)
      PROVE  Settled(q, store, c) \/ \E m \in todo : m[1] <= c /\ c <= m[2]
  <2>1. c \in Nat /\ r[1] <= c /\ c <= r[2]
    BY MarketAssumption DEF Within
  <2>2. CASE c \in seen
    BY <1>2, <2>2 DEF Settled
  <2>3. CASE c \notin seen
    <3>1. \/ \E m \in todo : m[1] <= c /\ c <= m[2]
          \/ \E g \in Neighbours(seen) : g[1] < c /\ c < g[2] /\ day(g[1]) # day(g[2])
      BY <1>2, <1>5, <2>1, <2>3, PlanCovers
    <3> QED BY <1>3, <3>1 DEF Settled, InOvernightGap
  <2> QED BY <2>2, <2>3
<1> HIDE DEF q, todo
<1>6. RequestInv(Turn(q, todo), store)
  BY <1>2, <1>3, <1>4, <1>5, TurnInv
<1>7. asks' \in 0 .. MaxAsks
  BY <1>1, MarketAssumption DEF IInv
<1> QED BY <1>1, <1>2, <1>6, <1>7, OneMoves

(* A request in flight: its types and the first of its ranges.             *)
LEMMA InFlight ==
  ASSUME IInv, NEW p \in Process, req[p].phase \in {"fetch", "store"}
  PROVE  /\ req[p] \in Request /\ RequestInv(req[p], store) /\ req[p].todo # {}
         /\ First(req[p].todo) \in req[p].todo
         /\ First(req[p].todo)[1] \in Nat /\ First(req[p].todo)[2] \in Nat
<1>1. req[p] \in Request /\ RequestInv(req[p], store) /\ req[p].todo # {}
  BY DEF IInv, RequestInv, PlanInv
<1>2. req[p].todo \in SUBSET Ranges
  BY <1>1 DEF Request
<1> QED BY <1>1, <1>2, FirstFacts DEF Ranges

LEMMA FetchChunkKeeps ==
  ASSUME IInv, NEW p \in Process, FetchChunk(p)
  PROVE  IInv'
<1> DEFINE q == req[p]
           f == First(q.todo)
           to == ChunkEnd(q)
           n == [q EXCEPT !.rows = @ \cup Within(Market, <<q.at, to>>), !.at = to,
                          !.attempt = 0, !.phase = IF to = f[2] THEN "store" ELSE "fetch"]
<1>1. q.phase = "fetch" /\ UNCHANGED <<store, asks>>
  BY DEF FetchChunk
<1>2. /\ q \in Request /\ RequestInv(q, store) /\ q.todo # {}
      /\ f \in q.todo /\ f[1] \in Nat /\ f[2] \in Nat
  BY <1>1, InFlight
<1>3. /\ f[1] <= q.at /\ q.at < f[2] /\ q.at \in Nat
      /\ \A c \in Market : f[1] <= c /\ c < q.at => c \in q.rows
  BY <1>1, <1>2 DEF RequestInv, FetchInv, Request
<1>4. to \in Nat /\ q.at < to /\ to <= f[2]
  BY <1>2, <1>3, MarketAssumption DEF ChunkEnd
<1>5. req' = [req EXCEPT ![p] = n]
  <2>1. req' = [req EXCEPT ![p].rows = @ \cup Within(Market, <<q.at, to>>),
                           ![p].at = to, ![p].attempt = 0,
                           ![p].phase = IF to = f[2] THEN "store" ELSE "fetch"]
    BY DEF FetchChunk
  <2> QED BY <2>1
<1>6. /\ n \in Request /\ n.ask = q.ask /\ n.seen = q.seen /\ n.answer = q.answer
      /\ n.todo = q.todo /\ n.at = to /\ n.attempt = 0
      /\ n.rows = q.rows \cup Within(Market, <<q.at, to>>)
      /\ n.phase = (IF to = f[2] THEN "store" ELSE "fetch")
  <2>1. Within(Market, <<q.at, to>>) \subseteq Market
    BY DEF Within
  <2> HIDE DEF to, f
  <2> QED BY <1>2, <1>4, <2>1 DEF Request, Phases
<1> HIDE DEF n, to
<1>7. PlanInv(n, store)
  <2>1. PlanInv(q, store)
    BY <1>2 DEF RequestInv
  <2>2. \A c : InOvernightGap(n, c) <=> InOvernightGap(q, c)
    BY <1>6 DEF InOvernightGap
  <2> HIDE DEF f
  <2> QED BY <1>1, <1>2, <1>6, <2>1, <2>2 DEF PlanInv, Settled
<1>8. \A c \in Market : f[1] <= c /\ c <= to => c \in n.rows
  <2> SUFFICES ASSUME NEW c \in Market, f[1] <= c, c <= to PROVE c \in n.rows
    OBVIOUS
  <2>1. c \in Nat
    BY MarketAssumption
  <2>2. CASE c < q.at
    BY <1>3, <1>6, <2>2
  <2>3. CASE q.at <= c
    BY <1>6, <2>3 DEF Within
  <2> QED BY <1>3, <2>1, <2>2, <2>3
<1>9. FetchInv(n)
  <2>1. ASSUME n.phase = "fetch"
        PROVE  /\ f[1] <= to /\ to < f[2] /\ n.attempt <= MaxRetries
               /\ \A c \in Market : f[1] <= c /\ c < to => c \in n.rows
    <3>1. \A c \in Market : c \in Nat
      BY MarketAssumption
    <3>2. to # f[2]
      BY <1>6, <2>1
    <3> QED BY <1>2, <1>3, <1>4, <1>6, <1>8, <3>1, <3>2, MarketAssumption
  <2>2. ASSUME n.phase = "store" PROVE to = f[2] /\ Within(Market, f) \subseteq n.rows
    <3>1. to = f[2]
      BY <1>6, <2>2
    <3> QED BY <1>8, <3>1 DEF Within
  <2>3. n.attempt <= MaxRetries + 1
    BY <1>6, MarketAssumption
  <2> QED BY <1>6, <2>1, <2>2, <2>3 DEF FetchInv
<1>10. AnswerInv(n)
  BY <1>6 DEF AnswerInv
<1>11. RequestInv(n, store)
  BY <1>2, <1>6, <1>7, <1>9, <1>10 DEF RequestInv
<1> QED BY <1>1, <1>5, <1>11, OneMoves DEF IInv

LEMMA CallFailsKeeps ==
  ASSUME IInv, NEW p \in Process, CallFails(p)
  PROVE  IInv'
<1> DEFINE q == req[p]
           ph == IF q.attempt < MaxRetries THEN "fetch" ELSE "failed"
           n == [q EXCEPT !.attempt = @ + 1, !.phase = ph]
<1>1. q.phase = "fetch" /\ UNCHANGED <<store, asks>>
  BY DEF CallFails
<1>2. /\ q \in Request /\ RequestInv(q, store) /\ q.todo # {}
  BY <1>1, InFlight
<1>3. req' = [req EXCEPT ![p] = n]
  <2>1. req' = [req EXCEPT ![p].attempt = @ + 1,
                           ![p].phase = IF q.attempt < MaxRetries THEN @ ELSE "failed"]
    BY DEF CallFails
  <2>2. req[p].phase = "fetch"
    BY <1>1
  <2> QED BY <2>1, <2>2
<1>4. q.attempt \in Nat /\ q.attempt <= MaxRetries
  BY <1>1, <1>2 DEF RequestInv, FetchInv, Request
<1>5. /\ n \in Request /\ n.ask = q.ask /\ n.seen = q.seen /\ n.answer = q.answer
      /\ n.todo = q.todo /\ n.at = q.at /\ n.attempt = q.attempt + 1 /\ n.rows = q.rows
      /\ n.phase = ph
  <2>1. ph \in Phases /\ q.attempt + 1 \in Nat
    BY <1>4 DEF Phases
  <2> HIDE DEF ph
  <2> QED BY <1>2, <2>1 DEF Request
<1> HIDE DEF n
<1>6. PlanInv(n, store)
  <2>1. PlanInv(q, store)
    BY <1>2 DEF RequestInv
  <2>2. \A c : InOvernightGap(n, c) <=> InOvernightGap(q, c)
    BY <1>5 DEF InOvernightGap
  <2> QED BY <1>1, <1>2, <1>5, <2>1, <2>2 DEF PlanInv, Settled
<1>7. FetchInv(n)
  <2>1. FetchInv(q)
    BY <1>2 DEF RequestInv
  <2>2. n.phase # "store" /\ n.attempt <= MaxRetries + 1
    BY <1>4, <1>5, MarketAssumption
  <2>3. n.phase = "fetch" => n.attempt <= MaxRetries
    BY <1>4, <1>5, MarketAssumption
  <2> QED BY <1>1, <1>5, <2>1, <2>2, <2>3 DEF FetchInv
<1>8. AnswerInv(n)
  BY <1>5 DEF AnswerInv
<1>9. RequestInv(n, store)
  BY <1>2, <1>5, <1>6, <1>7, <1>8 DEF RequestInv
<1> QED BY <1>1, <1>3, <1>9, OneMoves DEF IInv

LEMMA StoreRangeKeeps ==
  ASSUME IInv, NEW p \in Process, StoreRange(p)
  PROVE  IInv'
<1> DEFINE q == req[p]
           f == First(q.todo)
           rest == q.todo \ {f}
<1>1. /\ q.phase = "store" /\ store' = store \cup q.rows /\ asks' = asks
  BY DEF StoreRange
<1>2. /\ q \in Request /\ RequestInv(q, store) /\ q.todo # {} /\ f \in q.todo
  BY <1>1, InFlight
<1>3. req' = [req EXCEPT ![p] = Turn(q, rest)]
  BY DEF StoreRange
<1>4. q.rows \subseteq Market /\ store' \subseteq Market /\ store \subseteq store'
  BY <1>1, <1>2 DEF IInv, Request
<1>5. rest \in SUBSET Ranges
  BY <1>2 DEF Request
<1>6. PlanInv(q, store) /\ Within(Market, f) \subseteq q.rows
  BY <1>1, <1>2 DEF RequestInv, FetchInv
<1>7. \A m \in rest : q.ask[1] <= m[1] /\ m[1] < m[2] /\ m[2] <= q.ask[2]
  BY <1>1, <1>6 DEF PlanInv
<1>8. ASSUME q.ask[1] < q.ask[2], NEW c \in Within(Market, q.ask)
      PROVE  Settled(q, store', c) \/ \E m \in rest : m[1] <= c /\ c <= m[2]
  <2>1. Settled(q, store, c) \/ \E m \in q.todo : m[1] <= c /\ c <= m[2]
    BY <1>1, <1>6, <1>8 DEF PlanInv
  <2>2. CASE Settled(q, store, c)
    BY <1>4, <2>2 DEF Settled
  <2>3. ASSUME f[1] <= c, c <= f[2] PROVE Settled(q, store', c)
    <3>1. c \in Within(Market, f)
      BY <2>3 DEF Within
    <3> QED BY <1>1, <1>6, <3>1 DEF Settled
  <2> QED BY <2>1, <2>2, <2>3
<1> HIDE DEF rest
<1>9. RequestInv(Turn(q, rest), store')
  <2>1. q.seen \subseteq store' /\ q.answer \subseteq store'
    BY <1>2, <1>4 DEF RequestInv
  <2> HIDE DEF q
  <2> QED BY <1>2, <1>5, <1>7, <1>8, <2>1, TurnInv
<1> QED BY <1>1, <1>3, <1>4, <1>9, OneMoves DEF IInv

LEMMA AnswerKeeps ==
  ASSUME IInv, NEW p \in Process, Answer(p)
  PROVE  IInv'
<1> DEFINE q == req[p]
           answer == Within(store, q.ask)
           n == [q EXCEPT !.answer = answer, !.phase = "answered"]
<1>1. q.phase = "read" /\ UNCHANGED <<store, asks>> /\ req' = [req EXCEPT ![p] = n]
  <2>1. /\ req' = [req EXCEPT ![p].answer = Within(store, req[p].ask), ![p].phase = "answered"]
        /\ req[p].phase = "read" /\ UNCHANGED <<store, asks>>
    BY DEF Answer
  <2> QED BY <2>1
<1>2. q \in Request /\ RequestInv(q, store)
  BY DEF IInv, RequestInv
<1>3. answer \subseteq store /\ answer \subseteq Market
  BY DEF IInv, Within
<1>4. /\ n \in Request /\ n.ask = q.ask /\ n.seen = q.seen /\ n.answer = answer
      /\ n.phase = "answered" /\ n.attempt = q.attempt
  <2> HIDE DEF answer
  <2> QED BY <1>2, <1>3 DEF Request, Phases
<1> HIDE DEF n
<1>5. AnswerInv(n)
  <2> SUFFICES ASSUME q.ask[1] < q.ask[2], NEW c \in Within(Market, q.ask)
               PROVE  Settled(n, answer, c)
    BY <1>4 DEF AnswerInv
  <2>1. Settled(q, store, c)
    BY <1>1, <1>2 DEF RequestInv, PlanInv
  <2>2. InOvernightGap(n, c) <=> InOvernightGap(q, c)
    BY <1>4 DEF InOvernightGap
  <2>3. c \in store => c \in answer
    BY DEF Within
  <2> QED BY <2>1, <2>2, <2>3 DEF Settled
<1>6. PlanInv(n, store) /\ FetchInv(n)
  BY <1>2, <1>4 DEF PlanInv, FetchInv, RequestInv
<1>7. RequestInv(n, store)
  BY <1>2, <1>3, <1>4, <1>5, <1>6 DEF RequestInv
<1> QED BY <1>1, <1>7, OneMoves DEF IInv

LEMMA StepInv == IInv /\ [Next]_vars => IInv'
<1> SUFFICES ASSUME IInv, [Next]_vars PROVE IInv'
  OBVIOUS
<1>1. CASE UNCHANGED vars
  BY <1>1 DEF vars, IInv
<1>2. ASSUME NEW p \in Process, NEW r \in Requests, Ask(p, r) PROVE IInv'
  BY <1>2, AskKeeps
<1>3. ASSUME NEW p \in Process, Work(p) PROVE IInv'
  BY <1>3, FetchChunkKeeps, CallFailsKeeps, StoreRangeKeeps, AnswerKeeps DEF Work
<1> QED BY <1>1, <1>2, <1>3 DEF Next

(* The invariant holds in every reachable state.                           *)
THEOREM Inductive == Spec => []IInv
<1> QED BY InitInv, StepInv, PTL DEF Spec

(* The table holds candles of the broker only, and what a request holds is *)
(* in the table and inside the interval it asked for.                      *)
THEOREM TypeCorrect == Spec => []TypeOK
<1>1. IInv => TypeOK
  <2> SUFFICES ASSUME IInv, NEW p \in Process
               PROVE  LET q == req[p]
                      IN  /\ q.phase \in {"idle", "fetch", "store", "read", "answered", "failed"}
                          /\ q.seen \subseteq store /\ q.answer \subseteq store
                          /\ q.rows \subseteq Market /\ q.attempt \in 0 .. MaxRetries + 1
                          /\ q.phase \in {"fetch", "store"} =>
                               /\ q.todo # {} /\ q.ask[1] <= q.at /\ q.at <= q.ask[2]
    BY DEF TypeOK, IInv
  <2> DEFINE q == req[p]
  <2>1. q \in Request /\ RequestInv(q, store)
    BY DEF IInv, RequestInv
  <2>2. /\ q.phase \in {"idle", "fetch", "store", "read", "answered", "failed"}
        /\ q.seen \subseteq store /\ q.answer \subseteq store /\ q.rows \subseteq Market
    BY <2>1 DEF RequestInv, Request, Phases
  <2>3. q.attempt \in 0 .. MaxRetries + 1
    BY <2>1, MarketAssumption DEF RequestInv, FetchInv, Request
  <2>4. ASSUME q.phase \in {"fetch", "store"}
        PROVE  q.todo # {} /\ q.ask[1] <= q.at /\ q.at <= q.ask[2]
    <3>1. /\ q.todo # {} /\ First(q.todo) \in q.todo
          /\ First(q.todo)[1] \in Nat /\ First(q.todo)[2] \in Nat
      BY <2>4, InFlight
    <3>2. q.ask[1] <= First(q.todo)[1] /\ First(q.todo)[2] <= q.ask[2]
      BY <2>1, <2>4, <3>1 DEF RequestInv, PlanInv
    <3>3. q.at \in Nat /\ q.ask[1] \in Nat /\ q.ask[2] \in Nat
      BY <2>1 DEF Request, Ranges
    <3>4. First(q.todo)[1] <= q.at /\ q.at <= First(q.todo)[2]
      <4>1. CASE q.phase = "fetch"
        BY <2>1, <3>1, <3>3, <4>1 DEF RequestInv, FetchInv
      <4>2. CASE q.phase = "store"
        <5>1. First(q.todo)[1] < First(q.todo)[2]
          BY <2>1, <3>1, <4>2 DEF RequestInv, PlanInv
        <5> QED BY <2>1, <3>1, <4>2, <5>1 DEF RequestInv, FetchInv
      <4> QED BY <2>4, <4>1, <4>2
    <3> QED BY <3>1, <3>2, <3>3, <3>4
  <2> QED BY <2>2, <2>3, <2>4
<1> QED BY <1>1, Inductive, PTL

(* An answer for a proper interval leaves out a candle of the broker only  *)
(* when it lies in a gap over midnight of the request's first read.        *)
THEOREM AnswersCover == Spec => []OnlyOvernightGapsOmitted
<1>1. IInv => OnlyOvernightGapsOmitted
  BY DEF IInv, RequestInv, AnswerInv, Settled, OnlyOvernightGapsOmitted
<1> QED BY <1>1, Inductive, PTL

(* What a failed request fetched before the range that failed is stored.   *)
THEOREM FailureKeeps == Spec => []FailureKeepsEarlierRanges
<1>1. IInv => FailureKeepsEarlierRanges
  <2> SUFFICES ASSUME IInv, NEW p \in Process, req[p].phase = "failed",
                      NEW c \in Within(Market, <<req[p].ask[1], First(req[p].todo)[1]>>),
                      c # First(req[p].todo)[1]
               PROVE  c \in store \/ InOvernightGap(req[p], c)
    BY DEF FailureKeepsEarlierRanges
  <2> DEFINE q == req[p]
             f == First(q.todo)
  <2>1. q \in Request /\ RequestInv(q, store) /\ q.todo # {} /\ q.todo \in SUBSET Ranges
    BY DEF IInv, RequestInv, PlanInv, Request
  <2>2. f \in q.todo /\ \A m \in q.todo : f[1] <= m[1]
    BY <2>1, FirstFacts
  <2>3. q.ask[1] <= f[1] /\ f[1] < f[2] /\ f[2] <= q.ask[2]
    BY <2>1, <2>2 DEF RequestInv, PlanInv
  <2>4. f[1] \in Nat /\ f[2] \in Nat /\ q.ask[1] \in Nat /\ q.ask[2] \in Nat
    BY <2>1, <2>2 DEF Request, Ranges
  <2>5. c \in Market /\ c \in Nat /\ q.ask[1] <= c /\ c < f[1]
    BY <2>4, MarketAssumption DEF Within
  <2>6. q.ask[1] < q.ask[2] /\ c \in Within(Market, q.ask)
    BY <2>3, <2>4, <2>5 DEF Within
  <2>7. ~ \E m \in q.todo : m[1] <= c
    <3> SUFFICES ASSUME NEW m \in q.todo, m[1] <= c PROVE FALSE
      OBVIOUS
    <3>1. m[1] \in Nat /\ f[1] <= m[1]
      BY <2>1, <2>2 DEF Ranges
    <3> QED BY <2>4, <2>5, <3>1
  <2> QED BY <2>1, <2>6, <2>7 DEF RequestInv, PlanInv, Settled
<1> QED BY <1>1, Inductive, PTL
=============================================================================
