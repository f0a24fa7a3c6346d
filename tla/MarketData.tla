------------------------------ MODULE MarketData ------------------------------
(***************************************************************************)
(* MarketDataService.get_candles over the shared candles table: read what  *)
(* is stored, compute the missing ranges, fetch each of them from the      *)
(* broker in chunks with retries, upsert it, and read the table again.     *)
(* Several requests run at once, each with a database session of its own,  *)
(* and interleave at the broker calls and at the commits.                  *)
(*                                                                         *)
(* Time is counted in steps of the base interval and a candle is its       *)
(* timestamp.  DayLength = 1 is the daily interval, where no two candles   *)
(* share a date and so no inner gap is ever looked for.                    *)
(***************************************************************************)
EXTENDS Integers, FiniteSets, FiniteSetsExt

CONSTANTS Process,    \* requests in flight at the same time
          Market,     \* timestamps for which the broker has a candle
          DayLength,  \* steps per calendar day
          Requests,   \* <<start, end>> pairs that are asked for
          MaxSpan,    \* longest range of one broker call (_KITE_MAX_DAYS)
          MaxRetries, \* HistoricalFetcher.max_retries
          MaxAsks     \* bound on the number of requests

ASSUME MarketAssumption ==
  /\ Market \subseteq Nat /\ DayLength \in Nat \ {0} /\ MaxSpan \in Nat \ {0}
  /\ MaxRetries \in Nat /\ MaxAsks \in Nat
  /\ \A r \in Requests : r \in Nat \X Nat /\ r[1] <= r[2]

VARIABLES store,  \* the candles table
          req,    \* per process: the request, its local variables and its answer
          asks    \* requests made so far

vars == <<store, req, asks>>

day(t) == t \div DayLength
Within(S, r) == {t \in S : r[1] <= t /\ t <= r[2]}

Neighbours(S) ==
  {p \in S \X S : p[1] < p[2] /\ ~ \E t \in S : p[1] < t /\ t < p[2]}

(* _compute_missing_ranges.  A raw range is before the first candle, after *)
(* the last, or a gap of more than 1.5 steps between two candles of a day. *)
RawRanges(S, r) ==
  IF S = {} THEN {r}
  ELSE {<<r[1], Min(S)>>, <<Max(S), r[2]>>}
         \cup {p \in Neighbours(S) : day(p[1]) = day(p[2]) /\ 2 * (p[2] - p[1]) > 3}

\* MUTANT: the range after the last stored candle is forgotten.
MissingRangesMutNoTail(S, r) ==
  LET cells == UNION {p[1] .. p[2] - 1 :
                        p \in IF S = {} THEN {r}
                              ELSE RawRanges(S, r) \ {<<Max(S), r[2]>>}}
  IN  {p \in cells \X {c + 1 : c \in cells} :
         /\ p[1] < p[2] /\ p[1] .. p[2] - 1 \subseteq cells
         /\ p[1] - 1 \notin cells /\ p[2] \notin cells}

\* Empty ranges are dropped and ranges that touch are merged.
MissingRanges(S, r) ==
  LET cells == UNION {p[1] .. p[2] - 1 : p \in RawRanges(S, r)}
  IN  {p \in cells \X {c + 1 : c \in cells} :
         /\ p[1] < p[2] /\ p[1] .. p[2] - 1 \subseteq cells
         /\ p[1] - 1 \notin cells /\ p[2] \notin cells}

First(R) == CHOOSE r \in R : \A q \in R : r[1] <= q[1]

Idle == [phase |-> "idle", ask |-> <<0, 0>>, seen |-> {}, todo |-> {}, at |-> 0,
         attempt |-> 0, rows |-> {}, answer |-> {}]

Init == store = {} /\ req = [p \in Process |-> Idle] /\ asks = 0

-----------------------------------------------------------------------------
\* The next range to fetch, or the final read when there is none.
Turn(q, todo) ==
  [q EXCEPT !.todo = todo, !.rows = {}, !.attempt = 0,
            !.phase = IF todo = {} THEN "read" ELSE "fetch",
            !.at = IF todo = {} THEN @ ELSE First(todo)[1]]

(* First read of the table and the plan made from it. *)
Ask(p, r) ==
  /\ req[p].phase \in {"idle", "answered", "failed"} /\ asks < MaxAsks
  /\ LET seen == Within(store, r)
     IN  req' = [req EXCEPT ![p] = Turn([Idle EXCEPT !.ask = r, !.seen = seen],
                                        MissingRanges(seen, r))]
  /\ asks' = asks + 1
  /\ UNCHANGED store

ChunkEnd(q) == LET to == First(q.todo)[2]
               IN  IF q.at + MaxSpan < to THEN q.at + MaxSpan ELSE to

\* MUTANT: the last chunk is not cut at the end of the range.
FetchChunkMutOverrun(p) ==
  /\ req[p].phase = "fetch"
  /\ LET q == req[p]
         to == q.at + MaxSpan
     IN  req' = [req EXCEPT ![p].rows = @ \cup Within(Market, <<q.at, to>>),
                            ![p].at = to, ![p].attempt = 0,
                            ![p].phase = IF to >= First(q.todo)[2] THEN "store" ELSE "fetch"]
  /\ UNCHANGED <<store, asks>>

(* One broker call answers; both ends of a chunk are inclusive. *)
FetchChunk(p) ==
  /\ req[p].phase = "fetch"
  /\ LET q == req[p]
         to == ChunkEnd(q)
     IN  req' = [req EXCEPT ![p].rows = @ \cup Within(Market, <<q.at, to>>),
                            ![p].at = to, ![p].attempt = 0,
                            ![p].phase = IF to = First(q.todo)[2] THEN "store" ELSE "fetch"]
  /\ UNCHANGED <<store, asks>>

(* One broker call raises: backoff and retry, and give up after MaxRetries.*)
\* MUTANT: a failure restarts the range with a fresh budget.
CallFailsMutRestart(p) ==
  /\ req[p].phase = "fetch"
  /\ req' = [req EXCEPT ![p] = Turn(@, @.todo)]
  /\ UNCHANGED <<store, asks>>

CallFails(p) ==
  /\ req[p].phase = "fetch"
  /\ req' = [req EXCEPT ![p].attempt = @ + 1,
                        ![p].phase = IF req[p].attempt < MaxRetries THEN @ ELSE "failed"]
  /\ UNCHANGED <<store, asks>>

(* upsert_base_candles : the range is committed before the next is fetched.*)
\* MUTANT: only the rows of the last range are stored.
StoreRangeMutLast(p) ==
  /\ req[p].phase = "store"
  /\ LET rest == req[p].todo \ {First(req[p].todo)}
     IN  /\ store' = IF rest = {} THEN store \cup req[p].rows ELSE store
         /\ req' = [req EXCEPT ![p] = Turn(@, rest)]
  /\ UNCHANGED asks

StoreRange(p) ==
  /\ req[p].phase = "store"
  /\ store' = store \cup req[p].rows
  /\ req' = [req EXCEPT ![p] = Turn(@, @.todo \ {First(@.todo)})]
  /\ UNCHANGED asks

Answer(p) ==
  /\ req[p].phase = "read"
  /\ req' = [req EXCEPT ![p].answer = Within(store, req[p].ask), ![p].phase = "answered"]
  /\ UNCHANGED <<store, asks>>

Work(p) == FetchChunk(p) \/ CallFails(p) \/ StoreRange(p) \/ Answer(p)

Next == \E p \in Process : (\E r \in Requests : Ask(p, r)) \/ Work(p)

Spec == Init /\ [][Next]_vars

\* Threads are scheduled and every broker call returns or raises.
FairSpec == Spec /\ \A p \in Process : WF_vars(Work(p))

-----------------------------------------------------------------------------
(* The table holds broker candles and each request is consistent. *)
TypeOK ==
  /\ store \subseteq Market /\ asks \in 0 .. MaxAsks
  /\ \A p \in Process :
       LET q == req[p]
       IN  /\ q.phase \in {"idle", "fetch", "store", "read", "answered", "failed"}
           /\ q.seen \subseteq store /\ q.answer \subseteq store
           /\ q.rows \subseteq Market /\ q.attempt \in 0 .. MaxRetries + 1
           /\ q.phase \in {"fetch", "store"} =>
                /\ q.todo # {} /\ q.ask[1] <= q.at /\ q.at <= q.ask[2]

\* A candle strictly inside a gap over midnight of what the request saw.
InOvernightGap(q, c) ==
  \E g \in Neighbours(q.seen) : g[1] < c /\ c < g[2] /\ day(g[1]) # day(g[2])

(* An answer leaves out a candle of the broker only for the two reasons    *)
(* the planning code has: the request is a single instant, or the candle   *)
(* lies in a gap over midnight of the first read, whatever other requests  *)
(* stored meanwhile.                                                       *)
OnlyOvernightGapsOmitted ==
  \A p \in Process :
    LET q == req[p]
    IN  q.phase = "answered" /\ q.ask[1] < q.ask[2] =>
          \A c \in Within(Market, q.ask) \ q.answer : InOvernightGap(q, c)

(* A request that fails keeps what it fetched: every candle before the     *)
(* range that failed is in the table, but for gaps over midnight.          *)
FailureKeepsEarlierRanges ==
  \A p \in Process :
    LET q == req[p]
    IN  q.phase = "failed" =>
          \A c \in Within(Market, <<q.ask[1], First(q.todo)[1]>>) :
            c \in store \/ c = First(q.todo)[1] \/ InOvernightGap(q, c)

(* Every request is answered or gives up: retries are bounded. *)
RequestEnds ==
  \A p \in Process : req[p].phase = "fetch" ~> req[p].phase \in {"answered", "failed"}

(* FINDING: the answer to a request for a proper range covers that range.  *)
AnswerIsComplete ==
  \A p \in Process :
    LET q == req[p]
    IN  q.phase = "answered" /\ q.ask[1] < q.ask[2] =>
          Within(Market, q.ask) \subseteq q.answer
=============================================================================
