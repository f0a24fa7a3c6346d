----------------------------- MODULE ParameterGrid -----------------------------
(***************************************************************************)
(* The search space of an optimization job: the selection a user makes per *)
(* parameter becomes lists of values (build_param_grid), create_job accepts*)
(* it by the number of combinations, and run_job rebuilds and enumerates it*)
(* and validates each combination against the schema of the strategy.      *)
(* Numbers are integers in units of 1/Unit; keys are in sorted order.      *)
(***************************************************************************)
EXTENDS Integers, FiniteSets, Ordering, Sequences, SequencesExt

CONSTANTS Specs,           \* the parameters of the strategy, in the order of their keys
          Configs,         \* what the form may send for a key
          UnknownKey,      \* a key the strategy does not have
          MaxSelected,     \* parameters a selection may name (4)
          FloatCap,        \* longest list of a float range (20000)
          MaxCombinations, \* limit sent with the job (at most 10000)
          Unit,            \* how many units make 1
          None,            \* a bound or step the schema leaves out; no job
          Bad              \* a value or mode that cannot be read

\* A parameter of a schema; its place among the sorted keys stands for its key.
ParameterSpec ==
  [type : {"int", "float", "bool", "enum"}, tunable : BOOLEAN, choices : SUBSET Int,
   min : Int \cup {None}, max : Int \cup {None}, step : (Nat \ {0}) \cup {None}, default : Int]

\* What a user may choose for a parameter, readable or not.
Config ==
  LET number == Int \cup {Bad}
  IN  [mode : {"range"}, min : number, max : number, step : number]
        \cup [mode : {"values"}, values : Seq(number)] \cup [mode : {"unset"}]

\* The schema of an integer names whole numbers, so int(spec.min) is spec.min.
ASSUME GridAssumption ==
  /\ {MaxSelected, FloatCap, MaxCombinations, Unit} \subseteq Nat \ {0}
  /\ MaxCombinations < FloatCap
  /\ None \notin Int /\ Bad \notin Int
  /\ Specs \in Seq(ParameterSpec) /\ Configs \subseteq Config
  /\ UnknownKey \notin DOMAIN Specs
  /\ \A k \in DOMAIN Specs : Specs[k].type = "int" =>
       \A x \in {Specs[k].min, Specs[k].max, Specs[k].step} \ {None} : x % Unit = 0

VARIABLES selection, \* the form: key -> configuration
          job,       \* total_combinations and selection of the accepted job
          done,      \* combinations the runner has validated and run
          outcome    \* "form", "pending", "running", "success", "failed"

gridVars == <<selection, job, done, outcome>>

GridInit == selection = <<>> /\ job = None /\ done = 0 /\ outcome = "form"

-----------------------------------------------------------------------------
\* The mapping f with the value v for the key k.
With(f, k, v) == [q \in DOMAIN f \cup {k} |-> IF q = k THEN v ELSE f[q]]

\* int(x) of Python: towards zero.
Truncate(x) == IF x >= 0 THEN (x \div Unit) * Unit ELSE -(((-x) \div Unit) * Unit)

\* The value as the type of the parameter has it, or Bad.
Coerce(spec, v) ==
  CASE v = Bad -> Bad
    [] v # Bad /\ spec.type = "bool"  -> IF v = 0 THEN 0 ELSE Unit
    [] v # Bad /\ spec.type = "enum"  -> IF v \in spec.choices THEN v ELSE Bad
    [] v # Bad /\ spec.type = "int"   -> Truncate(v)
    [] v # Bad /\ spec.type = "float" -> v

Numeric(spec) == spec.type \in {"int", "float"}

\* MUTANT: the upper bound of the schema is not looked at.
InBoundsMutNoMax(spec, a, b) == spec.min # None => a >= spec.min

InBounds(spec, a, b) ==
  /\ spec.min # None => a >= spec.min
  /\ spec.max # None => b <= spec.max

\* MUTANT: the last value of the range is left out, as range(a, b, s) does.
RangeLengthMutOpen(spec, a, b, s) ==
  LET length == (b - 1 - a) \div s + 1
  IN  IF spec.type = "float" /\ length > FloatCap THEN FloatCap ELSE length

RangeLength(spec, a, b, s) ==
  LET length == (b - a) \div s + 1
  IN  IF spec.type = "float" /\ length > FloatCap THEN FloatCap ELSE length

\* The values of a range, none when it is refused.
RangeValues(spec, cfg) ==
  LET a == Coerce(spec, cfg.min)
      b == Coerce(spec, cfg.max)
      s == Coerce(spec, cfg.step)
  IN  IF Bad \notin {a, b, s} /\ s > 0 /\ a <= b /\ InBounds(spec, a, b)
      THEN [i \in 1 .. RangeLength(spec, a, b, s) |-> a + (i - 1) * s] ELSE <<>>

ListValues(spec, cfg) ==
  LET values == [i \in DOMAIN cfg.values |-> Coerce(spec, cfg.values[i])]
  IN  IF Contains(values, Bad) THEN <<>> ELSE values

\* The list of a key, empty when build_param_grid raises for it.
KeyValues(k, cfg) ==
  IF k = UnknownKey THEN <<>>
  ELSE CASE ~Specs[k].tunable -> <<>>
         [] Specs[k].tunable /\ cfg.mode = "values" -> ListValues(Specs[k], cfg)
         [] Specs[k].tunable /\ cfg.mode = "range" ->
              IF Numeric(Specs[k]) THEN RangeValues(Specs[k], cfg) ELSE <<>>
         [] Specs[k].tunable /\ cfg.mode = "unset" -> <<>>

BuildGrid(sel) == [k \in DOMAIN sel |-> KeyValues(k, sel[k])]

Keys(grid) == InOrder(DOMAIN grid)

CombinationCount(grid) == FoldLeft(LAMBDA n, k : n * Len(grid[k]), 1, Keys(grid))

\* Each combination found so far with each value of one more key.
Extend(grid, found, k) ==
  LET m == Len(grid[k])
  IN  [n \in 1 .. Len(found) * m |->
         With(found[((n - 1) \div m) + 1], k, grid[k][((n - 1) % m) + 1])]

\* itertools.product over the sorted keys: the last key varies fastest.
Enumerate(grid) == FoldLeft(LAMBDA found, k : Extend(grid, found, k), <<<<>>>>, Keys(grid))

\* validate_params for one parameter of a combination.
Refused(spec, v) ==
  \/ v = Bad
  \/ Numeric(spec) /\ spec.min # None /\ v < spec.min
  \/ Numeric(spec) /\ spec.max # None /\ v > spec.max
  \/ spec.type = "int" /\ spec.step # None /\ spec.min # None /\ (v - spec.min) % spec.step # 0

Valid(combo) ==
  \A k \in DOMAIN Specs :
    LET v == IF k \in DOMAIN combo THEN combo[k] ELSE Specs[k].default
    IN  ~Refused(Specs[k], Coerce(Specs[k], v))

\* The strategies of the repository run with their defaults.
ASSUME DefaultsAreValid == Valid(<<>>)

-----------------------------------------------------------------------------
\* Bound: the form grows to one parameter more than a job may have.
Fill(k, cfg) ==
  /\ outcome = "form" /\ k \notin DOMAIN selection
  /\ Cardinality(DOMAIN selection) <= MaxSelected
  /\ selection' = With(selection, k, cfg)
  /\ UNCHANGED <<job, done, outcome>>

CreateJob ==
  /\ outcome = "form"
  /\ selection # <<>> /\ Cardinality(DOMAIN selection) <= MaxSelected
  /\ LET grid  == BuildGrid(selection)
         total == CombinationCount(grid)
     IN  /\ \A k \in DOMAIN grid : grid[k] # <<>>
         /\ total <= MaxCombinations
         /\ job' = [selection |-> selection, total |-> total]
  /\ outcome' = "pending"
  /\ UNCHANGED <<selection, done>>

\* run_job rebuilds the grid from the stored selection.
combos == Enumerate(BuildGrid(job.selection))

StartRunner ==
  /\ outcome = "pending"
  /\ outcome' = "running"
  /\ UNCHANGED <<selection, job, done>>

RunCombination ==
  /\ outcome = "running" /\ done < Len(combos)
  /\ Valid(combos[done + 1])
  /\ done' = done + 1
  /\ UNCHANGED <<selection, job, outcome>>

RefuseCombination ==
  /\ outcome = "running" /\ done < Len(combos)
  /\ ~Valid(combos[done + 1])
  /\ outcome' = "failed"
  /\ UNCHANGED <<selection, job, done>>

FinishRunner ==
  /\ outcome = "running" /\ done = Len(combos)
  /\ outcome' = "success"
  /\ UNCHANGED <<selection, job, done>>

GridNext ==
  \/ \E k \in DOMAIN Specs \cup {UnknownKey}, cfg \in Configs : Fill(k, cfg)
  \/ CreateJob \/ StartRunner \/ RunCombination \/ RefuseCombination \/ FinishRunner

-----------------------------------------------------------------------------
\* Reference: the set of values a configuration stands for.
ValueSet(k, cfg) ==
  LET spec == Specs[k]
      lo == Coerce(spec, cfg.min)
      hi == Coerce(spec, cfg.max)
      st == Coerce(spec, cfg.step)
  IN  IF cfg.mode = "values" THEN {Coerce(spec, cfg.values[i]) : i \in DOMAIN cfg.values}
      ELSE {v \in lo .. hi : (v - lo) % st = 0}

(* The grid the runner rebuilds has as many combinations as were promised  *)
(* when the job was accepted, they are all those of the selected values,   *)
(* each once and in lexicographic order when the values come from ranges   *)
(* (a range of floats that was cut at FloatCap is over the limit).         *)
GridIsExact ==
  job # None =>
    LET sel  == job.selection
        keys == Keys(sel)
        ascending == \A k \in DOMAIN sel : sel[k].mode = "range"
        before(f, g) == \E n \in DOMAIN keys : f[keys[n]] < g[keys[n]]
                          /\ \A m \in 1 .. n - 1 : f[keys[m]] = g[keys[m]]
    IN  /\ Len(combos) = job.total /\ done <= job.total
        /\ ToSet(combos) = {f \in [DOMAIN sel -> UNION {ValueSet(k, sel[k]) : k \in DOMAIN sel}] :
                              \A k \in DOMAIN sel : f[k] \in ValueSet(k, sel[k])}
        /\ ascending => \A i, j \in DOMAIN combos : i < j => before(combos[i], combos[j])

(* An accepted job is refused on the way only for what acceptance does not *)
(* look at: a listed number outside the bounds of the schema or off its    *)
(* step, or an integer range whose start or step is off it.  A range never *)
(* leaves the bounds, and enumerations, booleans and float ranges always   *)
(* run.  A job that succeeds has run every combination.                    *)
RefusalIsExplained ==
  /\ outcome = "success" => done = job.total
  /\ outcome = "failed" =>
       \E k \in DOMAIN job.selection :
         LET spec == Specs[k]
             cfg  == job.selection[k]
             off(x) == spec.type = "int" /\ spec.step # None /\ x % spec.step # 0
         IN  CASE cfg.mode = "values" ->
                    /\ Numeric(spec)
                    /\ \E v \in ValueSet(k, cfg) :
                         \/ spec.min # None /\ (v < spec.min \/ off(v - spec.min))
                         \/ spec.max # None /\ v > spec.max
               [] cfg.mode = "range" ->
                    /\ spec.min # None
                    /\ \/ off(Coerce(spec, cfg.min) - spec.min)
                       \/ off(Coerce(spec, cfg.step))
=============================================================================
