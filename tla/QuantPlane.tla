----------------------------- MODULE QuantPlane -----------------------------
(***************************************************************************)
(* The quantitative plane: an input is measured by its interface's         *)
(* classifier and admitted if its bucket is claimed (executor), and then   *)
(* answered by the adapter (child), which reads the same input again and   *)
(* hands it to an engine.  The engines are outside the repository: what    *)
(* they compute is any value of the shape the adapter relies on.           *)
(*                                                                         *)
(* Inputs have passed the interface's contract: fields have their types.   *)
(* Fractions are integers over Unit, the smallest step an input uses.      *)
(***************************************************************************)
EXTENDS BucketSelectors, Integers, FiniteSetsExt

CONSTANTS
  Calls,          \* inputs, with the name of their interface
  Contents,       \* contents the file of a pinned model may have
  Starts,         \* by dimension, where its second, third, ... class begins
  Unit,           \* an input's 1.0
  Balanced, Rare, \* one outcome in this many makes a sample balanced; not rare
  Hour, Day, Week,
  MaxHorizon, MinFit  \* MAX_HORIZON, and the 10 observations a forecast needs

\* What the contract of an interface says of the fields an adapter computes with,
\* or its own check of a field's type: it declines another as all it does not perform.
IsList(s) == s \in Seq(Range(s))
Numbers(f) == f \in [DOMAIN f -> Int] /\ IsFiniteSet(DOMAIN f)
IsInput(c) ==
  CASE c.interface \in {"ts.anomaly", "ts.forecast"} ->
         c.at \in Seq(Int) /\ c.val \in Seq(Int) /\ Len(c.val) = Len(c.at)
         /\ (c.interface = "ts.anomaly" => c.changes \in Int)
    [] c.interface = "score.rank" ->
         /\ IsList(c.items) /\ c.file \in Contents /\ Numbers(c.weights)
         /\ \A i \in DOMAIN c.items : c.items[i].id \in Int /\ Numbers(c.items[i].signals)
    [] c.interface = "match.record" -> IsList(c.blocking)
    [] c.interface = "calc.calibrate" -> c.edges \in Seq(Int) /\ c.bins \in Int
    [] c.interface = "calc.reduce" -> IsList(c.rows)
    [] c.interface = "stat.test" -> IsList(c.groups)

ASSUME QuantAssumption ==
  /\ {Unit, Balanced, Rare, MinFit} \subseteq Nat \ {0} /\ Balanced <= Rare
  /\ Hour < Day /\ Day < Week /\ MaxHorizon \in Nat
  /\ "none" \notin Contents
  /\ \A c \in Calls : IsInput(c)

Null == 0 - 1000  \* a value that is null or absent

VARIABLES
  phase,   \* "idle", "asked", "admitted", "read", "ok", "declined",
           \* "tampered" or "refused"
  call,    \* the input
  bucket,  \* the bucket it was admitted in
  model,   \* content of the model file by now
  blob,    \* the bytes read from it
  out      \* the answer

quant == <<phase, call, bucket, model, blob, out>>

NoCall == [interface |-> "none"]
NoOut == [kind |-> "none"]

QuantInit ==
  /\ phase = "idle" /\ call = NoCall /\ bucket = Malformed
  /\ model = "none" /\ blob = "none" /\ out = NoOut

Size(s) == Cardinality(DOMAIN s)

-----------------------------------------------------------------------------
(* vocab/*.yaml and manifest.yaml.                                          *)

SeriesDims(domains) ==
  <<<<"frequency", {"sub_hourly", "hourly", "daily", "weekly_or_slower", "irregular"}>>,
    <<"series_length", {"very_short", "short", "medium", "long"}>>,
    <<"series_count", {"single", "few", "many", "massive"}>>,
    <<"domain_class", domains \cup {"counts", "rates", "continuous_bounded", "continuous_unbounded"}>>>>
Samples == <<"sample_size", {"tiny", "small", "moderate", "large"}>>
Labels == <<"label_availability", {"unlabeled", "partial", "labeled"}>>

Dimensions(interface) ==
  CASE interface = "ts.anomaly" -> SeriesDims({"categorical_encoded"}) \o
         <<<<"seasonality", {"none", "single_period", "multi_period", "unknown"}>>,
           <<"gap_profile", {"regular", "sparse_gaps", "heavy_gaps"}>>>>
    [] interface = "ts.forecast" -> SeriesDims({"intermittent"}) \o
         <<<<"horizon", {"very_short", "short", "medium", "long"}>>,
           <<"exogenous", {"none", "past_only", "known_future"}>>>>
    [] interface = "stat.test" ->
         <<<<"test_family", {"location", "proportion", "variance", "association", "distributional",
                             "count_model"}>>, Samples,
           <<"design", {"independent", "paired", "clustered", "time_ordered"}>>,
           <<"dimensionality", {"univariate", "low_multivariate", "high_multivariate"}>>>>
    [] interface = "score.rank" ->
         <<<<"candidate_count", {"small", "medium", "large"}>>, <<"signal_count", {"single", "few", "many"}>>,
           Labels, <<"tie_density", {"sparse_ties", "moderate_ties", "heavy_ties"}>>>>
    [] interface = "match.record" ->
         <<<<"pair_space", {"small", "medium", "large"}>>, <<"blocking", {"strong", "weak", "none"}>>,
           <<"field_richness", {"single_field", "few_fields", "rich"}>>, Labels>>
    [] interface = "calc.calibrate" ->
         <<<<"outcome_type", {"binary", "categorical", "continuous", "interval"}>>, Samples,
           <<"resolution_lag", {"immediate", "bounded", "long_horizon"}>>,
           <<"base_rate", {"balanced", "moderate_imbalance", "rare_event"}>>>>
    [] interface = "calc.reduce" ->
         <<<<"row_count", {"small", "medium", "large", "very_large"}>>,
           <<"column_count", {"narrow", "moderate", "wide"}>>,
           <<"reduction_kind", {"scalar_aggregate", "grouped_aggregate", "windowed"}>>,
           <<"memory_fit", {"in_memory", "out_of_core"}>>>>

\* declared_input_buckets, by the classes a selector names; the rest is "*".
AnomalyClaims_AnyGap ==
  {[series_length |-> "short", series_count |-> "single", domain_class |-> d] :
     d \in {"counts", "rates", "continuous_bounded", "continuous_unbounded"}}
AnomalyClaims ==
  {[series_length |-> "short", series_count |-> "single", domain_class |-> d, gap_profile |-> "regular"] :
     d \in {"counts", "rates", "continuous_bounded", "continuous_unbounded"}}
ClaimsOf(interface) ==
  CASE interface = "ts.anomaly" -> AnomalyClaims
    [] interface = "ts.forecast" ->
         [series_length : {"short", "medium"}, series_count : {"single"},
          domain_class : {"counts", "continuous_unbounded"}, exogenous : {"none"}]
    [] interface = "stat.test" ->
         {[test_family |-> c[1], design |-> c[2], dimensionality |-> "univariate"] :
            c \in {<<"location", "independent">>, <<"location", "paired">>, <<"proportion", "independent">>,
                   <<"variance", "independent">>, <<"association", "paired">>,
                   <<"distributional", "independent">>}}
    [] interface = "score.rank" -> [candidate_count : {"small", "medium"}]
    [] interface = "match.record" ->
         [pair_space : {"small"}, blocking : {"strong", "weak"}, label_availability : {"unlabeled"}]
    [] interface = "calc.calibrate" ->
         [outcome_type : {"binary"}, base_rate : {"balanced", "moderate_imbalance"}]
    [] interface = "calc.reduce" -> [row_count : {"small", "medium"}, memory_fit : {"in_memory"}]
Spelled(claim, dims) ==
  [i \in DOMAIN dims |-> <<dims[i][1], IF dims[i][1] \in DOMAIN claim THEN claim[dims[i][1]] ELSE Star>>]
Selectors(interface) == {Spelled(c, Dimensions(interface)) : c \in ClaimsOf(interface)}

-----------------------------------------------------------------------------
(* classifiers.py.                                                          *)

\* The class of n in a dimension whose classes are ranges.
Graded(dim, n, names) == names[1 + Cardinality({i \in DOMAIN Starts[dim] : Starts[dim][i] <= n})]

\* parse_series: strictly increasing timestamps, all of them instants.
IsSeries(c) == c.dated /\ c.at # <<>> /\ \A i, j \in DOMAIN c.at : i < j => c.at[i] < c.at[j]
Missing(c) == {i \in DOMAIN c.val : c.val[i] = Null}
Values(c) == FlattenSeq([i \in DOMAIN c.val |-> IF c.val[i] = Null THEN <<>> ELSE <<c.val[i]>>])

\* spacing_seconds and _frequency: irregular if the coefficient of variation of
\* the gaps is above a tenth, else by their mean.
Frequency(c) ==
  LET k == Len(c.at) - 1
      total == c.at[Len(c.at)] - c.at[1]
      squares == MapThenSumSet(LAMBDA i : (c.at[i + 1] - c.at[i]) * (c.at[i + 1] - c.at[i]), 1..k)
  IN  IF k < 1 \/ 100 * (k * squares - total * total) > total * total THEN "irregular"
      ELSE IF total < k * Hour THEN "sub_hourly"
      ELSE IF total < k * Day THEN "hourly"
      ELSE IF total < k * Week THEN "daily" ELSE "weekly_or_slower"

SeriesLength(c) == Graded("series_length", Len(Values(c)), <<"very_short", "short", "medium", "long">>)

\* _domain_class: the first that applies.
Domain(c, intermittent) ==
  LET vs == Range(Values(c))
      counts == \A v \in vs : v >= 0 /\ v % Unit = 0
      zeros == Cardinality({i \in DOMAIN c.val : c.val[i] = 0})
  IN  IF c.encoded THEN "categorical_encoded"
      ELSE IF intermittent /\ counts /\ 2 * zeros > Len(Values(c)) THEN "intermittent"
      ELSE IF counts THEN "counts"
      ELSE IF \A v \in vs : 0 <= v /\ v <= Unit THEN "rates"
      ELSE IF c.bounded THEN "continuous_bounded" ELSE "continuous_unbounded"

Seasonality(c) ==
  IF ~c.season.declared THEN "unknown"
  ELSE IF \A p \in Range(c.season.periods) : p <= 1 THEN "none"
  ELSE IF Len(c.season.periods) = 1 THEN "single_period" ELSE "multi_period"

\* _gap_profile: sparse if no two missing are neighbours and fewer than a tenth.
GapProfile(c) ==
  IF Missing(c) = {} THEN "regular"
  ELSE IF (\A i \in Missing(c) : i + 1 \notin Missing(c)) /\ 10 * Cardinality(Missing(c)) < Len(c.val)
  THEN "sparse_gaps" ELSE "heavy_gaps"

Sampled(n) == Graded("sample_size", n, <<"tiny", "small", "moderate", "large">>)

\* By the labels there are, and how many are as good as all.
Labelled(found, enough) ==
  IF found = 0 THEN "unlabeled" ELSE IF found >= enough THEN "labeled" ELSE "partial"

\* classify_score_rank: items with one signal vector are bound to tie.
TieDensity(c) ==
  LET n == Len(c.items)
      duplicated == n - Cardinality({c.items[i].signals : i \in 1..n})
  IN  IF 20 * duplicated < n THEN "sparse_ties"
      ELSE IF 2 * duplicated < n THEN "moderate_ties" ELSE "heavy_ties"
Signals(c) == UNION {DOMAIN c.items[i].signals : i \in DOMAIN c.items}
LabelledItems(c) == Cardinality({i \in DOMAIN c.items : c.items[i].labelled})

\* classify_match_record: a block is all the blocking fields, null equal to null.
Keyed(c, i) == [f \in Range(c.blocking) |-> c.records[i][f]]
Block(c, i) == {j \in DOMAIN c.records : Keyed(c, j) = Keyed(c, i)}
Largest(c) == Max({Cardinality(Block(c, i)) : i \in DOMAIN c.records})
PairsMeasured(c) == {p \in (DOMAIN c.records) \X (DOMAIN c.records) : p[1] < p[2] /\ p[2] \in Block(c, p[1])}
PairSpace(c) == Cardinality(PairsMeasured(c))

\* classify_calc_calibrate.
OutcomeType(c) ==
  LET ys == {c.predictions[i].outcome : i \in DOMAIN c.predictions}
  IN  IF \E i \in DOMAIN c.predictions : c.predictions[i].form = "interval" THEN "interval"
      ELSE IF ys \subseteq {0, Unit} THEN "binary"
      ELSE IF \A y \in ys : y % Unit = 0 THEN "categorical" ELSE "continuous"
ResolutionLag(c) ==
  LET n == Len(c.predictions)
      lag(i) == c.predictions[i].settled - c.predictions[i].made
      lags == {lag(i) : i \in 1..n}
      median == CHOOSE v \in lags : /\ Cardinality({i \in 1..n : lag(i) < v}) <= n \div 2
                                    /\ Cardinality({i \in 1..n : lag(i) <= v}) > n \div 2
      window == Max({c.predictions[i].settled : i \in 1..n}) - Min({c.predictions[i].made : i \in 1..n})
  IN  IF window <= 0 THEN "immediate"
      ELSE IF 2 * median > window THEN "long_horizon"
      ELSE IF n * Max(lags) <= window THEN "immediate" ELSE "bounded"
\* One outcome alone is balanced: there is no rarer one to compare it with.
BaseRate(c) ==
  LET n == Len(c.predictions)
      tally(y) == Cardinality({i \in 1..n : c.predictions[i].outcome = y})
      ys == {c.predictions[i].outcome : i \in 1..n}
      rarest == Min({tally(y) : y \in ys})
  IN  IF Cardinality(ys) = 1 \/ Balanced * rarest >= n THEN "balanced"
      ELSE IF Rare * rarest >= n THEN "moderate_imbalance" ELSE "rare_event"

ReductionKind(c) == IF c.windowed THEN "windowed"
                    ELSE IF c.groupBy # <<>> THEN "grouped_aggregate" ELSE "scalar_aggregate"

\* Inputs a classifier can place; those with a decimal that is none it cannot.
Placeable(c) ==
  /\ c.canonical
  /\ CASE c.interface = "ts.anomaly" -> IsSeries(c)
       [] c.interface = "ts.forecast" -> IsSeries(c) /\ c.horizon >= 1
       [] c.interface = "stat.test" -> c.groups # <<>> /\ \A g \in Range(c.groups) : g > 0
       [] c.interface = "score.rank" ->
            c.items # <<>> /\ \A i \in DOMAIN c.items : c.items[i].signals # <<>>
       [] c.interface = "match.record" -> c.records # <<>> /\ c.comparisons # {}
       [] c.interface = "calc.calibrate" ->
            /\ c.predictions # <<>>
            /\ \/ \A i \in DOMAIN c.predictions : c.predictions[i].form = "interval"
               \/ \A i \in DOMAIN c.predictions : c.predictions[i].form # "interval"
       [] c.interface = "calc.reduce" -> c.rows # <<>> /\ c.columns # {}

Measured(c) ==
  CASE c.interface = "ts.anomaly" ->
         [frequency |-> Frequency(c), series_length |-> SeriesLength(c), series_count |-> "single",
          domain_class |-> Domain(c, FALSE), seasonality |-> Seasonality(c), gap_profile |-> GapProfile(c)]
    [] c.interface = "ts.forecast" ->
         [frequency |-> Frequency(c), series_length |-> SeriesLength(c), series_count |-> "single",
          domain_class |-> Domain(c, TRUE), exogenous |-> c.exogenous,
          horizon |-> Graded("horizon", c.horizon, <<"very_short", "short", "medium", "long">>)]
    [] c.interface = "stat.test" ->
         [test_family |-> c.family, sample_size |-> Sampled(Min(Range(c.groups))), design |-> c.design,
          dimensionality |->
            Graded("dimensionality", c.variables, <<"univariate", "low_multivariate", "high_multivariate">>)]
    [] c.interface = "score.rank" ->
         [candidate_count |-> Graded("candidate_count", Len(c.items), <<"small", "medium", "large">>),
          signal_count |-> Graded("signal_count", Cardinality(Signals(c)), <<"single", "few", "many">>),
          label_availability |-> Labelled(100 * LabelledItems(c), 99 * Len(c.items)), tie_density |-> TieDensity(c)]
    [] c.interface = "match.record" ->
         [pair_space |-> Graded("pair_space", PairSpace(c), <<"small", "medium", "large">>),
          blocking |-> IF c.blocking = <<>> THEN "none" ELSE Graded("blocking", Largest(c), <<"strong", "weak">>),
          field_richness |-> Graded("field_richness", Cardinality(c.comparisons), <<"single_field", "few_fields", "rich">>),
          label_availability |-> Labelled(c.known, PairSpace(c))]
    [] c.interface = "calc.calibrate" ->
         [outcome_type |-> OutcomeType(c), sample_size |-> Sampled(Len(c.predictions)),
          resolution_lag |-> ResolutionLag(c), base_rate |-> BaseRate(c)]
    [] c.interface = "calc.reduce" ->
         [row_count |-> Graded("row_count", Len(c.rows), <<"small", "medium", "large", "very_large">>),
          column_count |-> Graded("column_count", Cardinality(c.columns), <<"narrow", "moderate", "wide">>),
          reduction_kind |-> ReductionKind(c), memory_fit |-> "in_memory"]

-----------------------------------------------------------------------------
(* Admission: Registry.classify and Registry.admit.                         *)

Stay == UNCHANGED <<model, blob>>

AskQuant(c) ==
  /\ phase = "idle"
  /\ phase' = "asked" /\ call' = c
  /\ model' = IF c.interface = "score.rank" THEN c.file ELSE "none"
  /\ UNCHANGED <<bucket, blob, out>>

Admit ==
  /\ phase = "asked"
  /\ LET dims == Dimensions(call.interface)
         id == IF Placeable(call) THEN BucketId(dims, Measured(call)) ELSE Malformed
     IN  IF id # Malformed /\ \E s \in Selectors(call.interface) : Matches(ParseSelector(dims, s), id)
         THEN phase' = "admitted" /\ bucket' = id
         ELSE phase' = "refused" /\ UNCHANGED bucket
  /\ UNCHANGED <<call, out>> /\ Stay

-----------------------------------------------------------------------------
(* The adapters.  Each declines what it does not perform, and an answer     *)
(* with a number that is none (ok_if_finite): that is an engine's doing and *)
(* may happen to any.  An engine that raises is the harness's (Invocation). *)

Running(interface) == phase = "admitted" /\ call.interface = interface
Declines == phase' = "declined" /\ UNCHANGED <<call, bucket, out>> /\ Stay
Returns(o) == phase' = "ok" /\ out' = o /\ UNCHANGED <<call, bucket>> /\ Stay
Attempts(performed, outs) == Declines \/ (performed /\ \E o \in outs : Returns(o))

\* Anomaly._stl_mad: a point is an observation and the timestamp at its position.
OnePeriod(season, least) ==
  season.declared /\ Len(season.periods) = 1 /\ season.periods[1] >= least
Scored(c) ==
  /\ OnePeriod(c.season, 2) /\ c.threshold > 0
  /\ Len(Values(c)) >= 2 * c.season.periods[1]
Points(c) == [i \in DOMAIN Values(c) |-> [at |-> c.at[i], value |-> Values(c)[i]]]
StlMad == Running("ts.anomaly") /\ call.method = "stl_mad"
          /\ Attempts(Scored(call), {[kind |-> "points", points |-> Points(call)]})

\* Anomaly._changepoint: segments of at least two observations each.
Cuts(n, count) == {cs \in [1..count -> 2..n] : \A i \in 1..count :
                     cs[i] + 2 <= IF i = count THEN n ELSE cs[i + 1]}
SegmentsOf(cs, n) ==
  [i \in 1..Len(cs) + 1 |-> [start |-> IF i = 1 THEN 0 ELSE cs[i - 1],
                             end |-> IF i > Len(cs) THEN n ELSE cs[i]]]
Changepoint ==
  /\ Running("ts.anomaly") /\ call.method = "changepoint"
  /\ LET n == Len(Values(call))
     IN  Attempts(call.changes >= 1 /\ n >= 2 * (call.changes + 1),
                  {[kind |-> "segments", segments |-> SegmentsOf(cs, n)] : cs \in Cuts(n, call.changes)})

UnknownMethod ==
  /\ phase = "admitted"
  /\ \/ call.interface = "ts.anomaly" /\ call.method \notin {"stl_mad", "changepoint"}
     \/ call.interface = "score.rank" /\ call.mode \notin {"weighted", "pinned_model"}
  /\ Declines

\* Forecast: one value per step, and per declared level an interval per step.
Forecastable(c) ==
  /\ Missing(c) = {} /\ c.knownModel /\ c.horizon \in 1..MaxHorizon
  /\ c.season.declared => OnePeriod(c.season, 1)
  /\ LET period == IF c.season.declared THEN c.season.periods[1] ELSE 1
     IN  Len(c.val) >= Max({2 * period, MinFit})
  /\ c.levels # <<>> /\ Range(c.levels) \subseteq 1..99
ForecastSeries ==
  Running("ts.forecast")
  /\ Attempts(Forecastable(call),
              {[kind |-> "forecast", fitted |-> Values(call), steps |-> call.horizon, levels |-> Range(call.levels)]})

\* Calibrate: the bins of a declared cover of [0, 1] or of equal width, and the
\* bin of a prediction: how many inner edges it has reached.
CoversUnit(edges) ==
  /\ \A i, j \in DOMAIN edges : i < j => edges[i] < edges[j]
  /\ edges[1] <= 0 /\ edges[Len(edges)] >= Unit
EdgesOf(c) == IF c.edges # <<>> THEN c.edges ELSE [k \in 1..c.bins + 1 |-> ((k - 1) * Unit) \div c.bins]
BinOf(edges, p) == 1 + Cardinality({k \in 2..Len(edges) - 1 : edges[k] <= p})
Calibratable(c) ==
  /\ \A i \in DOMAIN c.predictions :
       c.predictions[i].form = "number" /\ c.predictions[i].p \in 0..Unit
  /\ IF c.edges # <<>> THEN Len(c.edges) >= 2 /\ CoversUnit(c.edges) ELSE c.bins >= 1
Calibration ==
  /\ Running("calc.calibrate")
  /\ Attempts(Calibratable(call),
       {[kind |-> "bins", edges |-> EdgesOf(call),
         members |-> [b \in 1..Len(EdgesOf(call)) - 1 |->
                        {i \in DOMAIN call.predictions : BinOf(EdgesOf(call), call.predictions[i].p) = b}]]})

\* RecordLinkage: splink pairs records that agree on a blocking field, any of
\* them, null with nothing; the threshold drops what scores below it.
Fields(c) == DOMAIN c.records[1]
SharesAField(c, i, j) ==
  \E f \in Range(c.blocking) : c.records[i][f] # Null /\ c.records[i][f] = c.records[j][f]
PairsOf(c) == {p \in (DOMAIN c.records) \X (DOMAIN c.records) :
                 p[1] < p[2] /\ SharesAField(c, p[1], p[2])}
Linkable(c) == c.parameters /\ c.comparisons \cup Range(c.blocking) \subseteq Fields(c)
Linkage ==
  Running("match.record")
  /\ Attempts(Linkable(call),
              {[kind |-> "pairs", pairs |-> ps] :
                 ps \in IF call.threshold = 0 THEN {PairsOf(call)} ELSE SUBSET PairsOf(call)})

\* StatTest: the test that was named, of the family that was declared, on as many
\* groups as it takes and of one length if it pairs them.
Locations == {"student_t", "welch_t", "paired_t", "mann_whitney_u", "wilcoxon_signed_rank"}
Associations == {"pearson_r", "spearman_rho", "chi2_contingency"}
Distributionals == {"ks_2samp", "shapiro_wilk"}
Tests ==
  [t \in Locations \cup Associations \cup Distributionals \cup {"proportions_z", "levene", "bartlett"} |->
     [family |-> CASE t \in Locations -> "location"
                   [] t \in Associations -> "association"
                   [] t \in Distributionals -> "distributional"
                   [] t = "proportions_z" -> "proportion"
                   [] OTHER -> "variance",
      groups |-> IF t = "shapiro_wilk" THEN 1 ELSE 2,
      paired |-> t \in {"paired_t", "wilcoxon_signed_rank", "pearson_r", "spearman_rho"}]]
Testable(c) ==
  /\ c.test \in DOMAIN Tests
  /\ c.family = Tests[c.test].family
  /\ c.alpha \in 1..Unit - 1 /\ c.variables = 1
  /\ Len(c.groups) = Tests[c.test].groups
  /\ Tests[c.test].paired => Cardinality(Range(c.groups)) = 1
StatisticalTest ==
  Running("stat.test")
  /\ Attempts(Testable(call),
              {[kind |-> "test", test |-> call.test, reject |-> p < call.alpha] : p \in {0, Unit}})

\* Reduce: one row, one per group, or one per row.
GroupsOf(c) == {[g \in Range(c.groupBy) |-> c.rows[i][g]] : i \in DOMAIN c.rows}
Reducible(c) ==
  /\ c.known
  /\ IF c.windowed THEN c.window.size >= 1 /\ c.window.columns \subseteq c.columns
     ELSE Range(c.groupBy) \subseteq c.columns /\ c.aggregated # {} /\ c.aggregated \subseteq c.columns
Reduction ==
  Running("calc.reduce")
  /\ Attempts(Reducible(call),
       {[kind |-> "rows", shape |-> ReductionKind(call),
         rows |-> IF call.windowed THEN Len(call.rows)
                  ELSE IF call.groupBy # <<>> THEN Cardinality(GroupsOf(call)) ELSE 1]})

\* Rank: scored by declared weights, or by a pinned model whose file is read once.
IsRanking(c) == \A i, j \in DOMAIN c.items : c.items[i].id = c.items[j].id => i = j
Carries(c, names) == \A i \in DOMAIN c.items : names \subseteq DOMAIN c.items[i].signals
Weighted(weights, signals) == MapThenSumSet(LAMBDA s : weights[s] * signals[s], DOMAIN weights)
WeightedScores(c) == [i \in DOMAIN c.items |-> Weighted(c.weights, c.items[i].signals)]

\* Rank._ranking: by score, highest first, then by id; the k-th has k - 1 ahead of it.
Ahead(c, scores, i) ==
  {j \in DOMAIN c.items : scores[j] > scores[i] \/ (scores[j] = scores[i] /\ c.items[j].id < c.items[i].id)}
Ranking(c, scores) ==
  LET order == [k \in DOMAIN c.items |-> CHOOSE i \in DOMAIN c.items : Cardinality(Ahead(c, scores, i)) = k - 1]
  IN  [k \in DOMAIN order |->
         [item |-> order[k], score |-> scores[order[k]],
          tied |-> {i \in DOMAIN c.items : scores[i] = scores[order[k]]} \ {order[k]}]]

WeightedRank ==
  Running("score.rank") /\ call.mode = "weighted"
  /\ Attempts(IsRanking(call) /\ call.weights # <<>> /\ Carries(call, DOMAIN call.weights),
              {[kind |-> "ranking", ranking |-> Ranking(call, WeightedScores(call)), model |-> "none"]})

\* The shape of the reference, then the bytes; a file that is absent is a shape failure.
ReadModel ==
  /\ Running("score.rank") /\ call.mode = "pinned_model"
  /\ IF IsRanking(call) /\ call.wellFormed /\ model # "absent"
     THEN phase' = "read" /\ blob' = model /\ UNCHANGED <<call, bucket, model, out>>
     ELSE Declines

\* What is unpickled are the bytes that were hashed.
Loaded_ByPath == model
Loaded == blob
FeatureRows(c) == {[f \in Range(c.features) |-> c.items[i].signals[f]] : i \in DOMAIN c.items}
ModelScores(c) ==
  {[i \in DOMAIN c.items |-> f[[s \in Range(c.features) |-> c.items[i].signals[s]]]] : f \in [FeatureRows(c) -> 0..1]}
ScoreModel ==
  /\ phase = "read"
  /\ \/ blob # call.pin /\ phase' = "tampered" /\ UNCHANGED <<call, bucket, out>> /\ Stay
     \/ blob = call.pin /\ ~Carries(call, Range(call.features)) /\ Declines
     \/ /\ blob = call.pin /\ Carries(call, Range(call.features))
        /\ Attempts(TRUE, {[kind |-> "ranking", ranking |-> Ranking(call, s), model |-> Loaded] :
                             s \in ModelScores(call)})

\* The file is another party's.
TouchModel(content) ==
  /\ phase \in {"asked", "admitted", "read"} /\ call.interface = "score.rank" /\ call.mode = "pinned_model"
  /\ content # model
  /\ model' = content /\ UNCHANGED <<phase, call, bucket, blob, out>>

QuantStep ==
  \/ Admit \/ StlMad \/ Changepoint \/ UnknownMethod \/ ForecastSeries \/ Calibration \/ Linkage
  \/ StatisticalTest \/ Reduction \/ WeightedRank \/ ReadModel \/ ScoreModel
  \/ \E x \in Contents : TouchModel(x)

-----------------------------------------------------------------------------
(* Properties.                                                              *)

PointsAreObservations ==
  out.kind = "points" =>
    /\ Len(out.points) = Len(call.at) - Cardinality(Missing(call))
    /\ \A i \in DOMAIN out.points :
         \E k \in DOMAIN call.at : call.at[k] = out.points[i].at /\ call.val[k] = out.points[i].value
SegmentsTile ==
  out.kind = "segments" =>
    /\ out.segments[1].start = 0 /\ out.segments[Len(out.segments)].end = Len(Values(call))
    /\ \A i \in DOMAIN out.segments :
         /\ out.segments[i].end >= out.segments[i].start + 2
         /\ i > 1 => out.segments[i].start = out.segments[i - 1].end
FitsEveryStep == out.kind = "forecast" => out.fitted = call.val /\ \A v \in Range(out.fitted) : v # Null
\* A bin holds its lower edge, and its upper one only if it is the last: not the
\* "Right-closed bins" of calibrate.py:113.
BinsHold ==
  out.kind = "bins" => \A i \in DOMAIN call.predictions :
    \E b \in DOMAIN out.members :
      /\ \A other \in DOMAIN out.members : i \in out.members[other] <=> other = b
      /\ out.edges[b] <= call.predictions[i].p
      /\ IF b = Len(out.members) THEN call.predictions[i].p <= out.edges[b + 1]
         ELSE call.predictions[i].p < out.edges[b + 1]
RanksWhole ==
  out.kind = "ranking" =>
    /\ {out.ranking[k].item : k \in DOMAIN out.ranking} = DOMAIN call.items
    /\ \A k, l \in DOMAIN out.ranking :
         /\ k < l => out.ranking[k].score >= out.ranking[l].score
         /\ call.items[out.ranking[k].item].signals = call.items[out.ranking[l].item].signals /\ k # l
              => out.ranking[l].item \in out.ranking[k].tied
\* The engine pairs on any blocking field, the bucket counts the pairs that agree
\* on all of them, null with null (classifiers.py:460-472).  This is all by which
\* they differ: a pair that was not counted differs on another field, and one that
\* is not scored has no blocking field.
PairsApart ==
  out.kind = "pairs" =>
    /\ \A p \in out.pairs \ PairsMeasured(call) :
         \E f, g \in Range(call.blocking) :
           /\ call.records[p[1]][f] = call.records[p[2]][f] /\ call.records[p[1]][f] # Null
           /\ call.records[p[1]][g] # call.records[p[2]][g]
    /\ call.threshold = 0 =>
         \A p \in PairsMeasured(call) \ out.pairs : \A f \in Range(call.blocking) :
           call.records[p[1]][f] = Null /\ call.records[p[2]][f] = Null
RowsOfKind ==
  out.kind = "rows" =>
    /\ <<"reduction_kind", out.shape>> \in Range(bucket)
    /\ out.shape = "windowed" => out.rows = Len(call.rows)
    /\ out.shape = "grouped_aggregate" => out.rows \in 1..Len(call.rows)
\* The family is compared with the test, the design never is (stat_test.py:98-140):
\* only where the manifest claims one design of a family that has tests of one is the
\* recorded design the test's.  Of location either design is admitted with any test,
\* and of association "paired" with chi2_contingency, which pairs nothing.
TestAsRecorded ==
  out.kind = "test" =>
    LET family == Tests[out.test].family
    IN  /\ <<"test_family", family>> \in Range(bucket)
        /\ family \notin {"location", "association"} =>
             <<"design", "independent">> \in Range(bucket) /\ ~Tests[out.test].paired

\* vocab/*.yaml: how far the bucket a run is recorded under is that of what was
\* answered, interface by interface: up to the two readings of PairsApart and
\* TestAsRecorded.  What the adapter relies on and does not check holds of every input
\* that was admitted: anomaly.py:159 takes a point's timestamp by its position
\* among the values that are there, which is the observation's own only in a series
\* without gaps, and only the manifest's claim keeps the others out.
AnswersMatchInput ==
  /\ PointsAreObservations /\ SegmentsTile /\ FitsEveryStep /\ BinsHold
  /\ RanksWhole /\ PairsApart /\ RowsOfKind /\ TestAsRecorded

\* rank.py:29 "The file exists, it was read, and it is not the artifact that was
\* reviewed": whatever the file becomes while it is used, what scores is the pinned
\* model, and an integrity refusal means other bytes were read.
ScoresByPinned ==
  /\ out.kind = "ranking" /\ call.mode = "pinned_model" => out.model = call.pin
  /\ phase = "tampered" => blob \notin {call.pin, "absent", "none"}
=============================================================================
