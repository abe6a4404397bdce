------------------------------ MODULE MCIntake ------------------------------
(* Instances of Intake for TLC.                                             *)
EXTENDS Intake, TLC

\* ---- Distributions: a sound one, and those with one thing wrong. ----
Dims == <<<<"size", {"small", "large"}>>, <<"kind", {"text", "bytes"}>>>>
Wider == <<<<"size", {"small", "large"}>>, <<"kind", {"text", "bytes", "none"}>>>>
Small == <<<<"size", "small">>, <<"kind", "text">>>>
Swapped == <<<<"kind", "text">>, <<"size", "small">>>>
AnyText == <<<<"kind", "text">>, <<"size", "*">>>>     \* not in the vocabulary's order
LargeAny == <<<<"size", "large">>, <<"kind", "*">>>>
Def(i, v) == [interface |-> i, effect |-> "pure", version |-> v, contracts |-> TRUE]
Row(id, b) == [id |-> id, bucket |-> b]
Impl(i) == [interface |-> i, entrypoint |-> "main", digest |-> Def(i, 2), sideEffects |-> FALSE,
            declared |-> {AnyText}, claims |-> {<<AnyText, "f1">>}, extras |-> <<"extra">>,
            backends |-> <<"local_env", "container">>, endpoints |-> {"https://e"}]
Book(impls) == [name |-> "p", version |-> 1, majors |-> {1}, implementations |-> impls]
SoundBook == Book({Impl("i")})
SoundRows == {Row("f1", Small), Row("f2", <<<<"size", "large">>, <<"kind", "bytes">>>>)}

SoundFiles ==
  [p \in Paths |->
     CASE p[1] = "manifest"    -> SoundBook
       [] p[1] = "definition"  -> Def(p[2], 2)
       [] p[1] = "predecessor" -> Def(p[2], 1)
       [] p[1] = "vocabulary"  -> [interface |-> p[2], dims |-> Dims]
       [] p[1] = "classifier"  -> "code"
       [] p[1] = "fixtures"    -> SoundRows]
Dist(f) == [files |-> f, refs |-> f, links |-> {}, exports |-> <<"i">>,
            digests |-> [i \in Interfaces |-> Def(i, 2)], history |-> TRUE, unpacks |-> TRUE, registrations |-> 1,
            file |-> <<"p", 1>>, requirements |-> {<<"i", "extra">>},
            metadata |-> [name |-> "p", version |-> 1, entries |-> {<<"i", "main">>}, extras |-> {"extra"}]]
SoundDist == Dist(SoundFiles)

WithImpl(x) == Dist([SoundFiles EXCEPT ![Manifest] = Book(x)])
WithRows(rows) == Dist([SoundFiles EXCEPT ![Fixtures("i")] = rows])
I1 == Impl("i")
Claiming(s, f) == [I1 EXCEPT !.declared = {s}, !.claims = {<<s, f>>}]

\* A manifest with another claim, a vocabulary with another class, rows without
\* the claimed one and with it, another definition.
Rewrites ==
  {<<Manifest, Book({Claiming(LargeAny, "f2")})>>,
   <<Vocabulary("i"), [interface |-> "i", dims |-> Wider]>>,
   <<Fixtures("i"), {Row("f1", Small)}>>, <<Fixtures("i"), SoundRows>>,
   <<Definition("i"), Def("i", 3)>>, <<Classifier("i"), "other code">>}

Wheels ==
  {SoundDist, [SoundDist EXCEPT !.history = FALSE],
   WithImpl({I1, [I1 EXCEPT !.entrypoint = "other"]}),
   WithImpl({[I1 EXCEPT !.digest = Def("i", 3)]}), WithImpl({[I1 EXCEPT !.sideEffects = TRUE]}),
   WithImpl({}), WithImpl({Claiming(LargeAny, "f1")}), WithImpl({Claiming(LargeAny, "f2")}),
   WithImpl({Claiming(LargeAny, "f3")}), WithImpl({Claiming(Swapped, "f1")}),
   WithImpl({[I1 EXCEPT !.claims = {}]}), WithImpl({[I1 EXCEPT !.extras = <<>>]}),
   WithImpl({[I1 EXCEPT !.extras = <<"extra", "extra">>]}), WithImpl({[I1 EXCEPT !.backends = <<>>]}),
   WithImpl({[I1 EXCEPT !.backends = <<"local_env", "local_env">>]}),
   WithImpl({[I1 EXCEPT !.endpoints = {"dynamic:other"}]}),
   Dist([SoundFiles EXCEPT ![Manifest].majors = {}]),
   WithRows({Row("f1", Swapped)}), WithRows({Row("f1", Small), Row("f1", Swapped)}),
   WithRows({Row("f1", <<<<"size", "small">>>>)}),
   [SoundDist EXCEPT !.exports = <<"i", "i">>], [SoundDist EXCEPT !.exports = <<"j">>],
   [SoundDist EXCEPT !.registrations = 2], [SoundDist EXCEPT !.unpacks = FALSE], [SoundDist EXCEPT !.file = <<"p", 2>>],
   [SoundDist EXCEPT !.metadata.version = 2, !.file = <<"p", 2>>],
   [SoundDist EXCEPT !.metadata.entries = {<<"i", "other">>}],
   [SoundDist EXCEPT !.metadata.extras = {}], [SoundDist EXCEPT !.links = {Classifier("i")}]}
  \cup {[SoundDist EXCEPT !.files[e[1]] = e[2]] : e \in Rewrites}
  \cup {[Dist([SoundFiles EXCEPT ![Manifest] = Book({Impl("i"), Impl("j")})])
           EXCEPT !.exports = <<"j", "i">>, !.metadata.entries = {<<"i", "main">>, <<"j", "main">>}]}
  \cup {Dist([SoundFiles EXCEPT ![Old("i")] = Def("i", v)]) : v \in {0, 2}}

\* ---- Payloads: a sound one, and those with one thing different. ----
Transcribed(backends) == [id |-> "p", dist |-> 1, backends |-> backends]
Payload(m) == [manifest |-> m, digest |-> m, id |-> "p", dist |-> 1,
               pins |-> {"local_env", "container"}, expects |-> "b1"]
Both == Payload(Transcribed({"local_env", "container"}))
Written ==
  {Both, [Both EXCEPT !.expects = "b2"], [Both EXCEPT !.digest = Transcribed({})],
   [Both EXCEPT !.id = "q"], [Both EXCEPT !.dist = 2], [Both EXCEPT !.pins = {"container"}],
   [Payload(Transcribed({"local_env"})) EXCEPT !.pins = {"local_env"}]}

\* ---- Targets and wheels. ----
Cp(n) == Python("cp", 3, n)
Py3 == Python("py", 3, NoMinor)
AnyP == Platform("any", 0, 0, "any")
Many(n) == Platform("manylinux", 2, n, "x86_64")
Old5 == Platform("legacy", 2, 5, "x86_64")
Musl(n) == Platform("musllinux", 1, n, "x86_64")
Mac(v, n, a) == Platform("macosx", v, n, a)
Target(p) == [impl |-> "cp", major |-> 3, minor |-> 4,
              declared |-> <<<<Cp(4), "cp34", p>>, <<Py3, "none", AnyP>>>>]

Native(p) == <<Cp(4), "cp34", p>>
Pure == {<<Py3, "none", AnyP>>, <<Python("py", 3, 5), "none", AnyP>>, <<Cp(2), "abi3", AnyP>>}
TagsFor(host) ==
  CASE host = Many(6) ->
         Pure \cup {Native(Many(6)), Native(Many(7)), Native(Many(5)), Native(Old5), <<Cp(3), "abi3", Many(6)>>,
                    <<Cp(5), "abi3", Many(6)>>, <<Py3, "none", Old5>>, Native(Platform("linux", 0, 0, "x86_64")),
                    Native(Musl(1)), Native(Platform("manylinux", 2, 6, "arm64"))}
    [] host = Musl(1) -> {<<Py3, "none", AnyP>>, Native(Musl(1)), Native(Musl(0)), Native(Musl(2)), Native(Many(5))}
    [] host = Mac(12, 3, "arm64") ->
         {Native(Mac(12, 0, "arm64")), Native(Mac(12, 3, "arm64")), Native(Mac(13, 0, "arm64")),
          Native(Mac(11, 0, "universal2")), Native(Mac(10, 16, "universal2")), Native(Mac(10, 3, "arm64")),
          Native(Mac(11, 0, "x86_64"))}
    [] host = Mac(10, 6, "x86_64") ->
         {Native(Mac(10, 6, "intel")), Native(Mac(10, 5, "x86_64")), Native(Mac(10, 7, "x86_64")),
          Native(Mac(11, 0, "x86_64")), <<Py3, "none", Mac(10, 0, "universal")>>}

Url(s, h, p, path) == [scheme |-> s, host |-> h, port |-> p, path |-> path]
Index1 == Url("https", "index", 0, <<"simple">>)
Index2 == Url("file", "", 0, <<"wheels">>)
Pinned == {Index1, Index2}
Good == Url("https", "index", 443, <<"simple", "w">>)
Stray == {Url("https", "index", 0, <<"simple-evil", "w">>), Url("https", "index", 8443, <<"simple", "w">>),
          Url("http", "index", 0, <<"simple", "w">>), Url("https", "other", 0, <<"simple", "w">>)}
Local == Url("file", "localhost", 0, <<"wheels", "w">>)

Wheel(file, tags, hash) == [file |-> file, tags |-> tags, hash |-> hash, url |-> Good]
Sdist(hash) == [file |-> 90, tags |-> {}, hash |-> hash, url |-> Good]
Pairs(tags) == {{Wheel(1, {t}, <<"a", 1>>), Wheel(2, {u}, <<"a", 2>>)} : t, u \in tags}
               \cup {{Wheel(1, {t, u}, <<"a", 1>>)} : t, u \in tags}

Other(w) == [wheels |-> {w}, sdist |-> <<>>]
B1 == Wheel(3, {<<Py3, "none", AnyP>>}, <<"b", 3>>)
Asked(host, a, b) ==
  [airGapped |-> FALSE, lock |-> TRUE, pin |-> TRUE, uv |-> TRUE, transport |-> TRUE,
   target |-> Target(host), offers |-> "a" :> a @@ "b" :> b,
   root |-> Wheel(1, {}, <<"root", 1>>)]
A(wheels, sdist) == [wheels |-> wheels, sdist |-> sdist]
Plain == Asked(Many(6), A({Wheel(1, {Native(Many(6))}, <<"a", 1>>)}, <<>>), Other(B1))
OnLinux(a, b) == Asked(Many(6), a, b)
A1 == A({Wheel(1, {Native(Many(6))}, <<"a", 1>>)}, <<>>)

Hosts == {Many(6), Musl(1), Mac(12, 3, "arm64"), Mac(10, 6, "x86_64")}
Environments == {Target(h) : h \in Hosts}
Asks ==
  UNION {{Asked(h, A(ws, s), Other(B1)) : ws \in Pairs(TagsFor(h)), s \in {<<>>, <<Sdist(<<"a", 90>>)>>}} : h \in Hosts}
  \cup {OnLinux(A({}, s), Other(B1)) : s \in {<<>>, <<Sdist(NoHash)>>}}
  \cup {OnLinux(A({Wheel(1, {Native(Many(6))}, NoHash)}, <<>>), Other(B1))}
  \* Two packages whose files have one name.
  \cup {OnLinux(A1, Other([B1 EXCEPT !.file = 1, !.hash = h])) : h \in {<<"b", 1>>, <<"a", 1>>}}
  \cup {OnLinux(A1, Other([B1 EXCEPT !.url = u])) : u \in Stray \cup {Local}}
  \cup {[Plain EXCEPT !.airGapped = TRUE], [Plain EXCEPT !.lock = FALSE], [Plain EXCEPT !.pin = FALSE],
        [Plain EXCEPT !.uv = FALSE], [Plain EXCEPT !.transport = FALSE]}

\* ---- Virtual environments: uv's, venv's, copied, on PyPy, chained. ----
Venv(p, p3, pm, pp) == "python" :> p @@ "python3" :> p3 @@ "python3.12" :> pm @@ "lib64" :> "file" @@ "pypy" :> pp
Venvs == {Venv("host", "python", "python", "file"), Venv("python3", "python3.12", "host", "file"),
          Venv("file", "python", "python", "file"), Venv("host", "host", "host", "file"),
          Venv("host", "python", "python", "host"), Venv("pypy", "pypy", "file", "python3.12"),
          Venv("pypy", "python", "python", "host")}

\* ---- Inputs of the quantitative plane: every short series with gaps and every
\* way to declare it, and inputs on both sides of each limit of the others. ----
Sizes == [series_length |-> <<3, 6, 8>>, horizon |-> <<4, 13, 49>>, sample_size |-> <<2, 4, 6>>,
          dimensionality |-> <<2, 11>>, candidate_count |-> <<3, 5>>, signal_count |-> <<2, 3>>,
          pair_space |-> <<4, 8>>, blocking |-> <<3>>, field_richness |-> <<2, 3>>,
          row_count |-> <<3, 4, 5>>, column_count |-> <<2, 3>>]

Every(n, gap) == [i \in 1..n |-> i * gap]
Season(ps) == [declared |-> TRUE, periods |-> ps]
NoSeason == [declared |-> FALSE, periods |-> <<>>]
Seasons == {NoSeason, Season(<<>>), Season(<<1>>), Season(<<2>>), Season(<<3>>), Season(<<2, 3>>)}
Series(ts, val) == [canonical |-> TRUE, at |-> ts, val |-> val, dated |-> TRUE, encoded |-> FALSE,
                    bounded |-> FALSE, season |-> Season(<<2>>)]
AnomalyCall(ts, val) ==
  [interface |-> "ts.anomaly", method |-> "stl_mad", threshold |-> 1, changes |-> 1] @@ Series(ts, val)
ForecastCall(ts, val) ==
  [interface |-> "ts.forecast", knownModel |-> TRUE, horizon |-> 4, exogenous |-> "none", levels |-> <<80, 95>>]
    @@ Series(ts, val)
Even(n, vs) == {AnomalyCall(Every(n, 1), v) : v \in [1..n -> vs]}
Flat(n) == [i \in 1..n |-> 2]
AnomalyCalls ==
  LET base == AnomalyCall(Every(5, 1), <<2, 0, 4, 2, 0>>)
  IN  UNION {Even(n, {Null, 1, 2}) : n \in {1, 4, 5}}
      \cup {AnomalyCall(ts, Flat(4)) : ts \in {<<1, 1, 2, 3>>, <<1, 3, 2, 4>>, <<1, 2, 3, 30>>, Every(4, 3), Every(4, 5), Every(4, 9)}}
      \cup {AnomalyCall(Every(11, 1), [Flat(11) EXCEPT ![5] = Null])}
      \cup {AnomalyCall(Every(6, 1), Flat(6))}
      \cup {[base EXCEPT !.season = s, !.val = v] : s \in Seasons, v \in {<<0, 1, 2, 1, 0>>, <<0, 3, 6, 3, 0>>}}
      \cup {[base EXCEPT !.bounded = TRUE, !.val = <<0, 3, 6, 3, 0>>], [base EXCEPT !.encoded = TRUE],
            [base EXCEPT !.canonical = FALSE], [base EXCEPT !.dated = FALSE], [base EXCEPT !.threshold = 0],
            [base EXCEPT !.method = "other"]}
      \cup {[base EXCEPT !.method = "changepoint", !.changes = k, !.val = v] :
              k \in 0..2, v \in {Flat(5), <<2, 2, 0, 0, Null>>}}
ForecastCalls ==
  LET base == ForecastCall(Every(4, 1), <<2, 0, 4, 2>>)
  IN  {[base EXCEPT !.horizon = h] : h \in {0, 1, 13, 49, 50, 51}}
      \cup {[base EXCEPT !.season = s] : s \in Seasons} \cup {[base EXCEPT !.levels = l] : l \in {<<>>, <<0>>, <<99, 1, 1>>}}
      \cup {[base EXCEPT !.val = v] : v \in {<<0, 0, 0, 2>>, <<1, 0, 1, 0>>, <<5, 1, 0, 0>>, <<2, Null, 2, 2>>}}
      \cup {[base EXCEPT !.exogenous = "past_only"], [base EXCEPT !.knownModel = FALSE],
            ForecastCall(Every(7, 1), Flat(7)), ForecastCall(Every(8, 1), Flat(8)), ForecastCall(Every(3, 1), Flat(3))}

Settled(p, y) == [form |-> "number", p |-> p, outcome |-> y, made |-> 0, settled |-> 1]
CalibrateCall(ps) == [interface |-> "calc.calibrate", canonical |-> TRUE, predictions |-> ps, edges |-> <<>>, bins |-> 2]
CalibrateCalls ==
  LET base == CalibrateCall(<<Settled(0, 0), Settled(1, 2), Settled(2, 2)>>)
  IN  {CalibrateCall(<<Settled(p, 0), Settled(q, y), Settled(2, z)>>) : p, q \in {0 - 1, 0, 1, 2, 3}, y, z \in 0..2}
      \cup {[base EXCEPT !.edges = e, !.bins = b] :
              e \in {<<>>, <<0>>, <<0, 2>>, <<0, 1, 2>>, <<1, 2>>, <<0, 1>>, <<0 - 1, 1, 5>>, <<0, 0, 2>>, <<2, 0>>, <<0, 1, 2, 3>>},
              b \in {0, 1, 2}}
      \cup {[base EXCEPT !.predictions[i].form = f] : i \in 1..2, f \in {"interval", "other"}}
      \cup {[base EXCEPT !.predictions[1].settled = s, !.predictions[2].made = m] : s \in {0, 1, 5}, m \in {0, 4}}
      \cup {CalibrateCall(<<Settled(0, 0), Settled(1, 0), Settled(2, 0), Settled(2, 2)>>), CalibrateCall(<<>>),
            [base EXCEPT !.predictions = [i \in 1..3 |-> [Settled(1, 2) EXCEPT !.form = "interval"]]]}

LinkCall(rs, bs) ==
  [interface |-> "match.record", canonical |-> TRUE, records |-> rs, blocking |-> bs, comparisons |-> {"name"},
   known |-> 0, threshold |-> 0, parameters |-> TRUE]
Person(n, z) == [name |-> n, zip |-> z]
LinkCalls ==
  {LinkCall(<<Person(a, 1), Person(b, y), Person(1, z)>>, bs) :
     a, b, y, z \in {Null, 1, 2}, bs \in {<<>>, <<"name">>, <<"zip">>, <<"name", "zip">>}}
  \cup {LinkCall([i \in 1..4 |-> Person(i, k * (i % 2))], <<"zip">>) : k \in {0, 1}}
  \cup {[LinkCall(<<Person(1, 1), Person(1, 1)>>, <<"zip">>) EXCEPT !.known = k, !.threshold = x, !.parameters = p, !.comparisons = f] :
          k \in 0..1, x \in 0..1, p \in BOOLEAN, f \in {{}, {"name"}, {"name", "other"}}}
  \cup {LinkCall(<<>>, <<"zip">>)}

TestCall(test, family, design, groups) ==
  [interface |-> "stat.test", canonical |-> TRUE, test |-> test, family |-> family, design |-> design,
   groups |-> groups, variables |-> 1, alpha |-> 1]
TestCalls ==
  {TestCall(t, f, d, g) : t \in {"welch_t", "paired_t", "proportions_z", "levene", "pearson_r", "chi2_contingency", "ks_2samp", "shapiro_wilk",
                          "none"},
     f \in {"location", "proportion", "variance", "association", "distributional", "count_model"},
     d \in {"independent", "paired", "clustered"}, g \in {<<2>>, <<2, 2>>, <<2, 5>>}}
  \cup {TestCall("welch_t", "location", "independent", g) : g \in {<<>>, <<0, 2>>}}
  \cup {[TestCall("welch_t", "location", "independent", <<2, 2>>) EXCEPT !.variables = v, !.alpha = x] : v \in {1, 2, 11}, x \in 0..2}

Item(i, s, l) == [id |-> i, signals |-> s, labelled |-> l]
RankCall(items) ==
  [interface |-> "score.rank", canonical |-> TRUE, items |-> items, mode |-> "weighted", weights |-> "x" :> 1,
   wellFormed |-> TRUE, file |-> "pinned", pin |-> "pinned", features |-> <<"x">>]
XY(x, y) == "x" :> x @@ "y" :> y
RankCalls ==
  LET base == RankCall(<<Item(2, XY(0, 1), FALSE), Item(1, XY(0, 1), TRUE), Item(3, XY(1, 0), FALSE)>>)
  IN  {[base EXCEPT !.weights = w, !.mode = m] :
         w \in {<<>>, "x" :> 2, XY(1, 0 - 1), "z" :> 1}, m \in {"weighted", "other"}}
      \cup {[base EXCEPT !.mode = "pinned_model", !.wellFormed = w, !.file = f, !.features = s] :
              w \in BOOLEAN, f \in {"pinned", "other", "absent"}, s \in {<<"x", "y">>, <<"y">>, <<"z">>}}
      \cup {RankCall(<<Item(1, XY(0, k), l), Item(1 + k, "x" :> 1, l)>>) : k \in {0, 1}, l \in BOOLEAN}
      \cup {RankCall([i \in 1..n |-> Item(i, XY(0, 0), FALSE)]) : n \in {0, 1, 5}} \cup {RankCall(<<Item(1, <<>>, FALSE)>>)}

ReduceCall(rows) ==
  [interface |-> "calc.reduce", canonical |-> TRUE, rows |-> rows, columns |-> {"x", "y"}, groupBy |-> <<>>,
   windowed |-> FALSE, window |-> [size |-> 2, columns |-> {"x", "y"}], aggregated |-> {"x"}, known |-> TRUE]
ReduceCalls ==
  LET base == ReduceCall(<<XY(0, 1), XY(0, 2), XY(1, 1)>>)
  IN  {[base EXCEPT !.groupBy = g, !.windowed = w, !.aggregated = a, !.known = k] :
         g \in {<<>>, <<"x">>, <<"x", "y">>, <<"z">>}, w, k \in BOOLEAN, a \in {{}, {"x"}, {"z"}}}
      \cup {[base EXCEPT !.windowed = TRUE, !.window.size = 0], [base EXCEPT !.windowed = TRUE, !.window.columns = {"z"}]}
      \cup {ReduceCall([i \in 1..n |-> XY(0, 0)]) : n \in {0, 4, 5}}

Inputs == UNION {AnomalyCalls, ForecastCalls, CalibrateCalls, LinkCalls, TestCalls, RankCalls, ReduceCalls}
=============================================================================
