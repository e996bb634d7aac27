------------------------------ MODULE Learning ------------------------------
(* Phase B of one run (pattern_learning, forecasting): features per window, the
   novelty model, the regime clusterer and the forecaster.  What scikit-learn
   computes, a score or a label for each window, is an input.  The forecasts are
   in integers, Grain to a unit of the sensor; a forecast is its mean path and
   the residuals and growth its interval is made of. *)
EXTENDS Findings

CONSTANTS
  Window,      \* rows of a feature window
  MinNovel,    \* _MIN_WINDOWS of the novelty model
  MinRegimes,  \* _MIN_WINDOWS of the clusterer
  Regimes,     \* n_regimes
  Step,        \* time units of a grid step
  Season,      \* steps of a season
  MinHistory,  \* steps the forecaster needs
  Horizon,     \* steps it looks ahead
  Folds,       \* n_folds
  Grain

ASSUME LearningAssumption ==
  /\ {Window, MinNovel, MinRegimes, Regimes, Season, MinHistory} \subseteq Nat
  /\ Window >= 2 /\ Regimes \in 2 .. MinRegimes /\ Season >= 2 /\ MinHistory >= 2 * Season
  /\ {Step, Horizon, Folds, Grain} \subseteq Nat \ {0}

\* A PatternResult; a hypothesis is a finding of origin learned.
Result(model, findings, patterns) == [model |-> model, findings |-> findings, patterns |-> patterns]
Hypothesis(type, scope, target, confidence) ==
  [Derived(type, "anomaly", scope, target, "info", confidence) EXCEPT !.origin = "learned"]

-----------------------------------------------------------------------------
(* Windows. *)

RowsOf(i) == (i - 1) * Window + 1 .. i * Window
Populated(f, i) == {r \in RowsOf(i) : \E k \in DOMAIN f.col : f.col[k][r] # Missing}

\* FeaturePipeline.build: the share of windows that are at least half populated.
Features(f) ==
  LET n == Len(f.at) \div Window
      covered == {i \in 1 .. n : 2 * Cardinality(Populated(f, i)) >= Window}
  IN  [n |-> n, coverage |-> IF n = 0 THEN 0 ELSE RoundDiv(10000 * Cardinality(covered), n)]

Lifecycle(indices, n) ==
  CASE indices = {} -> "inactive"
    [] indices # {} /\ 2 * (Max(indices) - 1) < Max({n - 1, 1}) -> "declining"
    [] indices # {} /\ 2 * (Max(indices) - 1) >= Max({n - 1, 1}) ->
         IF 10 * Cardinality(indices) >= 3 * n THEN "stable" ELSE "emerging"

\* The windows whose scores, spread over 0 .. 1, reach the threshold 0.6.
NovelWindows(raw) ==
  LET lo == Min(Range(raw))
      hi == Max(Range(raw))
  IN  {i \in DOMAIN raw : hi > lo /\ 10 * (raw[i] - lo) >= 6 * (hi - lo)}

\* The peak has novelty 1, so the confidence is the coverage.
Novelty(features, raw) ==
  LET novel == IF features.n < MinNovel THEN {} ELSE NovelWindows(raw)
  IN  IF novel = {} THEN Result("novelty", {}, {})
      ELSE Result("novelty", {Hypothesis("novelty_elevated", "equipment", Unit, features.coverage)},
                  {[kind |-> "novelty", of |-> Unit, support |-> Cardinality(novel),
                    lifecycle |-> Lifecycle(novel, features.n)]})

\* One pattern for each component that a window belongs to.
Clusters(features, labels) ==
  IF features.n < MinRegimes \/ Min({Regimes, features.n}) < 2 THEN Result("regimes", {}, {})
  ELSE Result("regimes", {Hypothesis("operating_regime_discovered", "equipment", Unit, features.coverage)},
         {[kind |-> "regime", of |-> c, support |-> Cardinality({i \in DOMAIN labels : labels[i] = c}),
           lifecycle |-> Lifecycle({i \in DOMAIN labels : labels[i] = c}, features.n)] :
             c \in Range(labels)})

-----------------------------------------------------------------------------
(* The history of a sensor on the grid. *)

StepsOf(f, k) == {f.at[i] \div Step : i \in {j \in DOMAIN f.at : f.col[k][j] # Missing}}
MeanAt(f, k, b) ==
  LET rows == {i \in DOMAIN f.at : f.at[i] \div Step = b /\ f.col[k][i] # Missing}
  IN  (Grain * SumOver(rows, LAMBDA i : f.col[k][i])) \div Cardinality(rows)

\* Mutant: the steps without reading are dropped.
TrailingAcrossGaps(steps) == steps

\* The steps from the end back to the first without reading.
Trailing(steps) == {b \in steps : b .. Max(steps) \subseteq steps}

\* ForecastPreprocessor.prepare: no history, or one.
Histories(f, k) ==
  LET steps == StepsOf(f, k)
      kept == IF steps = {} THEN {} ELSE Trailing(steps)
      sorted == InOrder(kept)
  IN  IF Cardinality(kept) < Max({MinHistory, 2 * Season}) THEN {}
      ELSE {[from |-> sorted[1], to |-> Last(sorted), y |-> [i \in DOMAIN sorted |-> MeanAt(f, k, sorted[i])]]}

-----------------------------------------------------------------------------
(* The models. *)

\* Each value differs from the one a season before.
SeasonalNaive(y) ==
  LET s == Max({1, Min({Season, Len(y)})})
  IN  [mean |-> [h \in 1 .. Horizon |-> y[Len(y) - s + ((h - 1) % s) + 1]],
       resid |-> IF Len(y) > s THEN [i \in 1 .. Len(y) - s |-> y[i + s] - y[i]] ELSE <<0>>,
       growth |-> [h \in 1 .. Horizon |-> 1 + (h - 1) \div s]]

\* fit, forecast: level, trend and seasons start from the first season and the
\* mean of the second; alpha = 3/10, beta = gamma = 1/10.
Begun(y, m, level) ==
  LET next == SubSeq(y, m + 1, Min({2 * m, Len(y)}))
  IN  [level |-> level, trend |-> (SumOf(next) \div Len(next) - level) \div m, fitted |-> 0,
       seasonal |-> [i \in 1 .. m |-> y[i] - level]]
Smoothed(p, i, x, level) ==
  [level |-> level, trend |-> (level - p.level + 9 * p.trend) \div 10,
   fitted |-> p.level + p.trend + p.seasonal[i],
   seasonal |-> [p.seasonal EXCEPT ![i] = (x - level + 9 * @) \div 10]]
Smooth(p, i, x) == Smoothed(p, i, x, (3 * (x - p.seasonal[i]) + 7 * (p.level + p.trend)) \div 10)

Fitted(y, m) ==
  LET state[t \in 0 .. Len(y)] ==
        IF t = 0 THEN Begun(y, m, SumOf(SubSeq(y, 1, m)) \div m)
        ELSE Smooth(state[t - 1], ((t - 1) % m) + 1, y[t])
  IN  state
Extrapolated(y, m, state, end) ==
  [mean |-> [h \in 1 .. Horizon |-> end.level + h * end.trend + end.seasonal[((Len(y) + h - 1) % m) + 1]],
   resid |-> [t \in DOMAIN y |-> y[t] - state[t].fitted],
   growth |-> [h \in 1 .. Horizon |-> h]]
HoltWinters(y) ==
  LET m == Max({2, Min({Season, Len(y) \div 2})})
      state == Fitted(y, m)
  IN  Extrapolated(y, m, state, state[Len(y)])

Models == {"seasonal_naive", "holt_winters_additive"}
Path(model, y) == IF model = "seasonal_naive" THEN SeasonalNaive(y) ELSE HoltWinters(y)

\* The half width of the 80% interval at step h and a distance d, both squared and
\* in the same unit; the square of z_score() is 1.64.
Width(fc, h) == 41 * Spread(fc.resid) * fc.growth[h]
Distance(fc, d) == 25 * d * d * Len(fc.resid) * Len(fc.resid)

\* walk_forward: the sum of absolute errors, the actuals inside the interval, and
\* how many there are, for the forecasts fc made at some cuts.
BacktestScore(y, points, fc) ==
  LET Off(p) == Absolute(fc[p[1]].mean[p[2]] - y[p[1] + p[2]])
  IN  [error |-> SumOver(points, Off), of |-> Cardinality(points),
       covered |-> Cardinality({p \in points : Distance(fc[p[1]], Off(p)) <= Width(fc[p[1]], p[2])})]
WalkForward(model, y) ==
  LET cuts == {Len(y) - (Folds - k) * Horizon : k \in 0 .. Folds - 1}
      used == {c \in cuts : c >= 2 * Season}
  IN  BacktestScore(y, used \X (1 .. Horizon), [c \in used |-> Path(model, SubSeq(y, 1, c))])

\* ModelSelector.select: the candidate must beat the baseline by 5 percent.
Beats(c, base) == c.of > 0 /\ 100 * c.error < 95 * base.error
SelectModel(y) ==
  IF Beats(WalkForward("holt_winters_additive", y), WalkForward("seasonal_naive", y))
  THEN "holt_winters_additive" ELSE "seasonal_naive"

\* crosses: the steps at which the interval is past a bound.
Crossings(fc, band) ==
  LET Past(h, room) == room < 0 \/ Distance(fc, room) < Width(fc, h)
  IN  {h \in 1 .. Horizon :
         \/ \E high \in band.high : Past(h, Grain * high - fc.mean[h])
         \/ \E low \in band.low : Past(h, fc.mean[h] - Grain * low)}

\* forecast_unit for one sensor: its pattern, and the approach to its limit.
Approach(k, score, cross) ==
  LET confidence == IF score.of = 0 THEN 0 ELSE RoundDiv(10000 * score.covered, score.of)
  IN  IF cross = {} THEN {}
      ELSE {With(Hypothesis("forecast_threshold_approach", "sensor", k, confidence), "lead", Min(cross))}
ForecastBy(model, hist, k, band) ==
  [pattern |-> [kind |-> "forecast", of |-> k, support |-> Horizon, lifecycle |-> "stable",
                from |-> hist.from, to |-> hist.to, model |-> model],
   approach |-> Approach(k, WalkForward(model, hist.y), Crossings(Path(model, hist.y), band))]
ForecastSensor(f, k, band) ==
  {ForecastBy(SelectModel(hist.y), hist, k, band) : hist \in Histories(f, k)}

\* Only sensors with an operating range are forecast.
Forecasted(all) == Result("forecaster", UNION {r.approach : r \in all}, {r.pattern : r \in all})
ForecastUnit(f, limits) ==
  Forecasted(UNION {UNION {ForecastSensor(f, k, b) : b \in limits[k].operating} : k \in DOMAIN limits})
=============================================================================
