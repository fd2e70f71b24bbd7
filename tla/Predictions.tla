----------------------------- MODULE Predictions -----------------------------
(***************************************************************************)
(* The predictive intelligence of src/yoma/office: what the recorded       *)
(* situations of a scope (a type, an organization, a user and a system)    *)
(* say of its next one. Patterns and trends are derived from the history;  *)
(* a signal, a risk, a recurrence and a workload forecast from both; the   *)
(* four are averaged into a predicted situation with a recommendation and  *)
(* an explanation. A call that one object refuses is lost as a whole.      *)
(*                                                                         *)
(* Probabilities are integers of One; the code rounds at six digits, the   *)
(* model down to four. A day has Ticks; a second of the code is a tick.    *)
(***************************************************************************)
EXTENDS Integers, FiniteSets, FiniteSetsExt

CONSTANTS
  Scopes,        \* situation type, organization, user and system, taken together
  HistoryDays,   \* bound: days on which situations are detected
  WindowDays,    \* BaselineTrendAnalyzer.window_days
  ForecastDays,  \* WorkloadForecastEngine.forecast_days
  Bursts,        \* how many situations one moment brings
  MaxBursts,     \* bound: calls that record situations
  IdRank,        \* the order of the ids of situations, which is not that of their days
  Askable,       \* the sets of current situations runtimes are asked about
  NoPrediction   \* last_result before the first analysis

Cells == Scopes \X (0..HistoryDays)

ASSUME PredictionsAssumption ==
  /\ HistoryDays \in Nat /\ WindowDays \in Nat \ {0} /\ ForecastDays \in Nat \ {0}
  /\ Bursts \subseteq Nat \ {0} /\ MaxBursts \in Nat
  /\ IdRank \in [Cells -> Nat]
  /\ Askable \subseteq SUBSET Cells

VARIABLES
  pastSituations, \* how many situations of a scope were detected on a day
  recordings,     \* how often situations were recorded, for the bound
  predicted,      \* _last_result of the runtime
  lastCall        \* of the last analysis: what was asked, and whether it raised

predictionVars == <<pastSituations, recordings, predicted, lastCall>>

One == 10000
Ticks == 48
NoTicks == -1

Least(a, b) == IF a < b THEN a ELSE b
Most(a, b) == IF a > b THEN a ELSE b
Size(n) == IF n < 0 THEN -n ELSE n

----------------------------------------------------------------------------
\* What the history says of a scope.

\* BaselineTrendAnalyzer: the window that ends with the last situation, and the one before.
BaselineTrend(h, s) ==
  LET days == {d \in 0..HistoryDays : h[<<s, d>>] > 0}
      last == Max(days)
      Between(a, b) == MapThenSumSet(LAMBDA d : h[<<s, d>>], {d \in days : a <= d /\ d <= b})
      recent == Between(last - WindowDays, last)
      previous == Between(last - 2 * WindowDays, last - WindowDays - 1)
      span == last - Min(days)
  IN IF days = {}
     THEN [total |-> 0, span |-> 0, days |-> WindowDays, recent |-> 0, previous |-> 0,
           direction |-> "unknown"]
     ELSE [total |-> Between(0, HistoryDays), span |-> span, days |-> Most(span, WindowDays),
           recent |-> recent, previous |-> previous,
           direction |-> CASE 10 * (recent - previous) > previous -> "increasing"
                           [] 10 * (previous - recent) > previous -> "decreasing"
                           [] OTHER -> "stable"]
HasTrend(t) == t.total > 0
DeviationSize(t) ==
  IF HasTrend(t)
  THEN (One * Size(t.recent * t.days - t.total * WindowDays)) \div (t.total * WindowDays)
  ELSE 0

\* HistoricalPatternDetector: a pattern needs two situations of its scope.
PatternCount(t) == IF t.total < 2 THEN 0 ELSE t.total
Recurs(t) == PatternCount(t) > 0
\* However many situations share a span of time: the mean of it is more than nothing.
AverageInterval(t) ==
  CASE ~ Recurs(t) -> NoTicks
    [] Recurs(t) /\ t.span = 0 -> 0
    [] OTHER -> Most((Ticks * t.span) \div (t.total - 1), 1)

----------------------------------------------------------------------------
\* The four predictions of a scope; only their windows depend on the situation.

Likelihood(t) ==
  LET trend == CASE t.direction = "increasing" -> 2000
                 [] t.direction = "stable" -> 1375
                 [] t.direction = "decreasing" -> 625
      ratio == IF t.previous = 0 THEN 1500 ELSE Least((500 * t.recent) \div t.previous, 1500)
      deviation == Least((750 * t.recent * t.days) \div (t.total * WindowDays), 1500)
  IN IF Recurs(t)
     THEN 350 * Least(PatternCount(t), 10) + trend + ratio + deviation + 650
     ELSE 0
SignalConfidence(t) ==
  1100 * Least(PatternCount(t), 5) + (IF HasTrend(t) THEN 2500 ELSE 0)
    + (IF Recurs(t) THEN 2000 ELSE 0)

\* Mutant: the confidence is added to the likelihood.
RiskRaised(t) == (Likelihood(t) * (One + SignalConfidence(t) \div 2)) \div One
RiskProbability(t) == (Likelihood(t) * (One \div 2 + SignalConfidence(t) \div 2)) \div One
SeverityOf(p) ==
  CASE p >= 8500 -> "critical"
    [] p >= 6500 /\ p < 8500 -> "high"
    [] p >= 4000 /\ p < 6500 -> "warning"
    [] OTHER -> "info"

\* Both forecasts below count a situation without a pattern as one occurrence.
Occurred(t) == IF Recurs(t) THEN PatternCount(t) ELSE 1

RecurrenceProbability(t) ==
  LET slope == CASE t.direction = "increasing" ->
                      IF t.previous = 0 THEN 1500
                      ELSE Least((1500 * Most(t.recent - t.previous, 0)) \div t.previous, 1500)
                 [] t.direction = "decreasing" ->
                      - Least((1000 * Most(t.previous - t.recent, 0)) \div t.previous, 1000)
                 [] OTHER -> 0
  IN 2000 + 350 * Least(Occurred(t), 10) + (IF Recurs(t) THEN 1500 ELSE 0) + slope
       + Least(DeviationSize(t), One) \div 10
RecurrenceConfidence(t) ==
  2500 + 450 * Least(Occurred(t), 10) + (IF HasTrend(t) THEN 1000 ELSE 0)
    + (IF Recurs(t) THEN 1500 ELSE 0)

WorkloadProbability(t) ==
  LET slope == CASE t.direction = "increasing" -> 2000
                 [] t.direction = "decreasing" -> 500
                 [] OTHER -> 1000
      forecast == Most(2 * t.recent - t.previous, 0)
      above == forecast * t.days > t.total * WindowDays
  IN IF HasTrend(t)
     THEN 2000 + 300 * Least(Occurred(t), 10) + slope + (IF above THEN 1500 ELSE 0)
            + Least(DeviationSize(t), One) \div 10
     ELSE 2000
WorkloadConfidence(t) ==
  2500 + 450 * Least(Occurred(t), 10) + (IF HasTrend(t) THEN 2000 ELSE 0)

\* The windows of a situation of day d, as sets: none, or one.
RecentWindow(center, margin) == {[start |-> center - margin, end |-> center + margin]}
SignalWindow(t, d) ==
  IF Recurs(t)
  THEN RecentWindow(Ticks * d + AverageInterval(t), Most(AverageInterval(t) \div 4, 1))
  ELSE {}
RecurrenceWindow(t, d) ==
  IF AverageInterval(t) > 0
  THEN RecentWindow(Ticks * d + AverageInterval(t), AverageInterval(t) \div 4)
  ELSE {}
WorkloadWindow(d) == {[start |-> Ticks * d, end |-> Ticks * (d + ForecastDays)]}

----------------------------------------------------------------------------
\* What the four become together.

\* Of the forecasts of a scope the one with the greatest id is taken: their scores are equal.
Chosen(asked, c) ==
  CHOOSE b \in asked : /\ b[1] = c[1]
                       /\ \A o \in asked : o[1] = c[1] => IdRank[o] <= IdRank[b]

PredictiveSituation(t, d, chosen) ==
  LET probability == (Likelihood(t) + RiskProbability(t) + RecurrenceProbability(t)
                        + WorkloadProbability(t)) \div 4
      confidence == (2 * SignalConfidence(t) + RecurrenceConfidence(t)
                       + WorkloadConfidence(t)) \div 4
      risk == SeverityOf(RiskProbability(t))
      first == IF SignalWindow(t, chosen) # {} THEN SignalWindow(t, chosen)
               ELSE WorkloadWindow(chosen)
      windows == UNION {SignalWindow(t, chosen), RecurrenceWindow(t, chosen),
                        WorkloadWindow(chosen), SignalWindow(t, d)}
  IN [probability |-> probability, confidence |-> confidence,
      severity |-> IF risk \in {"high", "critical"} THEN risk ELSE SeverityOf(probability),
      start |-> (CHOOSE w \in first : TRUE).start, end |-> Max({w.end : w \in windows}),
      evidence |-> Occurred(t)]

PriorityOf(p) ==
  CASE p.severity \in {"critical", "high"} -> p.severity
    [] p.severity \in {"warning", "info"} /\ p.probability >= 6000 -> "high"
    [] OTHER -> p.severity

Factors(p) ==
  {f \in {"probability", "confidence", "historical"} :
     CASE f = "probability" -> p.probability > 0
       [] f = "confidence" -> p.confidence > 0
       [] f = "historical" -> p.evidence > 0} \union {"risk", "recurrence", "workload"}
EvidenceStrength(p) ==
  3500 + (2500 * Cardinality(Factors(p))) \div 6 + 2000 + 400 * Least(p.evidence, 5)
Level(value, names) ==
  CASE value >= 7500 -> names[3]
    [] value >= 5000 /\ value < 7500 -> names[2]
    [] OTHER -> names[1]
Explanation(p) ==
  [strength |-> EvidenceStrength(p), uncertainty |-> One - p.confidence,
   confidenceLevel |-> Level(p.confidence, <<"low", "moderate", "high">>),
   evidenceLevel |-> Level(EvidenceStrength(p), <<"weak", "moderate", "strong">>)]

Prediction(t, d, chosen) ==
  LET p == PredictiveSituation(t, d, chosen)
  IN [situation |-> p, priority |-> PriorityOf(p), explanation |-> Explanation(p),
      risk |-> RiskProbability(t), likelihood |-> Likelihood(t),
      occurrences |-> PatternCount(t), direction |-> t.direction]

\* The checks of the classes' __post_init__.
Fraction(n) == 0 <= n /\ n <= One
Refused(t, p) ==
  \/ \E n \in {RecurrenceProbability(t), RecurrenceConfidence(t), WorkloadProbability(t),
               WorkloadConfidence(t), p.probability, p.confidence, EvidenceStrength(p)} :
       ~ Fraction(n)
  \/ AverageInterval(t) = 0
  \/ p.end < p.start

----------------------------------------------------------------------------
PredictionInit ==
  /\ pastSituations = [c \in Cells |-> 0] /\ recordings = 0
  /\ predicted = NoPrediction
  /\ lastCall = [asked |-> {}, raised |-> FALSE]

\* k situations of one scope are detected at one moment, in whatever order of days.
RecordSituations(c, k) ==
  /\ recordings < MaxBursts
  /\ recordings' = recordings + 1
  /\ pastSituations' = [pastSituations EXCEPT ![c] = @ + k]
  /\ UNCHANGED <<predicted, lastCall>>

\* analyze() of a runtime over the patterns and the trends of the history.
Predict(asked) ==
  LET trends == [s \in Scopes |-> BaselineTrend(pastSituations, s)]
      answer == [c \in asked |-> Prediction(trends[c[1]], c[2], Chosen(asked, c)[2])]
      raises == \E c \in asked : Refused(trends[c[1]], answer[c].situation)
  IN /\ lastCall' = [asked |-> asked, raised |-> raises]
     /\ predicted' = IF raises THEN predicted ELSE answer
     /\ UNCHANGED <<pastSituations, recordings>>

ClearPredictions ==
  /\ predicted' = NoPrediction
  /\ UNCHANGED <<pastSituations, recordings, lastCall>>

PredictionNext ==
  \/ \E c \in Cells, k \in Bursts : RecordSituations(c, k)
  \/ \E asked \in Askable : Predict(asked)
  \/ ClearPredictions

PredictionSpec == PredictionInit /\ [][PredictionNext]_predictionVars

----------------------------------------------------------------------------
\* Counts of situations, and answers for what runtimes are asked about.
PredictionTypeOK ==
  /\ pastSituations \in [Cells -> Nat] /\ recordings \in 0..MaxBursts
  /\ lastCall.raised \in BOOLEAN
  /\ predicted # NoPrediction => DOMAIN predicted \in Askable

\* All situations of a scope are answered alike, although their forecasts are joined by scope
\* and not by id: only the window may tell them apart, and it does so by its end alone.
ScopesAgree ==
  predicted # NoPrediction =>
    \A c, o \in DOMAIN predicted : c[1] = o[1] =>
      [predicted[c] EXCEPT !.situation.end = 0] = [predicted[o] EXCEPT !.situation.end = 0]

\* A situation seen once, or never, is not an alarm: a high priority needs a recurrence, and
\* a risk is never rated above the likelihood it comes from.
AlarmsAreBacked ==
  predicted # NoPrediction =>
    \A c \in DOMAIN predicted :
      /\ predicted[c].priority \in {"high", "critical"} => predicted[c].occurrences >= 2
      /\ predicted[c].risk <= predicted[c].likelihood
      /\ predicted[c].explanation.confidenceLevel = "high" => predicted[c].occurrences >= 2

\* Nothing but situations that all came at one instant can make an analysis raise: no score
\* leaves the range its class accepts, and no window ends before it starts.
OnlyInstantsFail ==
  [lastCall' # lastCall =>
     (lastCall'.raised <=> \E c \in lastCall'.asked :
        /\ BaselineTrend(pastSituations, c[1]).total >= 2
        /\ Cardinality({d \in 0..HistoryDays : pastSituations[<<c[1], d>>] > 0}) = 1)
  ]_predictionVars

\* A recorded situation never makes an answer less sure, whatever it does to its probability.
SurerWithMore ==
  [recordings' > recordings =>
     \A s \in Scopes :
       LET t == BaselineTrend(pastSituations, s)
           u == BaselineTrend(pastSituations', s)
       IN /\ SignalConfidence(u) >= SignalConfidence(t)
          /\ RecurrenceConfidence(u) >= RecurrenceConfidence(t)
          /\ WorkloadConfidence(u) >= WorkloadConfidence(t)
  ]_predictionVars
=============================================================================
