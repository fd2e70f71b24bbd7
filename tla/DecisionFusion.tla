--------------------------- MODULE DecisionFusion ---------------------------
(***************************************************************************)
(* Decision intelligence (src/yoma/office/decision_intelligence_runtime.py *)
(* and what it composes): a decision about a current signal is fused with  *)
(* the history and the prediction of its scope, the fused decisions are    *)
(* ranked, and each is explained from its evidence graph and its score,    *)
(* which are found by the decision's id.                                   *)
(*                                                                         *)
(* Scores are integers of Full, rounded down; ids are numbers, as the code *)
(* orders them. A type is the sequence of the names between its dots.      *)
(***************************************************************************)
EXTENDS Integers, Sequences, SequencesExt, FiniteSets, FiniteSetsExt, TLC

CONSTANTS
  CurrentContexts,    \* records: signal, scope, type, score
  HistoricalContexts, \* records: id, scope, type, count, deviation (its size)
  PredictiveContexts, \* records: id, scope, type, probability, confidence, severity, priority
  MaxContexts,        \* bound: contexts of each kind in one analysis
  MaxAnalyses,        \* bound: analyses, each of which replaces the result of the last
  NoDecisions         \* last_result before the first analysis

Full == 10000

ASSUME FusionAssumption ==
  /\ \A c \in CurrentContexts : c.signal \in 0..9 /\ c.scope \in Nat /\ c.score \in 0..Full
  /\ \A h \in HistoricalContexts : h.count \in Nat /\ h.deviation \in Nat
  /\ \A p \in PredictiveContexts : p.probability \in 0..Full /\ p.confidence \in 0..Full
  /\ MaxContexts \in Nat /\ MaxAnalyses \in Nat

VARIABLES
  fused,      \* _last_result: decisions, their ranking and their explanations
  fusedFrom,  \* history: the contexts it came from
  analyses    \* how many there were, for the bound

fusionVars == <<fused, fusedFrom, analyses>>

----------------------------------------------------------------------------
\* Current and historical (current_historical_decision_fusion.py).

WithoutHigh(type) == SelectSeq(type, LAMBDA name : name # "high")
\* Mutant: the scope is not compared.
AnyHistory(c, h) ==
  /\ c.type = h.type \/ WithoutHigh(c.type) = h.type \/ WithoutHigh(h.type) = c.type
  /\ h.count >= 2
HistoryMatches(c, h) ==
  /\ c.scope = h.scope
  /\ \/ c.type = h.type
     \/ IsStrictPrefix(c.type, h.type) \/ IsStrictPrefix(h.type, c.type)
     \/ WithoutHigh(c.type) = h.type \/ WithoutHigh(h.type) = c.type
  /\ h.count >= 2

\* sorted(...)[0], if any: of equal ones the first in the list, whichever that is.
FirstOfBest(best) == IF best = {} THEN {} ELSE {CHOOSE x \in best : TRUE}

\* Of the matching ones that which occurred most often, and the least id of these.
FindHistorical(c, hs) ==
  LET matches == {h \in hs : HistoryMatches(c, h)}
  IN FirstOfBest({h \in matches : \A o \in matches :
                    h.count > o.count \/ (h.count = o.count /\ h.id <= o.id)})

HistoricalStrength(h) ==
  IF h.deviation <= Full THEN h.deviation ELSE (Full * h.deviation) \div (Full + h.deviation)
BaseConfidence(c, hs) ==
  IF hs = {} THEN c.score
  ELSE (c.score + HistoricalStrength(CHOOSE h \in hs : TRUE)) \div 2
BasePriority(n) ==
  CASE n >= 8500 -> "critical"
    [] n >= 6500 /\ n < 8500 -> "high"
    [] n >= 4000 /\ n < 6500 -> "normal"
    [] OTHER -> "low"

----------------------------------------------------------------------------
\* And predictive (predictive_decision_fusion.py). A built context always has evidence.

Aliases == {<<"workload", "high">>, <<"workload_pressure">>}
PredictionMatches(c, p) ==
  /\ c.scope = p.scope
  /\ c.type = p.type \/ {c.type, p.type} = Aliases
FindPredictive(c, ps) ==
  LET matches == {p \in ps : PredictionMatches(c, p)}
  IN FirstOfBest({p \in matches : \A o \in matches :
        \/ p.probability > o.probability
        \/ p.probability = o.probability /\ p.confidence > o.confidence
        \/ p.probability = o.probability /\ p.confidence = o.confidence /\ p.id <= o.id})

PriorityRank(name) ==
  CASE name = "low" -> 0 [] name = "high" -> 2 [] name = "critical" -> 3 [] OTHER -> 1
FusedPriority(base, p) ==
  LET highest == Max({PriorityRank(base), PriorityRank(p.priority), PriorityRank(p.severity)})
  IN CHOOSE name \in {"low", "normal", "high", "critical"} : PriorityRank(name) = highest

DecisionId(c) == 10 * c.scope + c.signal

Fuse(c, hs, ps) ==
  LET historical == FindHistorical(c, hs)
      predictive == FindPredictive(c, ps)
      confidence == BaseConfidence(c, historical)
      base == BasePriority(confidence)
  IN [id |-> DecisionId(c),
      priority |-> IF predictive = {} THEN base
                   ELSE FusedPriority(base, CHOOSE p \in predictive : TRUE),
      confidence |-> IF predictive = {} THEN confidence
                     ELSE LET p == CHOOSE p \in predictive : TRUE
                          IN (confidence + p.probability + p.confidence) \div 3,
      historical |-> {h.id : h \in historical}, predictive |-> {p.id : p \in predictive},
      evidence |->
        {[id |-> <<"CURRENT", c.signal>>, weight |-> c.score]}
          \union {[id |-> <<"HIST", h.id>>, weight |-> HistoricalStrength(h)] : h \in historical}
          \union {[id |-> <<"PRED", p.id>>,
                   weight |-> (p.probability + p.confidence) \div 2] : p \in predictive}]

----------------------------------------------------------------------------
\* Ranking (decision_priority.py), graphs and explanations.

EvidenceKinds(d) ==
  {"current"} \union (IF d.historical # {} THEN {"historical"} ELSE {})
              \union (IF d.predictive # {} THEN {"predictive"} ELSE {})
AverageWeight(d) ==
  MapThenSumSet(LAMBDA e : e.weight, d.evidence) \div Cardinality(d.evidence)
EvidenceScore(d) ==
  (4000 * Cardinality(d.evidence)) \div 5 + (6 * AverageWeight(d)) \div 10
UrgencyScore(d) ==
  CASE "predictive" \in EvidenceKinds(d) -> Full
    [] "predictive" \notin EvidenceKinds(d) /\ "historical" \in EvidenceKinds(d) -> 7000
    [] OTHER -> 5000
TotalScore(d) ==
  (35 * (2500 * (PriorityRank(d.priority) + 1)) + 20 * d.confidence
     + 20 * ((Full * Cardinality(EvidenceKinds(d))) \div 3) + 15 * EvidenceScore(d)
     + 10 * UrgencyScore(d)) \div 100

\* sort(): the place of an element is past all those ahead of it.
Sorted(seq, ahead) ==
  [n \in DOMAIN seq |-> seq[CHOOSE i \in DOMAIN seq : Cardinality(ahead[i]) + 1 = n]]

\* Of one score the lesser id comes first, and equal elements stay in their order.
RankingOf(decisions) ==
  LET scored == [i \in DOMAIN decisions |->
                   [id |-> decisions[i].id, score |-> TotalScore(decisions[i]),
                    decision |-> decisions[i]]]
      Ahead(i) ==
        {j \in DOMAIN decisions :
           \/ scored[j].score > scored[i].score
           \/ scored[j].score = scored[i].score /\ scored[j].id < scored[i].id
           \/ scored[j].score = scored[i].score /\ scored[j].id = scored[i].id /\ j < i}
  IN Sorted(scored, [i \in DOMAIN decisions |-> Ahead(i)])

\* The nodes the graph of a decision connects with it, by the kind of the relationship.
EvidenceGraph(d) ==
  [id |-> d.id, nodes |-> {<<"historical", h>> : h \in d.historical}
                            \union {<<"predictive", p>> : p \in d.predictive}
                            \union {<<"evidence", e.id>> : e \in d.evidence}]

\* explain_many: decisions, graphs and scores are dictionaries, the last of an id stays.
LastWithId(seq, id) == seq[Max({i \in DOMAIN seq : seq[i].id = id})]
Explain(d, graph, score) ==
  [id |-> d.id,
   evidence |-> {e \in {n[2] : n \in {m \in graph.nodes : m[1] = "evidence"}} :
                   e \in {v.id : v \in d.evidence}},
   score |-> score,
   uncertainty |-> IF d.confidence >= 8000 THEN "low"
                   ELSE IF d.confidence >= 6000 THEN "moderate" ELSE "high",
   missing |-> {"historical", "predictive"} \ {n[1] : n \in graph.nodes}]
ExplainMany(decisions, ranking) ==
  LET graphs == [i \in DOMAIN decisions |-> EvidenceGraph(decisions[i])]
  IN {Explain(LastWithId(decisions, id), LastWithId(graphs, id), LastWithId(ranking, id).score) :
        id \in {decisions[i].id : i \in DOMAIN decisions}}

----------------------------------------------------------------------------
FusionInit == fused = NoDecisions /\ fusedFrom = <<>> /\ analyses = 0

\* fuse_many() and analyze(): the decisions are sorted by their id before they are ranked.
FuseMany(current, hs, ps) ==
  LET results == [i \in DOMAIN current |-> Fuse(current[i], hs, ps)]
      Ahead(i) == {j \in DOMAIN current :
                     results[j].id < results[i].id \/ (results[j].id = results[i].id /\ j < i)}
  IN Sorted(results, [i \in DOMAIN current |-> Ahead(i)])

Decide(current, hs, ps) ==
  LET decisions == FuseMany(current, hs, ps)
      ranking == RankingOf(decisions)
  IN /\ analyses < MaxAnalyses /\ analyses' = analyses + 1
     /\ fused' = [decisions |-> decisions, ranking |-> ranking,
                  explanations |-> ExplainMany(decisions, ranking)]
     /\ fusedFrom' = [current |-> current, historical |-> hs, predictive |-> ps]

ClearDecisions == fused' = NoDecisions /\ fusedFrom' = <<>> /\ UNCHANGED analyses

FusionNext ==
  \/ \E current \in SeqOf(CurrentContexts, MaxContexts),
        hs \in UNION {kSubset(k, HistoricalContexts) : k \in 0..MaxContexts},
        ps \in UNION {kSubset(k, PredictiveContexts) : k \in 0..MaxContexts} :
       Decide(current, hs, ps)
  \/ ClearDecisions

FusionSpec == FusionInit /\ [][FusionNext]_fusionVars

----------------------------------------------------------------------------
\* Every current context is ranked, and no score leaves the range its class accepts.
FusionTypeOK ==
  /\ analyses \in 0..MaxAnalyses
  /\ fused # NoDecisions =>
       /\ Len(fused.ranking) = Len(fusedFrom.current)
       /\ \A i \in DOMAIN fused.ranking : fused.ranking[i].score \in 0..Full
       /\ \A i \in DOMAIN fused.decisions : fused.decisions[i].confidence \in 0..Full

\* A decision is made of the contexts of its own organization, user and system: whatever the
\* runtime knows of others changes nothing in it.
ScopesAreApart ==
  fused # NoDecisions =>
    \A i \in DOMAIN fusedFrom.current :
      LET c == fusedFrom.current[i]
      IN \E j \in DOMAIN fused.decisions :
           fused.decisions[j] = Fuse(c, {h \in fusedFrom.historical : h.scope = c.scope},
                                        {p \in fusedFrom.predictive : p.scope = c.scope})

\* A prediction may make a decision less sure, it never makes it less urgent.
PredictionNeverLowers ==
  fused # NoDecisions =>
    \A i \in DOMAIN fusedFrom.current, j \in DOMAIN fused.decisions :
      fused.decisions[j].id = DecisionId(fusedFrom.current[i]) =>
        \E k \in DOMAIN fusedFrom.current :
          LET alone == Fuse(fusedFrom.current[k], fusedFrom.historical, {})
          IN /\ alone.id = fused.decisions[j].id
             /\ PriorityRank(fused.decisions[j].priority) >= PriorityRank(alone.priority)

\* The first of the ranking is at least as strong as every other one in some respect, and a
\* decision that is stronger in every respect is never ranked after a weaker one.
StrongerComesFirst ==
  fused # NoDecisions =>
    \A i, j \in DOMAIN fused.ranking :
      LET a == fused.ranking[i].decision
          b == fused.ranking[j].decision
      IN (/\ PriorityRank(a.priority) > PriorityRank(b.priority)
          /\ a.confidence >= b.confidence /\ EvidenceKinds(b) \subseteq EvidenceKinds(a)
          /\ AverageWeight(a) >= AverageWeight(b))
         => i < j

\* Every id is explained once, from evidence of its own decision; when signals share an id the
\* score shown is never above that of the decision explained.
ExplanationsAgree ==
  fused # NoDecisions =>
    /\ Cardinality(fused.explanations)
         = Cardinality({fused.ranking[i].id : i \in DOMAIN fused.ranking})
    /\ \A e \in fused.explanations :
         LET d == LastWithId(fused.decisions, e.id)
         IN /\ e.evidence = {v.id : v \in d.evidence}
            /\ e.score <= TotalScore(d)
            /\ e.missing \intersect EvidenceKinds(d) = {}
=============================================================================
