------------------------- MODULE OperationalHistory -------------------------
(***************************************************************************)
(* What happened in an office, in three tables and in what is derived from *)
(* them: events, signals and situations (yoma/office/                      *)
(* operational_event_persistence.py, operational_signal_persistence.py,    *)
(* operational_situation_persistence.py), the correlators of situations    *)
(* and patterns (operations/situation.py, pattern.py,                      *)
(* situation_context.py), the ranges of the timeline over the tables       *)
(* (operational_timeline.py) and their clearing                            *)
(* (historical_intelligence.py).  Nothing that is saved has to rest on     *)
(* what is stored, and the process may end between two calls.              *)
(***************************************************************************)
EXTENDS Integers, FiniteSets

CONSTANTS
  Reports,     \* events, each with a rule that makes one signal of it
  ReportedAt,  \* instant of an event
  Offset,      \* the offset its time is written with: the text orders by their sum
  ReportUser,  \* the user an event names
  Workload,    \* events whose signal belongs to the workload family
  UnitsOf,     \* user -> the units of the organization graph the user belongs to,
               \* a pair of a dimension and an id each
  LastInstant  \* the last instant of an event and of a range

Dimensions == {"team", "department", "location", "organization"}
ASSUME HistoryAssumption ==
  /\ Reports \subseteq Nat /\ IsFiniteSet(Reports) /\ Workload \subseteq Reports
  /\ LastInstant \in Nat
  /\ ReportedAt \in [Reports -> 0..LastInstant] /\ Offset \in [Reports -> Int]
  /\ \A e \in Reports : ReportUser[e] \in DOMAIN UnitsOf
  /\ \A u \in DOMAIN UnitsOf : \A unit \in UnitsOf[u] : unit[1] \in Dimensions

VARIABLES
  eventRows,     \* yoma_operational_events: event ids
  signalRows,    \* yoma_operational_signals: each named by the event it is evidence of
  situationRows, \* yoma_operational_situations: sets of signals
  clearing,      \* tables HistoricalIntelligenceRuntime.clear() has still to clear
  loose          \* history: events whose signal or situation was saved without what it
                 \* rests on, or while a clear() was under way

historyVars == <<eventRows, signalRows, situationRows, clearing, loose>>

HistoryInit ==
  eventRows = {} /\ signalRows = {} /\ situationRows = {} /\ clearing = 0 /\ loose = {}

\* What a row rests on is not asked for when it is saved.
Loosened(ids, evidence) == IF clearing = 0 THEN ids \ evidence ELSE ids

\* INSERT OR IGNORE; save_many() is one transaction.
SaveEvents(batch) ==
  /\ eventRows' = eventRows \cup batch
  /\ UNCHANGED <<signalRows, situationRows, clearing, loose>>

\* The signals OperationalIntelligenceEngine.analyze() makes of events, stored or not, with a
\* rule like high_workload_rule(): one per event, with an id made of the event's.
SaveSignals(batch) ==
  /\ signalRows' = signalRows \cup batch
  /\ loose' = loose \cup Loosened(batch \ signalRows, eventRows)
  /\ UNCHANGED <<eventRows, situationRows, clearing>>

\* OperationalSituationCorrelator.correlate(): by user within the workload family, and
\* every other signal by itself.  A situation is named by its signals.
SameUser(e, f) == ReportUser[e] = ReportUser[f]
SameScope(e, f) == e = f \/ ({e, f} \subseteq Workload /\ ReportUser[e] = ReportUser[f])
Correlate(ids) == {{f \in ids : SameScope(e, f)} : e \in ids}

\* The situations of any signals, stored or not.
SaveSituations(batch) ==
  /\ situationRows' = situationRows \cup Correlate(batch)
  /\ loose' = loose \cup Loosened(UNION (Correlate(batch) \ situationRows), signalRows)
  /\ UNCHANGED <<eventRows, signalRows, clearing>>

\* clear(): situations, then signals, then events, each committed by itself.
\* Mutant: the other way round.
EventsFirst == <<"situations", "signals", "events">>
SituationsFirst == <<"events", "signals", "situations">>
ClearNext ==
  LET table == SituationsFirst[IF clearing = 0 THEN 3 ELSE clearing] IN
  /\ clearing' = (IF clearing = 0 THEN 3 ELSE clearing) - 1
  /\ situationRows' = IF table = "situations" THEN {} ELSE situationRows
  /\ signalRows' = IF table = "signals" THEN {} ELSE signalRows
  /\ eventRows' = IF table = "events" THEN {} ELSE eventRows
  /\ loose' = loose \cap (signalRows' \cup UNION situationRows')

HistoryRestart == /\ clearing # 0 /\ clearing' = 0
                  /\ UNCHANGED <<eventRows, signalRows, situationRows, loose>>

HistoryNext ==
  \/ \E batch \in SUBSET Reports : SaveEvents(batch) \/ SaveSignals(batch) \/ SaveSituations(batch)
  \/ ClearNext \/ HistoryRestart

HistorySpec == HistoryInit /\ [][HistoryNext]_historyVars

-----------------------------------------------------------------------------

\* related_to_situation(): of the events a situation names, those that are in the table.
RelatedToSituation(s) == {e \in eventRows : e \in s}

\* between(): of the table of events by the text of the times, of the timeline by time.
\* The bounds are written with one offset.
TextOf(e) == ReportedAt[e] + Offset[e]
BetweenByText(from, to, offset) ==
  {e \in eventRows : from + offset <= TextOf(e) /\ TextOf(e) <= to + offset}
BetweenByTime(from, to) == {e \in eventRows : from <= ReportedAt[e] /\ ReportedAt[e] <= to}

\* OperationalPatternCorrelator.correlate(): the situations that share a unit, two at least;
\* the organization only when nothing more specific connects the same situations.
UserOf(s) == ReportUser[CHOOSE e \in s : TRUE]
Sharing(unit) == {s \in situationRows : unit \in UnitsOf[UserOf(s)]}
Units == UNION {UnitsOf[u] : u \in DOMAIN UnitsOf}
Specific(unit) == unit[1] # "organization"
NotRedundant(unit) ==
  Specific(unit) \/ \A v \in Units : Specific(v) => Sharing(v) # Sharing(unit)
Patterns == {unit \in Units : Cardinality(Sharing(unit)) >= 2 /\ NotRedundant(unit)}

HistoryTypeOK ==
  /\ eventRows \subseteq Reports /\ signalRows \subseteq Reports /\ loose \subseteq Reports
  /\ situationRows \subseteq SUBSET Reports /\ clearing \in 0..2

\* Whatever is in a table without what it rests on was saved so, or while a clear() was under
\* way: clear() itself, wherever it ends, leaves no signal without its event and no situation
\* without its signals.
NothingDangles ==
  /\ signalRows \ loose \subseteq eventRows
  /\ (UNION situationRows) \ loose \subseteq signalRows

\* Every signal is in one situation of a correlation, whose signals name one user; a situation
\* none of whose signals is loose leads to every event it names.
CorrelationPartitions ==
  LET found == Correlate(signalRows) IN
  /\ UNION found = signalRows
  /\ \A s, t \in found : s # t => s \cap t = {}
  /\ \A s \in found : \A e, f \in s : SameUser(e, f) /\ (e # f => {e, f} \subseteq Workload)
  /\ \A s \in situationRows : s \cap loose = {} => RelatedToSituation(s) = s

\* A range of the event table is the range of the timeline when the bounds are written with
\* the offset of the event; otherwise it is off by the difference.
RangesAgree ==
  \A from, to \in 0..LastInstant : \A e \in eventRows : \A offset \in {0, Offset[e]} :
    (e \in BetweenByText(from, to, offset)) =
      (e \in BetweenByTime(from + offset - Offset[e], to + offset - Offset[e]))

\* Two situations of one unit are connected by a pattern, directly or because a smaller unit
\* connects the same ones, and stay connected when others come.
ConnectedPairs == {p \in situationRows \X situationRows :
                     p[1] # p[2] /\ \E unit \in Patterns : {p[1], p[2]} \subseteq Sharing(unit)}
PatternsConnect ==
  \A s, t \in situationRows : (s # t /\ UnitsOf[UserOf(s)] \cap UnitsOf[UserOf(t)] # {}) =>
    <<s, t>> \in ConnectedPairs
=============================================================================
