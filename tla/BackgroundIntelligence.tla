----------------------- MODULE BackgroundIntelligence -----------------------
(***************************************************************************)
(* Background intelligence (src/yoma/office/intelligence/                  *)
(* background_intelligence_runtime.py and the seven stages it composes):   *)
(* each cycle takes a batch of events through monitor, trigger, condition, *)
(* context, pattern, priority and recommendation. Every stage remembers    *)
(* what it has seen, so that nothing is reported twice.                    *)
(*                                                                         *)
(* An event is [id, source, type]; ids are numbers, as the code orders     *)
(* them. The time of a cycle is its caller's argument and may run back.    *)
(***************************************************************************)
EXTENDS Integers, FiniteSets, FiniteSetsExt

CONSTANTS
  PresentedEvents,    \* the events a caller may present
  MaxBatch,           \* bound: events in one batch
  LastCycle,          \* bound: times of the cycles
  WatchedTypes,       \* event_types
  WatchedSources,     \* source_systems
  MaxObservations,    \* max_observations_per_context
  RepetitionThreshold, EscalationThreshold, CriticalThreshold,
  HighThreshold, UrgentThreshold

ASSUME BackgroundAssumption ==
  /\ \A e \in PresentedEvents : e.id \in Nat
  /\ IsFiniteSet(PresentedEvents) /\ LastCycle \in Nat
  /\ MaxObservations \in Nat \ {0}
  /\ {RepetitionThreshold, EscalationThreshold, CriticalThreshold} \subseteq Nat \ {0, 1}
  /\ {HighThreshold, UrgentThreshold} \subseteq Nat \ {0}

VARIABLES
  watching,       \* _state of the runtime, which its stages follow
  processed,      \* _processed_event_ids of the first four stages
  contexts,       \* _contexts: the observations of each key
  seenKeys,       \* _processed_context_keys of the pattern stage
  reportedKeys,   \* _processed_keys of the last two stages
  observed,       \* history: every observation since the last reset
  recommendations \* history: every recommendation since the last reset

backgroundVars ==
  <<watching, processed, contexts, seenKeys, reportedKeys, observed, recommendations>>

EarlyStages == {"monitor", "trigger", "condition", "context"}
Ids == {e.id : e \in PresentedEvents}
ContextKey(e) == <<e.source, e.type>>
Keys == {ContextKey(e) : e \in PresentedEvents}
CycleTimes == 0..LastCycle
Observations == [id : Ids, at : CycleTimes]

----------------------------------------------------------------------------
\* Which events count, and how much (background_trigger.py, background_condition.py).

IsWatched(e) == e.type \in WatchedTypes /\ e.source \in WatchedSources

CriticalTypes == {"incident.critical", "service.outage", "sla.breached", "security.alert"}
WarningTypes == {"incident.created", "ticket.escalated", "sla.warning", "capacity.warning"}
ConditionSeverity(type) ==
  IF type \in CriticalTypes THEN "critical"
  ELSE IF type \in WarningTypes THEN "warning" ELSE "info"

----------------------------------------------------------------------------
\* A context keeps the latest observations (background_context.py).

Before(o, p) == o.at < p.at \/ (o.at = p.at /\ o.id < p.id)
KeepLatest(os) == {o \in os : Cardinality({p \in os : Before(o, p)}) < MaxObservations}

\* The conditions of a batch are accumulated one by one, in the order of their ids.
Accumulate(bucket, es, now) ==
  LET adding[given \in SUBSET {e.id : e \in es}] ==
        IF given = {} THEN bucket
        ELSE LET earlier == adding[given \ {Max(given)}]
             IN KeepLatest(earlier \cup {[id |-> Max(given), at |-> now]})
  IN adding[{e.id : e \in es}]

----------------------------------------------------------------------------
\* Patterns, their priority, recommendations (background_pattern.py, _priority.py,
\* _recommendation.py). The events of a key have one type, hence one severity.

CriticalCount(key, os) == IF ConditionSeverity(key[2]) = "critical" THEN Cardinality(os) ELSE 0
EscalationCount(key, os) == IF ConditionSeverity(key[2]) = "info" THEN 0 ELSE Cardinality(os)
PatternsOf(key, os) ==
  LET critical == CriticalCount(key, os)
      escalation == EscalationCount(key, os)
      Found(kind, count) ==
        {[context |-> key, pattern |-> kind, count |-> count, ids |-> {o.id : o \in os}]}
  IN CASE critical >= CriticalThreshold -> Found("critical_repetition", critical)
       [] critical < CriticalThreshold /\ escalation >= EscalationThreshold ->
            Found("escalation", escalation)
       [] critical < CriticalThreshold /\ escalation < EscalationThreshold
          /\ Cardinality(os) >= RepetitionThreshold -> Found("repeated_event", Cardinality(os))
       [] OTHER -> {}

\* An empty context marks nothing: no bucket stands for it.
Unseen == {key \in Keys : key \notin seenKeys}

PatternRisk(p) ==
  CASE p.pattern = "critical_repetition" -> "critical"
    [] p.pattern = "escalation" -> IF p.count >= HighThreshold THEN "high" ELSE "medium"
    [] OTHER -> IF p.count >= HighThreshold THEN "medium" ELSE "low"
PatternPriority(p) ==
  CASE p.pattern = "critical_repetition" -> IF p.count >= UrgentThreshold THEN "urgent" ELSE "high"
    [] p.pattern = "escalation" -> IF p.count >= HighThreshold THEN "high" ELSE "normal"
    [] OTHER -> IF p.count >= HighThreshold THEN "normal" ELSE "low"

RecommendationType(p) ==
  CASE PatternPriority(p) = "urgent" -> "escalate_to_human"
    [] PatternPriority(p) # "urgent" /\ PatternRisk(p) \in {"critical", "high"} -> "investigate"
    [] OTHER -> "review"
ReportKey(p) == <<p.context, p.pattern, p.ids>>
Recommendation(p) ==
  [context |-> p.context, pattern |-> p.pattern, ids |-> p.ids, count |-> p.count,
   risk |-> PatternRisk(p), priority |-> PatternPriority(p), type |-> RecommendationType(p)]

----------------------------------------------------------------------------
BackgroundInit ==
  /\ watching = FALSE
  /\ processed = [stage \in EarlyStages |-> {}]
  /\ contexts = [key \in Keys |-> {}]
  /\ seenKeys = {} /\ reportedKeys = {}
  /\ observed = [key \in Keys |-> {}] /\ recommendations = {}

StartWatching ==
  /\ ~watching /\ watching' = TRUE
  /\ UNCHANGED <<processed, contexts, seenKeys, reportedKeys, observed, recommendations>>
StopWatching ==
  /\ watching /\ watching' = FALSE
  /\ UNCHANGED <<processed, contexts, seenKeys, reportedKeys, observed, recommendations>>

\* Everything is forgotten, running or not.
ForgetEverything ==
  /\ processed' = [stage \in EarlyStages |-> {}]
  /\ contexts' = [key \in Keys |-> {}]
  /\ seenKeys' = {} /\ reportedKeys' = {}
  /\ observed' = [key \in Keys |-> {}] /\ recommendations' = {}
  /\ UNCHANGED watching

\* Each of the first stages skips what it has seen and hands on what counts.
ReachesContext(batch) ==
  {e \in batch : /\ e.id \notin processed["trigger"] \cup processed["condition"]
                 /\ IsWatched(e)
                 /\ e.id \notin processed["context"]}

\* Seen at first sight: whether the key has a pattern yet or not.
MarkSeen(filled) == seenKeys \cup filled

Process(batch, now) ==
  LET taken == ReachesContext(batch)
      After(key) == Accumulate(contexts[key], {e \in taken : ContextKey(e) = key}, now)
      filled == {key \in Keys : After(key) # {}}
      patterns == UNION {PatternsOf(key, After(key)) : key \in filled \cap Unseen}
      fresh == {p \in patterns : ReportKey(p) \notin reportedKeys}
  IN /\ watching
     /\ processed' = [stage \in EarlyStages |-> processed[stage] \cup
          (IF stage = "context" THEN {e.id : e \in taken} ELSE {e.id : e \in batch})]
     /\ contexts' = [key \in Keys |-> After(key)]
     /\ seenKeys' = MarkSeen(filled)
     /\ reportedKeys' = reportedKeys \cup {ReportKey(p) : p \in fresh}
     /\ observed' = [key \in Keys |-> observed[key]
          \cup {[id |-> e.id, at |-> now] : e \in {x \in taken : ContextKey(x) = key}}]
     /\ recommendations' = recommendations \cup {Recommendation(p) : p \in fresh}
     /\ UNCHANGED watching

\* A batch gives an event once. One that is out of form raises before any stage changes.
Batches ==
  {es \in UNION {kSubset(n, PresentedEvents) : n \in 1..MaxBatch} :
     \A e, f \in es : e.id = f.id => e = f}

BackgroundNext ==
  \/ StartWatching \/ StopWatching \/ ForgetEverything
  \/ \E batch \in Batches, now \in CycleTimes : Process(batch, now)

BackgroundSpec == BackgroundInit /\ [][BackgroundNext]_backgroundVars

----------------------------------------------------------------------------
\* Seen ids, contexts of observations, keys and recommendations keep their types.
BackgroundTypeOK ==
  /\ watching \in BOOLEAN
  /\ processed \in [EarlyStages -> SUBSET Ids]
  /\ contexts \in [Keys -> SUBSET Observations]
  /\ seenKeys \subseteq Keys /\ {r.context : r \in recommendations} \subseteq Keys
  /\ {r[1] : r \in reportedKeys} \subseteq Keys

\* However the batches are cut and whatever order their times come in, a context
\* holds the latest MaxObservations of all it was given since the last reset.
ContextsHoldLatest == \A key \in Keys : contexts[key] = KeepLatest(observed[key])

\* The stages stay in step across resets and restarts: the first three have seen
\* the same events, and what the context stage has seen is what was eligible of them.
StagesAgree ==
  /\ processed["monitor"] = processed["trigger"]
  /\ processed["monitor"] = processed["condition"]
  /\ processed["context"] = UNION {{o.id : o \in observed[key]} : key \in Keys}
  /\ processed["context"] \subseteq processed["monitor"]

\* A human is told of a context once between resets.
ContextsAreReportedOnce == \A r, s \in recommendations : r.context = s.context => r = s

\* What is recommended follows from events that were observed in that context, and
\* only enough critical ones escalate.
RecommendationsAreEarned ==
  \A r \in recommendations :
    /\ r.ids \subseteq {o.id : o \in observed[r.context]}
    /\ r.count = Cardinality(r.ids) /\ r.count >= 2
    /\ r.type = "escalate_to_human" =>
         /\ r.context[2] \in CriticalTypes /\ r.count >= UrgentThreshold
    /\ r.context[2] \in CriticalTypes => r.type # "review" \/ r.count < CriticalThreshold

\* What the pattern module says of itself: it recognizes repeated operational
\* patterns of the background context. Refuted: the key is marked at its first event.
RepetitionIsRecognized ==
  \A key \in Keys :
    Cardinality(contexts[key]) >= RepetitionThreshold => \E r \in recommendations : r.context = key

-----------------------------------------------------------------------------
\* A small instance of PresentedEvents: three events that may be of any watched type, hence of
\* one context or of three, and one that is not watched and shares its id with a watched one.
FewEvents ==
  {[id |-> i, source |-> "ops", type |-> t] : i \in 1..3, t \in WatchedTypes}
    \cup {[id |-> 4, source |-> "ops", type |-> t] : t \in {"service.outage", "unwatched"}}
=============================================================================
