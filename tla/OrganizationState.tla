-------------------------- MODULE OrganizationState --------------------------
(***************************************************************************)
(* The organization's users and systems as the central server lists them   *)
(* (yoma/office/central_server.py): reconcile_users() and                  *)
(* reconcile_systems() compare a list with the last snapshot and announce  *)
(* every change (organization_events.py), to a table                       *)
(* (organization_event_persistence.py) and to the subscribers of a bus     *)
(* (organization_event_bus.py); the snapshot is kept in tables of its   *)
(* own (organization_state.py).                                            *)
(*                                                                         *)
(* The adapter is used by one thread.  One record of the list is one step: *)
(* its event is created, stored, saved and published.  A save or a         *)
(* subscriber may raise, the process may end between any two steps.        *)
(***************************************************************************)
EXTENDS Naturals, Sequences, FiniteSets, FiniteSetsExt

CONSTANTS
  Users, Systems,  \* external ids
  States,          \* what the fields of an identity say
  Active,          \* those with active = True
  Subscribers,     \* handlers that may subscribe
  Wants,           \* the pairs of event type and entity type each asks for
  MaxEvents,       \* bound: events in the table
  Absent, NoJob

Entities == Users \cup Systems
Kinds == {"user", "system"}
Of(k) == IF k = "user" THEN Users ELSE Systems
KindOf(e) == IF e \in Users THEN "user" ELSE "system"
Types == {"ADDED", "REMOVED", "ACTIVATED", "DEACTIVATED", "UPDATED"}
Known == States \cup {Absent}
Events == [type : Types, ent : Entities, cur : Known]
Jobs == [kind : Kinds, left : SUBSET Entities, again : SUBSET Entities,
         incoming : [Entities -> Known], missed : SUBSET Entities]

ASSUME OrganizationAssumption ==
  /\ Users \cap Systems = {}
  /\ Active \subseteq States
  /\ Wants \in [Subscribers -> SUBSET (Types \X Kinds)]
  /\ MaxEvents \in Nat
  /\ Absent \notin States /\ NoJob \notin Jobs

VARIABLES
  stored,   \* the tables of the snapshot
  log,      \* the table of events, in the order of their ids
  mem,      \* self._user_state and self._system_state
  job,      \* the reconciliation under way
  subs,     \* the subscriptions of the bus
  view,     \* what each subscriber was last told of each entity
  caught,   \* history: subscribers that were told all that the table holds
  unheard,  \* history: entities whose last event the table ignored
  suspect,  \* history: entities whose events may not lead to their snapshot
  unsaved   \* history: kinds whose last snapshot was not saved

busVars == <<subs, view, caught>>
historyVars == <<unheard, suspect, unsaved>>
orgVars == <<stored, log, mem, job, busVars, historyVars>>

\* What the last of the events of s at the given places says, d without one.
Latest(s, at, d) == IF at = {} THEN d ELSE s[Max(at)].cur
Places(s, e) == {n \in DOMAIN s : s[n].ent = e}
LastOf(s, e) == Latest(s, Places(s, e), Absent)

Nothing == [e \in Entities |-> Absent]

OrgInit ==
  /\ stored = Nothing /\ mem = Nothing
  /\ log = <<>>
  /\ job = NoJob
  /\ subs = {} /\ view = [s \in Subscribers |-> Nothing] /\ caught = {}
  /\ unheard = {} /\ suspect = {} /\ unsaved = {}

-----------------------------------------------------------------------------
(* Reconciliation *)

\* The records of a list are drawn one by one, those of one id together (the
\* list is sorted).  left: the entities not gone through; again: the one that is
\* named once more; incoming: the snapshot the list leads to so far.
Begin(k) ==
  /\ job = NoJob
  /\ job' = [kind |-> k, left |-> Of(k), again |-> {},
             incoming |-> mem, missed |-> {}]
  /\ UNCHANGED <<stored, log, mem, busVars, historyVars>>

TypeOf(old, new) ==
  IF old = Absent THEN "ADDED"
  ELSE IF new = Absent THEN "REMOVED"
  ELSE IF old \notin Active /\ new \in Active THEN "ACTIVATED"
  ELSE IF old \in Active /\ new \notin Active THEN "DEACTIVATED"
  ELSE "UPDATED"

Event(e, v) == [type |-> TypeOf(mem[e], v), ent |-> e, cur |-> v]

OnlyMoved(old, new) == (old = Absent) # (new = Absent)
Changed(old, new) == old # new

Hears(s, t, e) == s \in subs /\ <<t, KindOf(e)>> \in Wants[s]

\* Every subscriber that asked for the event is called, whoever raises.
ToldOne(t, e, v) ==
  [s \in Subscribers |->
     IF Hears(s, t, e) /\ s = CHOOSE x \in subs : Hears(x, t, e)
     THEN [view[s] EXCEPT ![e] = v] ELSE view[s]]
Told(t, e, v) ==
  [s \in Subscribers |-> IF Hears(s, t, e) THEN [view[s] EXCEPT ![e] = v] ELSE view[s]]

Touched == job.missed \cup {e \in Entities : job.incoming[e] # mem[e]}

\* Entity e is v in the list, or gone from it (Absent).  The list may name it
\* again: then the last record counts for the snapshot, and every record is
\* compared with the snapshot before.
Taken(e, v) ==
  [job EXCEPT !.incoming[e] = v,
              !.left = @ \ {e}, !.again = {},
              !.missed = IF v = mem[e] /\ job.incoming[e] # v THEN @ \cup {e} ELSE @]
TakenMore(e, v) ==
  {Taken(e, v)} \cup {j \in {[Taken(e, v) EXCEPT !.again = {e}]} : v # Absent}

Unchanged(e, v) ==
  /\ ~ Changed(mem[e], v)
  /\ job' \in TakenMore(e, v)
  /\ UNCHANGED <<stored, log, mem, busVars, historyVars>>

\* The reconciliation ends here: the snapshot stays, the events told stay too.
Abort(touched) ==
  /\ job' = NoJob
  /\ suspect' = suspect \cup touched

\* The event is not saved; nobody is told.
SaveFails(e, v) ==
  /\ Changed(mem[e], v)
  /\ Abort(Touched)
  /\ UNCHANGED <<stored, log, mem, busVars, unheard, unsaved>>

\* INSERT OR IGNORE: a table that has an event of this type, entity and
\* timestamp keeps that one.
Inserted(e, v) ==
  /\ Len(log) < MaxEvents
  /\ log' = Append(log, Event(e, v))
  /\ unheard' = unheard \ {e}

Ignored(e, v) ==
  /\ \E n \in DOMAIN log : log[n].ent = e /\ log[n].type = TypeOf(mem[e], v)
  /\ unheard' = unheard \cup {e}
  /\ UNCHANGED log

\* The event is saved, then published; a subscriber may raise.
Announce(e, v) ==
  /\ Changed(mem[e], v)
  /\ Inserted(e, v) \/ Ignored(e, v)
  /\ view' = Told(TypeOf(mem[e], v), e, v)
  /\ LET lost == IF log' = log THEN {e} ELSE {}
     IN  \/ /\ job' \in {[j EXCEPT !.missed = @ \cup lost] : j \in TakenMore(e, v)}
            /\ UNCHANGED suspect
         \/ /\ \E s \in Subscribers : Hears(s, TypeOf(mem[e], v), e)
            /\ Abort(Touched \cup {e})
  /\ UNCHANGED <<stored, mem, subs, caught, unsaved>>

\* One record, or one entity that is gone.
Compare(e, v) ==
  /\ job # NoJob
  /\ \/ job.again = {} /\ e \in job.left
     \/ job.again = {e} /\ v # Absent
  /\ Unchanged(e, v) \/ SaveFails(e, v) \/ Announce(e, v)

SavedBefore == [e \in Entities |-> IF e \in Of(job.kind) THEN mem[e] ELSE stored[e]]
Saved == [e \in Entities |-> IF e \in Of(job.kind) THEN job.incoming[e] ELSE stored[e]]

\* The snapshot in memory is replaced, then saved; the save may raise.
Commit ==
  /\ job # NoJob /\ job.left = {} /\ job.again = {}
  /\ mem' = job.incoming
  /\ suspect' = (suspect \ {e \in Entities : job.incoming[e] # mem[e]}) \cup job.missed
  /\ \/ stored' = Saved /\ unsaved' = unsaved \ {job.kind}
     \/ unsaved' = unsaved \cup {job.kind} /\ UNCHANGED stored
  /\ job' = NoJob
  /\ UNCHANGED <<log, busVars, unheard>>

-----------------------------------------------------------------------------
(* The bus, replay and restarts *)

Subscribe(s) ==
  /\ job = NoJob /\ s \notin subs
  /\ subs' = subs \cup {s}
  /\ caught' = IF log = <<>> THEN caught \cup {s} ELSE caught
  /\ UNCHANGED <<stored, log, mem, job, view, historyVars>>

Unsubscribe(s) ==
  /\ job = NoJob /\ s \in subs
  /\ subs' = subs \ {s} /\ caught' = caught \ {s}
  /\ view' = [view EXCEPT ![s] = Nothing]
  /\ UNCHANGED <<stored, log, mem, job, historyVars>>

\* replay_events(): the table in the order of its ids, to the bus alone; a
\* subscriber that raises at the nth event keeps the rest from everyone.
ReplayUpTo(n) ==
  /\ view' = [s \in Subscribers |-> [e \in Entities |->
       Latest(log, {m \in Places(log, e) : m <= n /\ Hears(s, log[m].type, e)}, view[s][e])]]
  /\ caught' = IF n = Len(log) THEN subs ELSE {}
  /\ UNCHANGED <<stored, log, mem, job, subs, historyVars>>

Replay ==
  /\ job = NoJob /\ subs # {}
  /\ \/ ReplayUpTo(Len(log))
     \/ \E n \in DOMAIN log :
          /\ \E s \in subs : Hears(s, log[n].type, log[n].ent)
          /\ ReplayUpTo(n)

\* The process ends, and another one starts from the tables.
Restart ==
  /\ mem' = stored
  /\ job' = NoJob
  /\ subs' = {} /\ view' = [s \in Subscribers |-> Nothing] /\ caught' = {}
  /\ unheard' = {} /\ unsaved' = {}
  /\ suspect' = suspect \cup {e \in Entities : mem[e] # stored[e]}
       \cup IF job = NoJob THEN {}
            ELSE Touched
  /\ UNCHANGED <<stored, log>>

-----------------------------------------------------------------------------

OrgNext ==
  \/ \E k \in Kinds : Begin(k)
  \/ \E e \in Entities, v \in Known : Compare(e, v)
  \/ Commit
  \/ \E s \in Subscribers : Subscribe(s) \/ Unsubscribe(s)
  \/ Replay \/ Restart

OrgSpec == OrgInit /\ [][OrgNext]_orgVars

-----------------------------------------------------------------------------
(* Properties *)

\* Types; an event says REMOVED exactly when nothing is left of the entity
\* (TypeOf, the choice of event_type in reconcile_users).
OrgTypeOK ==
  /\ stored \in [Entities -> Known] /\ mem \in [Entities -> Known]
  /\ log \in Seq(Events)
  /\ \A n \in DOMAIN log : log[n].type = "REMOVED" <=> log[n].cur = Absent
  /\ job \in Jobs \cup {NoJob}
  /\ subs \subseteq Subscribers /\ caught \subseteq subs
  /\ view \in [Subscribers -> [Entities -> Known]]
  /\ unheard \subseteq Entities /\ suspect \subseteq Entities
  /\ unsaved \subseteq Kinds

\* Between reconciliations the events of the table, read in order, lead to the
\* snapshot, for every entity whose events were not cut off by an error, an
\* end of the process, a clash of timestamps or records that contradict each
\* other; a reconciliation that succeeds afterwards brings it back.
Replayable ==
  job = NoJob => \A e \in Entities \ suspect : LastOf(log, e) = mem[e]

\* The table of the snapshot holds what the adapter answers, kind by kind,
\* unless the save of that kind raised (_persist_users, _persist_systems): a
\* restart finds the organization as it was.
SnapshotKept ==
  \A k \in Kinds \ unsaved : \A e \in Of(k) : stored[e] = mem[e]

\* A subscriber that asked for all events of an entity and was there from the
\* first event, or since a complete replay, knows what the table says.
EventsAgree ==
  \A e \in Entities \ unheard, s \in caught :
    Types \X {KindOf(e)} \subseteq Wants[s] => view[s][e] = LastOf(log, e)

=============================================================================
