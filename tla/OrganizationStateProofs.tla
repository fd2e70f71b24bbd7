----------------------- MODULE OrganizationStateProofs -----------------------
(***************************************************************************)
(* Theorems about OrganizationState for any users, systems, subscribers    *)
(* and filters, and any number of events.                                  *)
(***************************************************************************)
EXTENDS OrganizationState, TLAPS

-----------------------------------------------------------------------------
(* The inductive invariant *)

\* The places of the log have a last one, whichever are looked at.
LastPlaces ==
  \A A \in SUBSET DOMAIN log : A # {} => \E x \in A : \A y \in A : y <= x

\* While a list is gone through only its kind changes, and what it changes is
\* what the log says; whatever the log says wrongly is in suspect or missed.
Announced ==
  /\ job = NoJob => Replayable
  /\ job # NoJob =>
       /\ \A e \in Entities : e \notin Of(job.kind) => job.incoming[e] = mem[e]
       /\ \A e \in Entities \ job.missed :
            job.incoming[e] # mem[e] \/ e \notin suspect => LastOf(log, e) = job.incoming[e]

\* A subscriber has heard nothing of an entity the log does not mention.
Heard ==
  \A e \in Entities : Places(log, e) = {} => \A s \in Subscribers : view[s][e] = Absent

JobKind == job # NoJob => job.kind \in Kinds /\ job.left \cup job.again \subseteq Of(job.kind)

OrgInv ==
  /\ OrgTypeOK /\ LastPlaces /\ JobKind
  /\ Announced /\ SnapshotKept /\ Heard /\ EventsAgree

-----------------------------------------------------------------------------
(* The last event of an entity *)

\* The last of some places of the log is one of them.
LEMMA LastPlace ==
  ASSUME LastPlaces, NEW A \in SUBSET DOMAIN log, A # {}
  PROVE  Max(A) \in A /\ \A y \in A : y <= Max(A)
<1>1. PICK x \in A : \A y \in A : y <= x
    BY DEF LastPlaces
<1>2. A \subseteq Nat => \A y \in A : x >= y
    BY <1>1
<1>3. \E z \in A : \A y \in A : z >= y
    BY <1>1
<1>4. QED
    BY <1>3 DEF Max

\* What the log says of an entity is something known of it.
LEMMA LatestKnown ==
  ASSUME OrgTypeOK, LastPlaces, NEW A \in SUBSET DOMAIN log, NEW d \in Known
  PROVE  Latest(log, A, d) \in Known
<1>1. CASE A = {}
    BY <1>1 DEF Latest
<1>2. CASE A # {}
  <2>1. Max(A) \in DOMAIN log
      BY <1>2, LastPlace
  <2>2. log \in Seq(Events)
      BY DEF OrgTypeOK, Events
  <2>3. log[Max(A)] \in Events
      BY <2>1, <2>2
  <2>4. QED
      BY <1>2, <2>3 DEF Latest, Events
<1>3. QED
    BY <1>1, <1>2

\* A place after all others is the last one.
LEMMA NewMax ==
  ASSUME NEW n \in Nat, NEW A \in SUBSET (1 .. n)
  PROVE  Max(A \cup {n + 1}) = n + 1
<1> DEFINE B == A \cup {n + 1}
<1>1. n + 1 \in B /\ \A y \in B : n + 1 >= y
    OBVIOUS
<1>2. \A x \in B : (\A y \in B : x >= y) => x = n + 1
    OBVIOUS
<1>3. Max(B) \in B /\ \A y \in B : Max(B) >= y
    BY <1>1 DEF Max
<1>4. QED
    BY <1>2, <1>3

\* An event added to the log is the last one of its entity, and of no other.
LEMMA LastAppended ==
  ASSUME OrgTypeOK, LastPlaces, NEW ev \in Events, NEW e \in Entities
  PROVE  /\ Append(log, ev) \in Seq(Events)
         /\ ev.ent = e => LastOf(Append(log, ev), e) = ev.cur
         /\ ev.ent # e => /\ Places(Append(log, ev), e) = Places(log, e)
                          /\ LastOf(Append(log, ev), e) = LastOf(log, e)
         /\ ev.ent = e => Places(Append(log, ev), e) # {}
<1> DEFINE n == Len(log)
           s == Append(log, ev)
<1>1. /\ log \in Seq(Events) /\ n \in Nat /\ DOMAIN log = 1 .. n
      /\ s \in Seq(Events) /\ DOMAIN s = 1 .. n + 1
      /\ s[n + 1] = ev /\ \A k \in 1 .. n : s[k] = log[k]
    BY DEF OrgTypeOK, Events
<1>2. CASE ev.ent = e
  <2>1. Places(s, e) = Places(log, e) \cup {n + 1}
      BY <1>1, <1>2 DEF Places
  <2>2. Places(log, e) \in SUBSET (1 .. n)
      BY <1>1 DEF Places
  <2>3. Max(Places(s, e)) = n + 1
      BY <1>1, <2>1, <2>2, NewMax
  <2>4. LastOf(s, e) = ev.cur
      BY <1>1, <2>1, <2>3 DEF LastOf, Latest
  <2>5. QED
      BY <1>1, <1>2, <2>1, <2>4
<1>3. CASE ev.ent # e
  <2>1. Places(s, e) = Places(log, e)
      BY <1>1, <1>3 DEF Places
  <2>2. LastOf(s, e) = LastOf(log, e)
      BY <1>1, <2>1, LastPlace DEF LastOf, Latest, Places
  <2>3. QED
      BY <1>1, <1>3, <2>1, <2>2
<1>4. QED
    BY <1>2, <1>3

-----------------------------------------------------------------------------
(* A step of a reconciliation *)

LEMMA KnownKinds ==
  /\ Absent \in Known
  /\ \A k \in Kinds : Of(k) \subseteq Entities
  /\ \A e \in Entities : KindOf(e) \in Kinds /\ e \in Of(KindOf(e))
  /\ \A e \in Entities, k \in Kinds : e \in Of(k) => k = KindOf(e)
BY OrganizationAssumption DEF Known, Kinds, Of, Entities, KindOf

\* What a record makes of the job.
LEMMA TakenJob ==
  ASSUME job \in Jobs, NEW e \in Entities, NEW v \in Known, NEW j \in TakenMore(e, v)
  PROVE  /\ j \in Jobs /\ j.kind = job.kind
         /\ j.incoming = [job.incoming EXCEPT ![e] = v]
         /\ j.left \subseteq job.left /\ j.again \subseteq {e}
         /\ job.missed \subseteq j.missed /\ j.missed \subseteq job.missed \cup {e}
         /\ e \notin j.missed => v # mem[e] \/ job.incoming[e] = v
<1> DEFINE t == Taken(e, v)
<1>1. /\ t \in Jobs /\ t.kind = job.kind
      /\ t.incoming = [job.incoming EXCEPT ![e] = v]
      /\ t.left \subseteq job.left /\ t.again = {}
      /\ job.missed \subseteq t.missed /\ t.missed \subseteq job.missed \cup {e}
      /\ e \notin t.missed => v # mem[e] \/ job.incoming[e] = v
    BY DEF Jobs, Taken
<1>2. j = t \/ j = [t EXCEPT !.again = {e}]
    BY DEF TakenMore
<1> HIDE DEF t
<1>3. CASE j = t
    BY <1>1, <1>3
<1>4. CASE j = [t EXCEPT !.again = {e}]
    BY <1>1, <1>4 DEF Jobs
<1>5. QED
    BY <1>2, <1>3, <1>4

\* An event says REMOVED exactly when nothing is left.
LEMMA EventTyped ==
  ASSUME OrgTypeOK, NEW e \in Entities, NEW v \in Known, Changed(mem[e], v)
  PROVE  /\ Event(e, v) \in Events /\ Event(e, v).ent = e /\ Event(e, v).cur = v
         /\ Event(e, v).type = TypeOf(mem[e], v)
         /\ Event(e, v).type = "REMOVED" <=> v = Absent
<1>1. mem[e] \in Known /\ Absent \notin Active
    BY OrganizationAssumption DEF OrgTypeOK
<1>2. TypeOf(mem[e], v) \in Types
    BY DEF TypeOf, Types
<1>3. TypeOf(mem[e], v) = "REMOVED" <=> v = Absent
    BY <1>1 DEF TypeOf, Changed
<1>4. QED
    BY <1>2, <1>3 DEF Event, Events

\* What subscribers know after an event.
LEMMA ToldView ==
  ASSUME OrgTypeOK, NEW t, NEW e \in Entities, NEW v \in Known
  PROVE  /\ Told(t, e, v) \in [Subscribers -> [Entities -> Known]]
         /\ \A s \in Subscribers :
              /\ Hears(s, t, e) => Told(t, e, v)[s][e] = v
              /\ \A f \in Entities \ {e} : Told(t, e, v)[s][f] = view[s][f]
BY DEF OrgTypeOK, Told

\* The log after an event was saved, or ignored.
LEMMA LogGrows ==
  ASSUME OrgInv, NEW e \in Entities, NEW v \in Known, Changed(mem[e], v),
         Inserted(e, v) \/ Ignored(e, v)
  PROVE  /\ log' \in Seq(Events)
         /\ \A n \in DOMAIN log' : log'[n].type = "REMOVED" <=> log'[n].cur = Absent
         /\ LastPlaces'
         /\ \A f \in Entities \ {e} : /\ Places(log', f) = Places(log, f)
                                      /\ LastOf(log', f) = LastOf(log, f)
         /\ Places(log', e) # {}
         /\ unheard' \subseteq Entities /\ unheard' \ {e} = unheard \ {e}
         /\ log' = log => e \in unheard'
         /\ log' # log => LastOf(log', e) = v
<1> USE DEF OrgInv
<1>1. log \in Seq(Events) /\ DOMAIN log = 1 .. Len(log) /\ Len(log) \in Nat
    BY DEF OrgTypeOK, Events
<1>2. unheard \subseteq Entities
    BY DEF OrgTypeOK
<1>3. CASE Inserted(e, v)
  <2>1. log' = Append(log, Event(e, v)) /\ unheard' = unheard \ {e}
      BY <1>3 DEF Inserted
  <2>2. /\ Event(e, v) \in Events /\ Event(e, v).ent = e /\ Event(e, v).cur = v
        /\ Event(e, v).type = "REMOVED" <=> v = Absent
      BY EventTyped
  <2>3. /\ DOMAIN log' = 1 .. Len(log) + 1 /\ log'[Len(log) + 1] = Event(e, v)
        /\ \A k \in 1 .. Len(log) : log'[k] = log[k]
      BY <1>1, <2>1, <2>2
  <2>7. log' # log
    <3>1. Len(log) + 1 \in DOMAIN log' /\ Len(log) + 1 \notin DOMAIN log
        BY <1>1, <2>3
    <3>2. QED
        BY <3>1
  <2>4. LastPlaces'
    <3>1. SUFFICES ASSUME NEW A \in SUBSET (1 .. Len(log) + 1), A # {}
                   PROVE  \E x \in A : \A y \in A : y <= x
        BY <2>3 DEF LastPlaces
    <3>2. CASE Len(log) + 1 \in A
        BY <1>1, <3>2
    <3>3. CASE Len(log) + 1 \notin A
      <4>1. A \in SUBSET DOMAIN log
          BY <1>1, <3>3
      <4>2. QED
          BY <3>1, <4>1 DEF LastPlaces
    <3>4. QED
        BY <3>2, <3>3
  <2>5. \A n \in DOMAIN log' : log'[n].type = "REMOVED" <=> log'[n].cur = Absent
      BY <1>1, <2>2, <2>3 DEF OrgTypeOK
  <2>6. QED
      BY <1>2, <2>1, <2>2, <2>4, <2>5, <2>7, LastAppended
<1>4. CASE Ignored(e, v)
  <2>1. log' = log /\ unheard' = unheard \cup {e} /\ Places(log, e) # {}
      BY <1>4 DEF Ignored, Places
  <2>2. QED
      BY <1>1, <1>2, <2>1 DEF OrgTypeOK, LastPlaces
<1>5. QED
    BY <1>3, <1>4

-----------------------------------------------------------------------------
(* The invariant holds at first, and every step keeps it *)

LEMMA InvInit == OrgInit => OrgInv
<1> SUFFICES ASSUME OrgInit PROVE OrgInv
    OBVIOUS
<1> USE DEF OrgInit, Nothing
<1>1. log = <<>> /\ DOMAIN log = {} /\ \A e \in Entities : Places(log, e) = {}
    BY DEF Places
<1>2. \A e \in Entities : LastOf(log, e) = Absent
    BY <1>1 DEF LastOf, Latest
<1>3. OrgTypeOK
    BY <1>1, KnownKinds DEF OrgTypeOK, Kinds
<1>4. LastPlaces /\ JobKind
    BY <1>1 DEF LastPlaces, JobKind
<1>5. Announced /\ Heard /\ EventsAgree
    BY <1>2 DEF Announced, Replayable, Heard, EventsAgree
<1>6. SnapshotKept
    BY KnownKinds DEF SnapshotKept
<1>7. QED
    BY <1>3, <1>4, <1>5, <1>6 DEF OrgInv

LEMMA BeginStep ==
  ASSUME OrgInv, NEW k \in Kinds, Begin(k)
  PROVE  OrgInv'
<1> USE DEF OrgInv, Begin, busVars, historyVars
<1>1. job = NoJob /\ job' \in Jobs /\ job'.kind = k /\ job'.incoming = mem
      /\ job'.left = Of(k) /\ job'.again = {} /\ job'.missed = {}
    BY KnownKinds DEF Jobs, OrgTypeOK
<1>2. OrgTypeOK'
    BY <1>1 DEF OrgTypeOK, Jobs
<1>3. LastPlaces' /\ SnapshotKept' /\ Heard' /\ EventsAgree'
    BY DEF LastPlaces, SnapshotKept, Heard, EventsAgree
<1>4. JobKind' /\ Announced'
    BY <1>1, KnownKinds DEF JobKind, Announced, Replayable
<1>5. QED
    BY <1>2, <1>3, <1>4

\* A reconciliation that ends early leaves everything but job and suspect.
LEMMA Aborted ==
  ASSUME OrgInv, job # NoJob, NEW T \in SUBSET Entities, Touched \subseteq T, Abort(T),
         \A f \in Entities \ T : LastOf(log', f) = LastOf(log, f),
         mem' = mem
  PROVE  /\ suspect' \subseteq Entities
         /\ job' = NoJob
         /\ Announced'
<1>1. suspect \subseteq Entities
    BY DEF OrgInv, OrgTypeOK
<1>2. ASSUME NEW e \in Entities \ suspect'
      PROVE  LastOf(log', e) = mem'[e]
  <2>1. e \notin suspect /\ e \notin T /\ e \notin job.missed /\ job.incoming[e] = mem[e]
      BY <1>2 DEF Abort, Touched
  <2>2. LastOf(log, e) = mem[e]
      BY <2>1 DEF OrgInv, Announced
  <2>3. QED
      BY <2>1, <2>2
<1>3. QED
    BY <1>1, <1>2 DEF Abort, Announced, Replayable

LEMMA UnchangedStep ==
  ASSUME OrgInv, job # NoJob, NEW e \in Entities, NEW v \in Known, e \in Of(job.kind),
         Unchanged(e, v)
  PROVE  OrgInv'
<1> USE DEF OrgInv, Unchanged, busVars, historyVars
<1>1. job \in Jobs
    BY DEF OrgTypeOK, Jobs
<1>2. PICK j \in TakenMore(e, v) : job' = j
    OBVIOUS
<1>3. /\ j \in Jobs /\ j.kind = job.kind
      /\ j.incoming = [job.incoming EXCEPT ![e] = v]
      /\ j.left \subseteq job.left /\ j.again \subseteq {e}
      /\ job.missed \subseteq j.missed
      /\ e \notin j.missed => v # mem[e] \/ job.incoming[e] = v
    BY <1>1, TakenJob
<1>4. OrgTypeOK'
    BY <1>2, <1>3 DEF OrgTypeOK, Jobs
<1>5. LastPlaces' /\ SnapshotKept' /\ Heard' /\ EventsAgree'
    BY DEF LastPlaces, SnapshotKept, Heard, EventsAgree
<1>6. JobKind'
    BY <1>2, <1>3 DEF JobKind, Kinds
<1>7. job' # NoJob /\ v = mem[e]
    BY <1>2, <1>3, OrganizationAssumption DEF Changed
<1>8. job.incoming \in [Entities -> Known] /\ job.missed \subseteq j.missed
    BY <1>1, <1>3 DEF Jobs
<1>9. Announced'
  <2>1. \A f \in Entities : f \notin Of(j.kind) => j.incoming[f] = mem[f]
      BY <1>3, <1>8 DEF Announced
  <2>2. ASSUME NEW f \in Entities \ j.missed, j.incoming[f] # mem[f] \/ f \notin suspect
        PROVE  LastOf(log, f) = j.incoming[f]
    <3>1. j.incoming[f] = job.incoming[f]
        BY <1>3, <1>7, <1>8, <2>2
    <3>2. f \notin job.missed
        BY <1>8, <2>2
    <3>3. QED
        BY <3>1, <3>2, <2>2 DEF Announced
  <2>3. QED
      BY <1>2, <1>7, <2>1, <2>2 DEF Announced
<1>10. QED
    BY <1>4, <1>5, <1>6, <1>9

\* Every subscriber that asked for the event heard it.
LEMMA HeardStep ==
  ASSUME OrgInv, NEW e \in Entities, NEW v \in Known, Changed(mem[e], v),
         Inserted(e, v) \/ Ignored(e, v),
         view' = Told(TypeOf(mem[e], v), e, v), subs' = subs, caught' = caught
  PROVE  Heard' /\ EventsAgree'
<1> DEFINE t == TypeOf(mem[e], v)
<1>1. /\ \A f \in Entities \ {e} : /\ Places(log', f) = Places(log, f)
                                   /\ LastOf(log', f) = LastOf(log, f)
      /\ Places(log', e) # {}
      /\ unheard' \ {e} = unheard \ {e}
      /\ log' = log => e \in unheard'
      /\ log' # log => LastOf(log', e) = v
    BY LogGrows
<1>2. \A s \in Subscribers :
        /\ Hears(s, t, e) => view'[s][e] = v
        /\ \A f \in Entities \ {e} : view'[s][f] = view[s][f]
    BY ToldView DEF OrgInv
<1>3. Heard'
    BY <1>1, <1>2 DEF Heard, OrgInv
<1>4. <<t, KindOf(e)>> \in Types \X {KindOf(e)}
    BY DEF TypeOf, Types
<1>5. caught \subseteq subs /\ subs \subseteq Subscribers
    BY DEF OrgInv, OrgTypeOK
<1>6. ASSUME NEW f \in Entities \ unheard', NEW s \in caught,
             Types \X {KindOf(f)} \subseteq Wants[s]
      PROVE  view'[s][f] = LastOf(log', f)
  <2>1. CASE f = e
    <3>1. Hears(s, t, e)
        BY <1>4, <1>5, <1>6, <2>1 DEF Hears
    <3>2. QED
        BY <1>1, <1>2, <1>5, <1>6, <2>1, <3>1
  <2>2. CASE f # e
    <3>1. f \notin unheard
        BY <1>1, <1>6, <2>2
    <3>2. view[s][f] = LastOf(log, f)
        BY <1>6, <3>1 DEF OrgInv, EventsAgree
    <3>3. QED
        BY <1>1, <1>2, <1>5, <2>2, <3>2
  <2>3. QED
      BY <2>1, <2>2
<1>7. QED
    BY <1>3, <1>6 DEF EventsAgree

\* A record that is announced, whether or not the reconciliation goes on.
LEMMA AnnounceStep ==
  ASSUME OrgInv, job # NoJob, NEW e \in Entities, NEW v \in Known, e \in Of(job.kind),
         Announce(e, v)
  PROVE  OrgInv'
<1> USE DEF OrgInv
<1> DEFINE t == TypeOf(mem[e], v)
           lost == IF log' = log THEN {e} ELSE {}
<1>1. /\ Changed(mem[e], v) /\ (Inserted(e, v) \/ Ignored(e, v))
      /\ view' = Told(t, e, v)
      /\ stored' = stored /\ mem' = mem /\ subs' = subs /\ caught' = caught
      /\ unsaved' = unsaved
      /\ \/ /\ job' \in {[j EXCEPT !.missed = @ \cup lost] : j \in TakenMore(e, v)}
            /\ suspect' = suspect
         \/ Abort(Touched \cup {e})
    BY DEF Announce
<1>2. /\ log' \in Seq(Events)
      /\ \A n \in DOMAIN log' : log'[n].type = "REMOVED" <=> log'[n].cur = Absent
      /\ LastPlaces'
      /\ \A f \in Entities \ {e} : LastOf(log', f) = LastOf(log, f)
      /\ unheard' \subseteq Entities
      /\ log' # log => LastOf(log', e) = v
    BY <1>1, LogGrows
<1>3. Heard' /\ EventsAgree'
    BY <1>1, HeardStep
<1>4. view' \in [Subscribers -> [Entities -> Known]]
    BY <1>1, ToldView
<1>5. SnapshotKept'
    BY <1>1 DEF SnapshotKept
<1>6. job \in Jobs /\ Touched \subseteq Entities
    BY DEF OrgTypeOK, Touched, Jobs
<1>7. CASE Abort(Touched \cup {e})
  <2>1. suspect' \subseteq Entities /\ job' = NoJob /\ Announced'
      BY <1>1, <1>2, <1>6, <1>7, Aborted
  <2>2. OrgTypeOK' /\ JobKind'
      BY <1>1, <1>2, <1>4, <2>1 DEF OrgTypeOK, JobKind
  <2>3. QED
      BY <1>2, <1>3, <1>5, <2>1, <2>2
<1>8. CASE /\ job' \in {[j EXCEPT !.missed = @ \cup lost] : j \in TakenMore(e, v)}
           /\ suspect' = suspect
  <2>1. PICK j \in TakenMore(e, v) : job' = [j EXCEPT !.missed = @ \cup lost]
      BY <1>8
  <2>2. /\ j \in Jobs /\ j.kind = job.kind
        /\ j.incoming = [job.incoming EXCEPT ![e] = v]
        /\ j.left \subseteq job.left /\ j.again \subseteq {e}
        /\ job.missed \subseteq j.missed
      BY <1>6, TakenJob
  <2>3. /\ job' \in Jobs /\ job'.kind = job.kind /\ job'.incoming = j.incoming
        /\ job'.left = j.left /\ job'.again = j.again
        /\ job'.missed = j.missed \cup lost
      BY <2>1, <2>2 DEF Jobs
  <2>4. job' # NoJob
      BY <2>3, OrganizationAssumption
  <2>5. OrgTypeOK' /\ JobKind'
    <3>1. OrgTypeOK'
        BY <1>1, <1>2, <1>4, <1>8, <2>3 DEF OrgTypeOK
    <3>2. JobKind'
        BY <2>2, <2>3 DEF JobKind
    <3>3. QED
        BY <3>1, <3>2
  <2>6. job.incoming \in [Entities -> Known] /\ v # mem[e]
      BY <1>1, <1>6 DEF Jobs, Changed
  <2>7. Announced'
    <3>1. \A f \in Entities : f \notin Of(job'.kind) => job'.incoming[f] = mem[f]
        BY <2>2, <2>3, <2>6 DEF Announced
    <3>2. ASSUME NEW f \in Entities \ job'.missed, job'.incoming[f] # mem[f] \/ f \notin suspect
          PROVE  LastOf(log', f) = job'.incoming[f]
      <4>1. f \notin job.missed /\ f \notin lost
          BY <2>2, <2>3, <3>2
      <4>2. CASE f = e
          BY <1>2, <2>2, <2>3, <2>6, <4>1, <4>2
      <4>3. CASE f # e
        <5>1. job'.incoming[f] = job.incoming[f]
            BY <2>2, <2>3, <2>6, <4>3
        <5>2. LastOf(log, f) = job.incoming[f]
            BY <3>2, <4>1, <5>1 DEF Announced
        <5>3. QED
            BY <1>2, <4>3, <5>1, <5>2
      <4>4. QED
          BY <4>2, <4>3
    <3>3. QED
        BY <1>1, <1>8, <2>4, <3>1, <3>2 DEF Announced
  <2>8. QED
      BY <1>2, <1>3, <1>5, <2>5, <2>7
<1>9. QED
    BY <1>1, <1>7, <1>8

LEMMA CompareStep ==
  ASSUME OrgInv, NEW e \in Entities, NEW v \in Known, Compare(e, v)
  PROVE  OrgInv'
<1> USE DEF OrgInv
<1>1. job # NoJob /\ e \in Of(job.kind)
    BY DEF Compare, JobKind
<1>2. CASE Unchanged(e, v)
    BY <1>1, <1>2, UnchangedStep
<1>3. CASE Announce(e, v)
    BY <1>1, <1>3, AnnounceStep
<1>4. CASE SaveFails(e, v)
  <2> USE <1>4 DEF SaveFails, busVars, historyVars
  <2>1. Touched \in SUBSET Entities
      BY <1>1 DEF OrgTypeOK, Touched, Jobs
  <2>2. suspect' \subseteq Entities /\ job' = NoJob /\ Announced'
      BY <1>1, <2>1, Aborted
  <2>3. OrgTypeOK' /\ JobKind'
      BY <2>2 DEF OrgTypeOK, JobKind
  <2>4. LastPlaces' /\ SnapshotKept' /\ Heard' /\ EventsAgree'
      BY DEF LastPlaces, SnapshotKept, Heard, EventsAgree
  <2>5. QED
      BY <2>2, <2>3, <2>4
<1>5. QED
    BY <1>2, <1>3, <1>4 DEF Compare

LEMMA CommitStep ==
  ASSUME OrgInv, Commit
  PROVE  OrgInv'
<1> USE DEF OrgInv, Commit, busVars
<1>1. job \in Jobs /\ job # NoJob /\ job' = NoJob
    BY DEF OrgTypeOK
<1>2. /\ job.incoming \in [Entities -> Known] /\ job.kind \in Kinds
      /\ job.missed \subseteq Entities
    BY <1>1 DEF Jobs
<1>3. Saved \in [Entities -> Known]
    BY <1>2 DEF Saved, OrgTypeOK
<1>4. OrgTypeOK'
    BY <1>1, <1>2, <1>3 DEF OrgTypeOK
<1>5. LastPlaces' /\ Heard' /\ EventsAgree' /\ JobKind'
    BY <1>1 DEF LastPlaces, Heard, EventsAgree, JobKind
<1>6. Announced'
  <2>1. ASSUME NEW e \in Entities \ suspect'
        PROVE  LastOf(log', e) = mem'[e]
      BY <1>1, <2>1 DEF Announced
  <2>2. QED
      BY <1>1, <2>1 DEF Announced, Replayable
<1>7. SnapshotKept'
  <2>1. \A e \in Entities : e \notin Of(job.kind) => mem'[e] = mem[e]
      BY <1>1 DEF Announced
  <2>2. CASE stored' = Saved /\ unsaved' = unsaved \ {job.kind}
    <3>1. \A e \in Entities : e \in Of(job.kind) => stored'[e] = mem'[e]
        BY <2>2 DEF Saved
    <3>2. \A e \in Entities : e \notin Of(job.kind) => stored'[e] = stored[e]
        BY <2>2 DEF Saved
    <3>3. \A k \in Kinds : k # job.kind => \A e \in Of(k) : e \notin Of(job.kind)
        BY <1>2, KnownKinds
    <3>4. QED
        BY <1>2, <2>1, <2>2, <3>1, <3>2, <3>3, KnownKinds DEF SnapshotKept
  <2>3. CASE unsaved' = unsaved \cup {job.kind} /\ stored' = stored
    <3>1. \A k \in Kinds : k # job.kind => \A e \in Of(k) : e \notin Of(job.kind)
        BY <1>2, KnownKinds
    <3>2. QED
        BY <1>2, <2>1, <2>3, <3>1, KnownKinds DEF SnapshotKept
  <2>4. QED
      BY <2>2, <2>3
<1>8. QED
    BY <1>4, <1>5, <1>6, <1>7

LEMMA SubscribeStep ==
  ASSUME OrgInv, NEW s \in Subscribers, Subscribe(s)
  PROVE  OrgInv'
<1> USE DEF OrgInv, Subscribe, historyVars
<1>1. OrgTypeOK'
    BY DEF OrgTypeOK
<1>2. LastPlaces' /\ SnapshotKept' /\ Heard' /\ JobKind' /\ Announced'
    BY DEF LastPlaces, SnapshotKept, Heard, JobKind, Announced, Replayable
<1>3. EventsAgree'
  <2>1. CASE log = <<>>
    <3>1. \A e \in Entities : Places(log, e) = {} /\ LastOf(log, e) = Absent
        BY <2>1 DEF Places, LastOf, Latest
    <3>2. caught' \subseteq Subscribers
        BY DEF OrgTypeOK
    <3>3. QED
        BY <3>1, <3>2 DEF EventsAgree, Heard
  <2>2. CASE log # <<>>
      BY <2>2 DEF EventsAgree
  <2>3. QED
      BY <2>1, <2>2
<1>4. QED
    BY <1>1, <1>2, <1>3

LEMMA UnsubscribeStep ==
  ASSUME OrgInv, NEW s \in Subscribers, Unsubscribe(s)
  PROVE  OrgInv'
<1> USE DEF OrgInv, Unsubscribe, historyVars
<1>1. view \in [Subscribers -> [Entities -> Known]] /\ caught' \subseteq Subscribers \ {s}
    BY DEF OrgTypeOK
<1>2. \A x \in Subscribers \ {s} : view'[x] = view[x]
    BY <1>1
<1>3. view'[s] = Nothing /\ view' \in [Subscribers -> [Entities -> Known]]
    BY <1>1, KnownKinds DEF Nothing
<1>4. OrgTypeOK'
    BY <1>3 DEF OrgTypeOK
<1>5. LastPlaces' /\ SnapshotKept' /\ JobKind' /\ Announced'
    BY DEF LastPlaces, SnapshotKept, JobKind, Announced, Replayable
<1>6. Heard'
    BY <1>2, <1>3 DEF Heard, Nothing
<1>7. EventsAgree'
    BY <1>1, <1>2 DEF EventsAgree
<1>8. QED
    BY <1>4, <1>5, <1>6, <1>7

LEMMA ReplayStep ==
  ASSUME OrgInv, Replay
  PROVE  OrgInv'
<1> USE DEF OrgInv, historyVars
<1>1. Len(log) \in Nat /\ DOMAIN log = 1 .. Len(log)
    BY DEF OrgTypeOK
<1>2. PICK n \in 0 .. Len(log) : ReplayUpTo(n)
    BY <1>1 DEF Replay
<1> DEFINE At(s, e) == {m \in Places(log, e) : m <= n /\ Hears(s, log[m].type, e)}
<1>3. \A s \in Subscribers, e \in Entities : view'[s][e] = Latest(log, At(s, e), view[s][e])
    BY <1>2 DEF ReplayUpTo
<1>4. /\ caught' = IF n = Len(log) THEN subs ELSE {}
      /\ UNCHANGED <<stored, log, mem, job, subs, unheard, suspect, unsaved>>
    BY <1>2 DEF ReplayUpTo
<1>5. view' \in [Subscribers -> [Entities -> Known]]
  <2>1. \A s \in Subscribers, e \in Entities :
          At(s, e) \in SUBSET DOMAIN log /\ view[s][e] \in Known
      BY DEF OrgTypeOK, Places
  <2>2. \A s \in Subscribers, e \in Entities : Latest(log, At(s, e), view[s][e]) \in Known
      BY <2>1, LatestKnown
  <2>3. view' = [s \in Subscribers |-> [e \in Entities |-> Latest(log, At(s, e), view[s][e])]]
      BY <1>2 DEF ReplayUpTo
  <2>4. QED
      BY <2>2, <2>3
<1>6. OrgTypeOK'
    BY <1>4, <1>5 DEF OrgTypeOK
<1>7. LastPlaces' /\ SnapshotKept' /\ JobKind' /\ Announced'
    BY <1>4 DEF LastPlaces, SnapshotKept, JobKind, Announced, Replayable
<1>8. Heard'
  <2>1. SUFFICES ASSUME NEW e \in Entities, Places(log, e) = {}, NEW s \in Subscribers
                 PROVE  view'[s][e] = Absent
      BY <1>4 DEF Heard
  <2>2. At(s, e) = {}
      BY <2>1
  <2>3. QED
      BY <1>3, <2>1, <2>2 DEF Latest, Heard
<1>9. EventsAgree'
  <2>1. SUFFICES ASSUME NEW e \in Entities, NEW s \in subs, n = Len(log),
                        Types \X {KindOf(e)} \subseteq Wants[s]
                 PROVE  view'[s][e] = LastOf(log, e)
      BY <1>4 DEF EventsAgree
  <2>2. s \in Subscribers
      BY DEF OrgTypeOK
  <2>3. \A m \in DOMAIN log : log[m].type \in Types
    <3>1. log \in Seq(Events)
        BY DEF OrgTypeOK
    <3>2. \A m \in DOMAIN log : log[m] \in Events
        BY <3>1
    <3>3. QED
        BY <3>2 DEF Events
  <2>4. \A m \in Places(log, e) : m <= n /\ Hears(s, log[m].type, e)
      BY <1>1, <2>1, <2>3 DEF Places, Hears
  <2>5. At(s, e) = Places(log, e)
      BY <2>4
  <2>6. CASE Places(log, e) = {}
      BY <1>3, <2>2, <2>5, <2>6 DEF Latest, LastOf, Heard
  <2>7. CASE Places(log, e) # {}
      BY <1>3, <2>2, <2>5, <2>7 DEF Latest, LastOf
  <2>8. QED
      BY <2>6, <2>7
<1>10. QED
    BY <1>6, <1>7, <1>8, <1>9

LEMMA RestartStep ==
  ASSUME OrgInv, Restart
  PROVE  OrgInv'
<1> USE DEF OrgInv, Restart
<1>1. Nothing \in [Entities -> Known] /\ \A e \in Entities : Nothing[e] = Absent
    BY KnownKinds DEF Nothing
<1>2. view' \in [Subscribers -> [Entities -> Known]]
      /\ \A s \in Subscribers, e \in Entities : view'[s][e] = Absent
    BY <1>1
<1>3. job # NoJob => Touched \subseteq Entities
    BY DEF OrgTypeOK, Touched, Jobs
<1>4. suspect' \subseteq Entities
    BY <1>3 DEF OrgTypeOK
<1>5. OrgTypeOK'
    BY <1>2, <1>4 DEF OrgTypeOK
<1>6. LastPlaces' /\ SnapshotKept' /\ Heard' /\ EventsAgree' /\ JobKind'
    BY <1>2, KnownKinds DEF LastPlaces, SnapshotKept, Heard, EventsAgree, JobKind
<1>7. Announced'
  <2>1. ASSUME NEW e \in Entities \ suspect'
        PROVE  LastOf(log', e) = mem'[e]
    <3>1. e \notin suspect /\ mem[e] = stored[e] /\ (job # NoJob => e \notin Touched)
        BY <2>1
    <3>2. CASE job = NoJob
        BY <3>1, <3>2 DEF Announced, Replayable
    <3>3. CASE job # NoJob
        BY <3>1, <3>3 DEF Announced, Touched
    <3>4. QED
        BY <3>2, <3>3
  <2>2. QED
      BY <2>1 DEF Announced, Replayable
<1>8. QED
    BY <1>5, <1>6, <1>7

LEMMA InvStep == OrgInv /\ [OrgNext]_orgVars => OrgInv'
<1> SUFFICES ASSUME OrgInv, [OrgNext]_orgVars PROVE OrgInv'
    OBVIOUS
<1>1. CASE UNCHANGED orgVars
    BY <1>1 DEF orgVars, busVars, historyVars, OrgInv, OrgTypeOK, LastPlaces, JobKind,
      Announced, Replayable, SnapshotKept, Heard, EventsAgree
<1>2. CASE OrgNext
    BY <1>2, BeginStep, CompareStep, CommitStep, SubscribeStep, UnsubscribeStep,
      ReplayStep, RestartStep DEF OrgNext
<1>3. QED
    BY <1>1, <1>2

THEOREM OrgInvHolds == OrgSpec => []OrgInv
BY InvInit, InvStep, PTL DEF OrgSpec

-----------------------------------------------------------------------------
(* What follows *)

\* The tables, the snapshot, the reconciliation and the bus are what the code
\* takes them for, and an event says REMOVED exactly when nothing is left.
THEOREM OrgTyped == OrgSpec => []OrgTypeOK
<1>1. OrgInv => OrgTypeOK
    BY DEF OrgInv
<1>2. QED
    BY <1>1, OrgInvHolds, PTL

\* The table of events, read in order, leads to the snapshot of every entity
\* whose events were not cut off, for organizations of any size.
THEOREM EventsLeadToSnapshot == OrgSpec => []Replayable
<1>1. OrgInv => Replayable
    BY DEF OrgInv, Announced, Replayable
<1>2. QED
    BY <1>1, OrgInvHolds, PTL

\* A restart finds each kind as its last reconciliation left it, unless the
\* save of that kind raised.
THEOREM SnapshotSurvives == OrgSpec => []SnapshotKept
<1>1. OrgInv => SnapshotKept
    BY DEF OrgInv
<1>2. QED
    BY <1>1, OrgInvHolds, PTL

\* A subscriber that heard all events of a kind knows what the table says,
\* whoever else subscribes, leaves or raises.
THEOREM SubscribersAgree == OrgSpec => []EventsAgree
<1>1. OrgInv => EventsAgree
    BY DEF OrgInv
<1>2. QED
    BY <1>1, OrgInvHolds, PTL

=============================================================================
