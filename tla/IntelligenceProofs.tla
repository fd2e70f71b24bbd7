------------------------- MODULE IntelligenceProofs -------------------------
(***************************************************************************)
(* What the platform concludes about an organization and its people, for   *)
(* every list of entries and every set of members: what the organization   *)
(* graph drops is reported and its paths agree with the entries where      *)
(* nothing is, and the walks, depths and totals of the reporting structure *)
(* are what its definitions say; about its situations, for every list of   *)
(* signals: decisions keep to their scope, are ranked by their strength    *)
(* and explained from their own evidence; and about its IT portfolios: the *)
(* cycles found, the impact of what is blocked, the missing hours and the  *)
(* top risk are those of the definitions.  Each is a function of what was  *)
(* listed, so that most of this is about operators, in any state.          *)
(***************************************************************************)
EXTENDS OrganizationGraph, ReportingStructure, DecisionFusion, ITEdition, ServicesProofs

(* Iteration.                                                                *)

\* The states a step leads to from a first one, n times.
IterStep(f, step, base, k) == IF k = 0 THEN base ELSE step[f[k - 1]]
IsIter(f, step, base, n) == f = [k \in 0 .. n |-> IterStep(f, step, base, k)]

LEMMA IterExists ==
  ASSUME NEW n \in Nat, NEW step, NEW base
  PROVE  \E f : IsIter(f, step, base, n)
<1> DEFINE UpTo(f, m) == \A k \in 0 .. n : k <= m => f[k] = IterStep(f, step, base, k)
           S == {m \in Nat : \E f : f = [k \in 0 .. n |-> f[k]] /\ UpTo(f, m)}
<1>1. 0 \in S
  <2> DEFINE f == [k \in 0 .. n |-> base]
  <2>1. f = [k \in 0 .. n |-> f[k]]
    OBVIOUS
  <2>2. UpTo(f, 0)
    <3> SUFFICES ASSUME NEW k \in 0 .. n, k <= 0 PROVE f[k] = IterStep(f, step, base, k)
      OBVIOUS
    <3>1. k = 0
      OBVIOUS
    <3> QED
      BY <3>1 DEF IterStep
  <2> HIDE DEF f
  <2> QED
    BY <2>1, <2>2
<1>2. ASSUME NEW m \in S PROVE m + 1 \in S
  <2>1. PICK f : f = [k \in 0 .. n |-> f[k]] /\ UpTo(f, m)
    OBVIOUS
  <2> DEFINE g == [k \in 0 .. n |-> IF k <= m THEN f[k] ELSE step[f[k - 1]]]
  <2>2. ASSUME NEW k \in 0 .. n, k <= m + 1 PROVE g[k] = IterStep(g, step, base, k)
    <3>1. CASE k = 0
      BY <2>1, <3>1, m \in Nat DEF IterStep
    <3>2. CASE k # 0
      <4>1. k - 1 \in 0 .. n /\ k - 1 <= m
        BY <2>2, <3>2, m \in Nat
      <4>2. g[k - 1] = f[k - 1]
        BY <4>1
      <4>3. CASE k <= m
        BY <2>1, <3>2, <4>2, <4>3 DEF IterStep
      <4>4. CASE ~(k <= m)
        BY <3>2, <4>2, <4>4 DEF IterStep
      <4> QED
        BY <4>3, <4>4
    <3> QED
      BY <3>1, <3>2
  <2>3. g = [k \in 0 .. n |-> g[k]]
    OBVIOUS
  <2>4. m + 1 \in Nat
    OBVIOUS
  <2> HIDE DEF g
  <2> QED
    BY <2>2, <2>3, <2>4
<1>3. S = Nat
  <2> HIDE DEF S
  <2>1. S \in SUBSET Nat
    BY DEF S
  <2> QED
    BY <1>1, <1>2, <2>1, Induction
<1> QED
  <2>1. n \in S
    BY <1>3
  <2>2. PICK f : f = [k \in 0 .. n |-> f[k]] /\ UpTo(f, n)
    BY <2>1
  <2>3. \A k \in 0 .. n : f[k] = IterStep(f, step, base, k)
    BY <2>2
  <2> QED
    BY <2>2, <2>3 DEF IsIter

\* What holds of the first and is kept by a step holds of all; one step leads to the next.
LEMMA IterRuns ==
  ASSUME NEW n \in Nat, NEW W, NEW step \in [W -> W], NEW base \in W, NEW f, IsIter(f, step, base, n)
  PROVE  /\ f \in [0 .. n -> W] /\ f[0] = base
         /\ \A k \in Nat : k + 1 <= n => f[k + 1] = step[f[k]]
<1>1. \A k \in 0 .. n : f[k] = IterStep(f, step, base, k)
  BY DEF IsIter
<1>2. f[0] = base
  BY <1>1 DEF IterStep
<1>3. ASSUME NEW k \in Nat, k + 1 <= n PROVE f[k + 1] = step[f[k]]
  <2>1. k + 1 \in 0 .. n /\ k + 1 # 0 /\ (k + 1) - 1 = k
    BY <1>3
  <2> QED
    BY <1>1, <2>1 DEF IterStep
<1> DEFINE S == {k \in Nat : k <= n => f[k] \in W}
<1>4. 0 \in S
  BY <1>2
<1>5. ASSUME NEW k \in S PROVE k + 1 \in S
  <2>1. k + 1 <= n => f[k] \in W
    OBVIOUS
  <2> QED
    BY <1>3, <2>1
<1>6. \A k \in 0 .. n : f[k] \in W
  <2> HIDE DEF S
  <2>1. S \in SUBSET Nat
    BY DEF S
  <2>2. S = Nat
    BY <1>4, <1>5, <2>1, Induction
  <2> QED
    BY <2>2 DEF S
<1>7. f \in [0 .. n -> W]
  <2>1. f = [k \in 0 .. n |-> IterStep(f, step, base, k)]
    BY DEF IsIter
  <2> QED
    BY <1>1, <1>6, <2>1
<1> QED
  BY <1>2, <1>3, <1>7

\* As many as there are numbers before j: the values of what repeats none of them.
LEMMA ValuesCount ==
  ASSUME NEW c, NEW j \in Nat, NEW T, T = {c[i] : i \in 0 .. j - 1},
         \A h, i \in 0 .. j - 1 : c[h] = c[i] => h = i
  PROVE  IsFiniteSet(T) /\ Cardinality(T) = j
<1> DEFINE f == [i \in 0 .. j - 1 |-> c[i]]
<1>1. IsFiniteSet(0 .. j - 1) /\ Cardinality(0 .. j - 1) = j
  <2>1. 0 \in Int /\ j - 1 \in Int
    OBVIOUS
  <2>2. IsFiniteSet(0 .. j - 1) /\ Cardinality(0 .. j - 1) = IF 0 > j - 1 THEN 0 ELSE j - 1 - 0 + 1
    BY <2>1, FS_Interval
  <2>3. (IF 0 > j - 1 THEN 0 ELSE j - 1 - 0 + 1) = j
    OBVIOUS
  <2> QED
    BY <2>2, <2>3
<1>2. f \in Surjection(0 .. j - 1, T)
  BY DEF Surjection
<1>3. f \in Injection(0 .. j - 1, T)
  BY DEF Injection, IsInjective
<1> HIDE DEF f
<1>4. IsFiniteSet(T) /\ Cardinality(T) = Cardinality(0 .. j - 1)
  BY <1>1, <1>2, <1>3, FS_Surjection
<1> QED
  BY <1>1, <1>4

\* What is in a finite set of numbers and no less than the others is its maximum.
LEMMA MaxIs ==
  ASSUME NEW S \in SUBSET Nat, IsFiniteSet(S), NEW n \in S, \A i \in S : i <= n
  PROVE  Max(S) = n
<1>1. Max(S) \in S /\ Max(S) >= n
  BY GreatestOf
<1>2. PICK m \in S : m = Max(S)
  BY <1>1
<1> QED
  BY <1>1, <1>2

(* Who reports to whom.                                                      *)

StructureIds == MemberIds \cup Strangers

LEMMA StructureInitInv == StructureInit => StructureTypeOK
  BY StructureAssumption DEF StructureInit, StructureTypeOK, Present

LEMMA StructureInvStep == StructureTypeOK /\ [StructureNext]_structureVars => StructureTypeOK'
<1> SUFFICES ASSUME StructureTypeOK, [StructureNext]_structureVars PROVE StructureTypeOK'
  OBVIOUS
<1>1. ASSUME NEW m \in MemberIds, NEW boss \in MemberIds \cup Strangers \cup {NoManager},
             NEW work \in Workloads, Join(m, boss, work)
      PROVE  StructureTypeOK'
  <2>1. /\ managers' = [managers EXCEPT ![m] = boss]
        /\ workload' = [workload EXCEPT ![m] = work]
    BY <1>1 DEF Join
  <2>2. /\ managers' \in [MemberIds -> MemberIds \cup Strangers \cup {NoManager, NoMember}]
        /\ workload' \in [MemberIds -> Workloads \cup {0}]
    BY <2>1 DEF StructureTypeOK
  <2>3. boss # NoMember
    BY StructureAssumption
  <2>4. ASSUME NEW o \in MemberIds, o \notin Present' PROVE workload'[o] = 0
    BY <2>1, <2>3, <2>4 DEF StructureTypeOK, Present
  <2> QED
    BY <2>2, <2>4 DEF StructureTypeOK
<1>2. CASE UNCHANGED structureVars
  BY <1>2 DEF structureVars, StructureTypeOK, Present
<1> QED
  BY <1>1, <1>2 DEF StructureNext

LEMMA MembersAre ==
  ASSUME StructureTypeOK
  PROVE  /\ Managed \subseteq Present /\ Present \subseteq MemberIds
         /\ \A x \in Managed : managers[x] \in StructureIds
         /\ IsFiniteSet(MemberIds) /\ Cardinality(MemberIds) \in Nat
         /\ IsFiniteSet(Present) /\ Cardinality(Present) \in Nat
         /\ IsFiniteSet(Managed) /\ Cardinality(Managed) \in Nat
<1>1. Managed \subseteq Present /\ Present \subseteq MemberIds
  BY DEF Managed, Present
<1>2. \A x \in Managed : managers[x] \in StructureIds
  BY DEF StructureTypeOK, Managed, Present, StructureIds
<1>3. IsFiniteSet(MemberIds)
  BY StructureAssumption
<1> QED
  BY <1>1, <1>2, <1>3, FS_Subset, FS_CardinalityType

\* The managers above a member, one after the other; the last one stays.
Up == [x \in StructureIds |-> IF x \in Managed THEN managers[x] ELSE x]
IsChain(c, m) ==
  /\ c \in [0 .. Cardinality(MemberIds) -> StructureIds] /\ c[0] = m
  /\ \A k \in Nat : k + 1 <= Cardinality(MemberIds) => c[k + 1] = Up[c[k]]

LEMMA ChainExists ==
  ASSUME StructureTypeOK, NEW m \in MemberIds
  PROVE  \E c : IsChain(c, m)
<1>1. Up \in [StructureIds -> StructureIds] /\ m \in StructureIds /\ Cardinality(MemberIds) \in Nat
  BY MembersAre DEF Up, StructureIds
<1>2. PICK c : IsIter(c, Up, m, Cardinality(MemberIds))
  BY <1>1, IterExists
<1>3. IsChain(c, m)
  BY <1>1, <1>2, IterRuns DEF IsChain
<1> QED
  BY <1>3

\* The first j of a chain: managed, each of them once.
First(c, j) == {c[i] : i \in 0 .. j - 1}
Climbs(c, j) ==
  First(c, j) \subseteq Managed /\ \A h, i \in 0 .. j - 1 : c[h] = c[i] => h = i
\* There the walk stops.
Stops(c, j) == Climbs(c, j) /\ c[j] \notin Managed \ First(c, j)

LEMMA FirstGrows ==
  ASSUME NEW c, NEW j \in Nat
  PROVE  /\ First(c, 0) = {} /\ First(c, j + 1) = First(c, j) \cup {c[j]}
         /\ Climbs(c, 0)
         /\ Climbs(c, j) /\ c[j] \in Managed \ First(c, j) => Climbs(c, j + 1)
<1>1. First(c, 0) = {} /\ Climbs(c, 0)
  BY DEF First, Climbs
<1>2. \A i : i \in 0 .. (j + 1) - 1 <=> i \in 0 .. j - 1 \/ i = j
  OBVIOUS
<1>3. First(c, j + 1) = First(c, j) \cup {c[j]}
  BY <1>2 DEF First
<1>4. ASSUME Climbs(c, j), c[j] \in Managed \ First(c, j) PROVE Climbs(c, j + 1)
  <2>1. \A i \in 0 .. j - 1 : c[i] # c[j]
    BY <1>4 DEF First
  <2>2. \A h, i \in 0 .. j - 1 : c[h] = c[i] => h = i
    BY <1>4 DEF Climbs
  <2>3. \A h, i \in 0 .. (j + 1) - 1 : c[h] = c[i] => h = i
    BY <1>2, <2>1, <2>2
  <2>4. First(c, j + 1) \subseteq Managed
    BY <1>3, <1>4 DEF Climbs
  <2> QED
    BY <2>3, <2>4 DEF Climbs
<1> QED
  BY <1>1, <1>3, <1>4

\* What a walk has when it has taken k steps.
Climbing(current, seen) == [current |-> current, seen |-> seen]
Passed(walk, c, k) ==
  \E j \in 0 .. k : walk = Climbing(c[j], First(c, j)) /\ Climbs(c, j) /\ (j = k \/ Stops(c, j))

LEMMA PassedStep ==
  ASSUME StructureTypeOK, NEW m \in MemberIds, NEW c, IsChain(c, m), NEW k \in Nat,
         k + 1 <= Cardinality(MemberIds), NEW walk, Passed(walk, c, k)
  PROVE  Passed(Climbed(walk), c, k + 1)
<1>1. PICK j \in 0 .. k : walk = Climbing(c[j], First(c, j)) /\ Climbs(c, j) /\ (j = k \/ Stops(c, j))
  BY DEF Passed
<1>2. walk.current = c[j] /\ walk.seen = First(c, j) /\ j \in Nat /\ j \in 0 .. k + 1
  BY <1>1 DEF Climbing
<1>3. CASE Stops(c, j)
  <2>1. Climbed(walk) = walk
    BY <1>2, <1>3 DEF Climbed, Stops
  <2> QED
    BY <1>1, <1>2, <1>3, <2>1 DEF Passed
<1>4. CASE ~Stops(c, j)
  <2>1. j = k /\ c[j] \in Managed \ First(c, j)
    BY <1>1, <1>4 DEF Stops
  <2>2. Climbed(walk) = Climbing(managers[c[j]], First(c, j) \cup {c[j]})
    BY <1>2, <2>1 DEF Climbed, Climbing
  <2>3. c[j + 1] = managers[c[j]]
    <3>1. c[j + 1] = Up[c[j]] /\ c[j] \in StructureIds
      BY <2>1, MembersAre DEF IsChain, StructureIds
    <3> QED
      BY <2>1, <3>1 DEF Up
  <2>4. First(c, j + 1) = First(c, j) \cup {c[j]} /\ Climbs(c, j + 1)
    BY <1>1, <1>2, <2>1, FirstGrows
  <2>5. j + 1 \in 0 .. k + 1 /\ j + 1 = k + 1
    BY <2>1
  <2>6. Climbed(walk) = Climbing(c[j + 1], First(c, j + 1))
    BY <2>2, <2>3, <2>4
  <2> QED
    BY <2>4, <2>5, <2>6 DEF Passed
<1> QED
  BY <1>3, <1>4

\* No member is passed twice, so that the walk stops before it has taken more steps than there
\* are members; it raises if it stopped where it had been.
LEMMA ClimbIs ==
  ASSUME StructureTypeOK, NEW m \in MemberIds, NEW c, IsChain(c, m)
  PROVE  \E j \in 0 .. Cardinality(MemberIds) :
           Stops(c, j) /\ Climb(m) = (IF c[j] \in First(c, j) THEN -1 ELSE j)
<1> DEFINE n == Cardinality(MemberIds)
           P(w) == w = [k \in 0 .. n |-> IF k = 0 THEN [current |-> m, seen |-> {}]
                                         ELSE Climbed(w[k - 1])]
           R == CHOOSE w : P(w)
           last == R[n]
<1>1. n \in Nat
  BY MembersAre
<1>2. Climb(m) = IF last.current \in last.seen THEN -1 ELSE Cardinality(last.seen)
  BY DEF Climb
<1> DEFINE walks == [current : StructureIds, seen : SUBSET MemberIds]
           step == [w \in walks |-> Climbed(w)]
           base == [current |-> m, seen |-> {}]
<1>3. step \in [walks -> walks] /\ base \in walks
  <2>1. ASSUME NEW w \in walks PROVE Climbed(w) \in walks
    <3>1. CASE w.current \in Managed \ w.seen
      <4>1. managers[w.current] \in StructureIds /\ w.seen \cup {w.current} \in SUBSET MemberIds
        BY <3>1, MembersAre
      <4>2. Climbed(w) = [current |-> managers[w.current], seen |-> w.seen \cup {w.current}]
        BY <3>1 DEF Climbed
      <4> QED
        BY <4>1, <4>2
    <3>2. CASE w.current \notin Managed \ w.seen
      BY <3>2 DEF Climbed
    <3> QED
      BY <3>1, <3>2
  <2>2. base \in walks
    BY DEF StructureIds
  <2> QED
    BY <2>1, <2>2
<1>4. PICK f : IsIter(f, step, base, n)
  BY <1>1, IterExists
<1>5. P(f)
  <2> HIDE DEF walks, base
  <2>1. f \in [0 .. n -> walks]
    <3> HIDE DEF n, step
    <3> QED
      BY <1>1, <1>3, <1>4, IterRuns
  <2>2. f = [k \in 0 .. n |-> IterStep(f, step, base, k)]
    BY <1>4 DEF IsIter
  <2>3. ASSUME NEW k \in 0 .. n
        PROVE  IterStep(f, step, base, k) = IF k = 0 THEN base ELSE Climbed(f[k - 1])
    <3>1. CASE k = 0
      BY <3>1 DEF IterStep
    <3>2. CASE k # 0
      <4>1. k - 1 \in 0 .. n
        BY <1>1, <3>2
      <4>2. f[k - 1] \in walks
        BY <2>1, <4>1
      <4> QED
        BY <3>2, <4>2 DEF IterStep
    <3> QED
      BY <3>1, <3>2
  <2>4. f = [k \in 0 .. n |-> IF k = 0 THEN base ELSE Climbed(f[k - 1])]
    BY <2>2, <2>3
  <2> QED
    BY <2>4 DEF base
<1>6. PICK w : w = R
  OBVIOUS
<1>7. P(w)
  <2> HIDE DEF P
  <2> QED
    BY <1>5, <1>6, Zenon
<1>8. last = w[n]
  BY <1>6
<1> HIDE DEF R, last, step, walks
<1>9. w[0] = Climbing(m, {}) /\ \A k \in Nat : k + 1 <= n => w[k + 1] = Climbed(w[k])
  <2>1. 0 \in 0 .. n
    BY <1>1
  <2>2. ASSUME NEW k \in Nat, k + 1 <= n PROVE w[k + 1] = Climbed(w[k])
    <3>1. k + 1 \in 0 .. n /\ k + 1 # 0 /\ (k + 1) - 1 = k
      BY <1>1, <2>2
    <3> QED
      BY <1>7, <3>1
  <2> QED
    BY <1>7, <2>1, <2>2 DEF Climbing
<1> HIDE DEF P, n
<1> DEFINE S == {k \in Nat : k <= n => Passed(w[k], c, k)}
<1>10. 0 \in S
  <2>1. c[0] = m
    BY DEF IsChain
  <2>2. First(c, 0) = {} /\ Climbs(c, 0) /\ 0 \in 0 .. 0
    BY FirstGrows
  <2>3. Passed(w[0], c, 0)
    BY <1>9, <2>1, <2>2 DEF Passed
  <2> QED
    BY <2>3
<1>11. ASSUME NEW k \in S PROVE k + 1 \in S
  <2>1. k \in Nat /\ k + 1 \in Nat
    OBVIOUS
  <2> SUFFICES ASSUME k + 1 <= n PROVE Passed(w[k + 1], c, k + 1)
    BY <2>1
  <2>2. Passed(w[k], c, k)
    BY <1>1, <2>1
  <2>3. Passed(Climbed(w[k]), c, k + 1)
    BY <2>1, <2>2, PassedStep DEF n
  <2> QED
    BY <1>9, <2>1, <2>3
<1>12. Passed(w[n], c, n)
  <2> HIDE DEF S
  <2>1. S \in SUBSET Nat
    BY DEF S
  <2>2. S = Nat
    BY <1>10, <1>11, <2>1, Induction
  <2> QED
    BY <1>1, <2>2 DEF S
<1>13. PICK j \in 0 .. n : w[n] = Climbing(c[j], First(c, j)) /\ Climbs(c, j) /\ (j = n \/ Stops(c, j))
  BY <1>12 DEF Passed
<1>14. j \in Nat
  BY <1>1
<1>15. IsFiniteSet(First(c, j)) /\ Cardinality(First(c, j)) = j
  BY <1>13, <1>14, ValuesCount DEF First, Climbs
<1>16. Stops(c, j)
  <2> SUFFICES ASSUME ~Stops(c, j) PROVE FALSE
    OBVIOUS
  <2>1. j = n /\ Climbs(c, j + 1)
    BY <1>13, <1>14, FirstGrows DEF Stops
  <2>2. PICK next \in Nat : next = j + 1
    BY <1>14
  <2>3. Cardinality(First(c, j + 1)) = j + 1
    <3>1. First(c, next) = {c[i] : i \in 0 .. next - 1}
      BY DEF First
    <3>2. \A h, i \in 0 .. next - 1 : c[h] = c[i] => h = i
      BY <2>1, <2>2 DEF Climbs
    <3>3. Cardinality(First(c, next)) = next
      BY <3>1, <3>2, ValuesCount
    <3> QED
      BY <2>2, <3>3
  <2>4. First(c, j + 1) \subseteq MemberIds
    BY <2>1, MembersAre DEF Climbs
  <2>5. Cardinality(First(c, j + 1)) <= n
    BY <2>4, MembersAre, FS_Subset DEF n
  <2> QED
    BY <1>1, <2>1, <2>3, <2>5
<1>17. last.current = c[j] /\ last.seen = First(c, j)
  BY <1>8, <1>13 DEF Climbing
<1> QED
  BY <1>2, <1>15, <1>16, <1>17 DEF n

\* The managers above a member, level by level: those of a chain while it is of managed members.
LevelsOf(a, m) ==
  /\ a[0] = {m}
  /\ \A k \in Nat : k + 1 <= Cardinality(MemberIds) =>
       a[k + 1] = {managers[x] : x \in a[k] \cap Managed}

LEMMA SuperiorsAre ==
  ASSUME StructureTypeOK, NEW m \in MemberIds
  PROVE  \E a : LevelsOf(a, m) /\ Superiors(m) = UNION {a[n] : n \in 1 .. Cardinality(MemberIds)}
<1> DEFINE n == Cardinality(MemberIds)
           P(a) == a = [k \in 0 .. n |-> IF k = 0 THEN {m}
                                         ELSE {managers[x] : x \in a[k - 1] \cap Managed}]
           R == CHOOSE a : P(a)
           step == [X \in SUBSET StructureIds |-> {managers[x] : x \in X \cap Managed}]
<1>1. n \in Nat
  BY MembersAre
<1>2. Superiors(m) = UNION {R[k] : k \in 1 .. n}
  BY DEF Superiors
<1>3. step \in [SUBSET StructureIds -> SUBSET StructureIds] /\ {m} \in SUBSET StructureIds
  <2>1. ASSUME NEW X \in SUBSET StructureIds
        PROVE  {managers[x] : x \in X \cap Managed} \in SUBSET StructureIds
    BY MembersAre
  <2> QED
    BY <2>1 DEF StructureIds
<1>4. PICK f : IsIter(f, step, {m}, n)
  BY <1>1, IterExists
<1>5. P(f)
  <2>1. f \in [0 .. n -> SUBSET StructureIds]
    <3> HIDE DEF n, step
    <3> QED
      BY <1>1, <1>3, <1>4, IterRuns
  <2>2. f = [k \in 0 .. n |-> IterStep(f, step, {m}, k)]
    BY <1>4 DEF IsIter
  <2>3. ASSUME NEW k \in 0 .. n
        PROVE  IterStep(f, step, {m}, k)
                 = IF k = 0 THEN {m} ELSE {managers[x] : x \in f[k - 1] \cap Managed}
    <3>1. CASE k = 0
      BY <3>1 DEF IterStep
    <3>2. CASE k # 0
      <4>1. k - 1 \in 0 .. n
        BY <1>1, <3>2
      <4>2. f[k - 1] \in SUBSET StructureIds
        BY <2>1, <4>1
      <4> QED
        BY <3>2, <4>2 DEF IterStep
    <3> QED
      BY <3>1, <3>2
  <2> QED
    BY <2>2, <2>3
<1>6. PICK a : a = R
  OBVIOUS
<1>7. P(a)
  <2> HIDE DEF P
  <2> QED
    BY <1>5, <1>6, Zenon
<1> HIDE DEF R
<1>8. a[0] = {m}
  <2>1. 0 \in 0 .. n
    BY <1>1
  <2> QED
    BY <1>7, <2>1
<1>9. ASSUME NEW k \in Nat, k + 1 <= n PROVE a[k + 1] = {managers[x] : x \in a[k] \cap Managed}
  <2>1. k + 1 \in 0 .. n /\ k + 1 # 0 /\ (k + 1) - 1 = k
    BY <1>1, <1>9
  <2> QED
    BY <1>7, <2>1
<1>10. LevelsOf(a, m)
  BY <1>8, <1>9 DEF LevelsOf
<1> QED
  BY <1>2, <1>6, <1>10

LEMMA LevelsOfChain ==
  ASSUME StructureTypeOK, NEW m \in MemberIds, NEW c, IsChain(c, m), NEW a, LevelsOf(a, m),
         NEW k \in Nat, k <= Cardinality(MemberIds)
  PROVE  a[k] = IF First(c, k) \subseteq Managed THEN {c[k]} ELSE {}
<1> DEFINE n == Cardinality(MemberIds)
           S == {h \in Nat : h <= n =>
                   a[h] = IF First(c, h) \subseteq Managed THEN {c[h]} ELSE {}}
<1>1. n \in Nat
  BY MembersAre
<1>2. 0 \in S
  <2>1. c[0] = m /\ a[0] = {m} /\ First(c, 0) = {}
    BY FirstGrows DEF IsChain, LevelsOf
  <2> QED
    BY <2>1
<1>3. ASSUME NEW h \in S PROVE h + 1 \in S
  <2>1. h \in Nat /\ h + 1 \in Nat
    OBVIOUS
  <2> SUFFICES ASSUME h + 1 <= n
               PROVE  a[h + 1] = IF First(c, h + 1) \subseteq Managed THEN {c[h + 1]} ELSE {}
    BY <2>1
  <2>2. a[h] = IF First(c, h) \subseteq Managed THEN {c[h]} ELSE {}
    BY <1>1, <2>1
  <2>3. a[h + 1] = {managers[x] : x \in a[h] \cap Managed}
    BY <2>1 DEF LevelsOf
  <2>4. First(c, h + 1) = First(c, h) \cup {c[h]}
    BY <2>1, FirstGrows
  <2>5. CASE First(c, h + 1) \subseteq Managed
    <3>1. c[h] \in Managed /\ a[h] = {c[h]}
      BY <2>2, <2>4, <2>5
    <3>2. c[h + 1] = managers[c[h]]
      <4>1. c[h + 1] = Up[c[h]]
        BY <2>1 DEF IsChain
      <4>2. c[h] \in StructureIds
        BY <3>1, MembersAre DEF StructureIds
      <4> QED
        BY <3>1, <4>1, <4>2 DEF Up
    <3>3. a[h + 1] = {managers[c[h]]}
      BY <2>3, <3>1
    <3> QED
      BY <2>5, <3>2, <3>3
  <2>6. CASE ~(First(c, h + 1) \subseteq Managed)
    <3>1. a[h] \cap Managed = {}
      BY <2>2, <2>4, <2>6
    <3> QED
      BY <2>3, <2>6, <3>1
  <2> QED
    BY <2>5, <2>6
<1>4. S = Nat
  <2> HIDE DEF S
  <2>1. S \in SUBSET Nat
    BY DEF S
  <2> QED
    BY <1>2, <1>3, <2>1, Induction
<1> QED
  BY <1>4

\* A walk that stops where it has not been passed all superiors there are, and the member is not
\* among them.
LEMMA WalkPassesSuperiors ==
  ASSUME StructureTypeOK, NEW m \in MemberIds, NEW c, IsChain(c, m),
         NEW j \in 0 .. Cardinality(MemberIds), Stops(c, j), c[j] \notin First(c, j)
  PROVE  /\ m \notin Superiors(m)
         /\ IsFiniteSet(Superiors(m)) /\ Cardinality(Superiors(m)) = j
         /\ j <= Cardinality(Managed) /\ c[j] \notin Managed
         /\ j # 0 => c[j] \in Named
<1> DEFINE n == Cardinality(MemberIds)
<1>1. n \in Nat /\ j \in Nat /\ j <= n
  BY MembersAre
<1>2. /\ First(c, j) \subseteq Managed /\ c[j] \notin Managed
      /\ \A h, i \in 0 .. j - 1 : c[h] = c[i] => h = i
  BY DEF Stops, Climbs
<1>3. PICK a : LevelsOf(a, m) /\ Superiors(m) = UNION {a[k] : k \in 1 .. n}
  BY SuperiorsAre
<1>4. \A h, i \in 0 .. j : c[h] = c[i] => h = i
  <2>1. \A i \in 0 .. j - 1 : c[i] # c[j]
    BY <1>2 DEF First
  <2>2. \A i \in 0 .. j : i \in 0 .. j - 1 \/ i = j
    BY <1>1
  <2> QED
    BY <1>2, <2>1, <2>2
<1>5. ASSUME NEW k \in 1 .. n PROVE a[k] = IF k <= j THEN {c[k]} ELSE {}
  <2>1. k \in Nat /\ k <= n
    BY <1>1
  <2>2. a[k] = IF First(c, k) \subseteq Managed THEN {c[k]} ELSE {}
    BY <1>3, <2>1, LevelsOfChain
  <2>3. CASE k <= j
    <3>1. \A i \in 0 .. k - 1 : i \in 0 .. j - 1
      BY <1>1, <2>1, <2>3
    <3>2. First(c, k) \subseteq Managed
      BY <1>2, <3>1 DEF First
    <3> QED
      BY <2>2, <2>3, <3>2
  <2>4. CASE ~(k <= j)
    <3>1. j \in 0 .. k - 1
      BY <1>1, <2>1, <2>4
    <3>2. c[j] \in First(c, k)
      BY <3>1 DEF First
    <3> QED
      BY <1>2, <2>2, <2>4, <3>2
  <2> QED
    BY <2>3, <2>4
<1> DEFINE d == [i \in 0 .. j - 1 |-> c[i + 1]]
           T == {d[i] : i \in 0 .. j - 1}
<1>6. Superiors(m) = T
  <2>1. \A x : x \in Superiors(m) <=> \E k \in 1 .. n : x \in a[k]
    BY <1>3
  <2>2. ASSUME NEW x, NEW k \in 1 .. n, x \in a[k] PROVE x \in T
    <3>1. k <= j /\ x = c[k]
      BY <1>5, <2>2
    <3>2. k - 1 \in 0 .. j - 1 /\ (k - 1) + 1 = k
      BY <1>1, <3>1
    <3>3. x = d[k - 1]
      BY <3>1, <3>2
    <3> QED
      BY <3>2, <3>3
  <2>3. ASSUME NEW i \in 0 .. j - 1 PROVE d[i] \in Superiors(m)
    <3>1. i + 1 \in 1 .. n /\ i + 1 <= j
      BY <1>1
    <3>2. a[i + 1] = {c[i + 1]}
      BY <1>5, <3>1
    <3> QED
      BY <2>1, <3>1, <3>2
  <2> QED
    BY <2>1, <2>2, <2>3
<1>7. \A h, i \in 0 .. j - 1 : d[h] = d[i] => h = i
  <2> SUFFICES ASSUME NEW h \in 0 .. j - 1, NEW i \in 0 .. j - 1, d[h] = d[i] PROVE h = i
    OBVIOUS
  <2>1. h + 1 \in 0 .. j /\ i + 1 \in 0 .. j /\ c[h + 1] = c[i + 1]
    BY <1>1
  <2>2. h + 1 = i + 1
    BY <1>4, <2>1
  <2> QED
    BY <2>2
<1>8. m \notin Superiors(m)
  <2>1. c[0] = m /\ 0 \in 0 .. j
    BY <1>1 DEF IsChain
  <2>2. ASSUME NEW i \in 0 .. j - 1, d[i] = m PROVE FALSE
    <3>1. i + 1 \in 0 .. j /\ c[i + 1] = c[0]
      BY <1>1, <2>1, <2>2
    <3>2. i + 1 = 0
      BY <1>4, <2>1, <3>1
    <3> QED
      BY <3>2
  <2> QED
    BY <1>6, <2>2
<1>9. j # 0 => c[j] \in Named
  <2> SUFFICES ASSUME j # 0 PROVE c[j] \in Named
    OBVIOUS
  <2>1. j - 1 \in Nat /\ (j - 1) + 1 = j /\ j - 1 \in 0 .. j - 1
    BY <1>1
  <2>2. c[j - 1] \in Managed
    BY <1>2, <2>1 DEF First
  <2>3. c[j] = Up[c[j - 1]]
    BY <1>1, <2>1 DEF IsChain
  <2>4. c[j] = managers[c[j - 1]]
    <3>1. c[j - 1] \in StructureIds
      BY <2>2, MembersAre DEF StructureIds
    <3> QED
      BY <2>2, <2>3, <3>1 DEF Up
  <2> QED
    BY <2>2, <2>4 DEF Named
<1>10. j <= Cardinality(Managed)
  <2>1. Cardinality(First(c, j)) = j
    BY <1>1, <1>2, ValuesCount DEF First
  <2> QED
    BY <1>2, <2>1, MembersAre, FS_Subset
<1> HIDE DEF d
<1>11. IsFiniteSet(T) /\ Cardinality(T) = j
  <2> HIDE DEF T
  <2>1. T = {d[i] : i \in 0 .. j - 1}
    BY DEF T
  <2> QED
    BY <1>1, <1>7, <2>1, ValuesCount
<1> QED
  BY <1>2, <1>6, <1>8, <1>9, <1>10, <1>11

\* A walk that stops where it has been stops at somebody who is among their own superiors.
LEMMA WalkMeetsItself ==
  ASSUME StructureTypeOK, NEW m \in MemberIds, NEW c, IsChain(c, m),
         NEW j \in 0 .. Cardinality(MemberIds), Stops(c, j), c[j] \in First(c, j)
  PROVE  c[j] \in Present /\ c[j] \in Superiors(c[j])
<1> DEFINE n == Cardinality(MemberIds)
<1>1. n \in Nat /\ j \in Nat /\ j <= n
  BY MembersAre
<1>2. First(c, j) \subseteq Managed
  BY DEF Stops, Climbs
<1>3. c[j] \in Present /\ c[j] \in MemberIds
  BY <1>2, MembersAre
<1>4. PICK i \in 0 .. j - 1 : c[i] = c[j]
  BY DEF First
<1>5. PICK a : LevelsOf(a, c[j]) /\ Superiors(c[j]) = UNION {a[k] : k \in 1 .. n}
  BY <1>3, SuperiorsAre
<1> DEFINE S == {t \in Nat : i + t <= j => c[i + t] \in a[t]}
<1>6. 0 \in S
  BY <1>4, <1>5 DEF LevelsOf
<1>7. ASSUME NEW t \in S PROVE t + 1 \in S
  <2>1. t \in Nat /\ t + 1 \in Nat
    OBVIOUS
  <2> SUFFICES ASSUME i + (t + 1) <= j PROVE c[i + (t + 1)] \in a[t + 1]
    BY <2>1
  <2>2. /\ i + t \in Nat /\ i + t \in 0 .. j - 1 /\ (i + t) + 1 = i + (t + 1)
        /\ (i + t) + 1 <= n /\ t + 1 <= n /\ i + t <= j
    BY <1>1, <2>1
  <2>3. c[i + t] \in a[t] /\ c[i + t] \in Managed
    BY <1>2, <2>2 DEF First
  <2>4. c[(i + t) + 1] = Up[c[i + t]]
    BY <2>2 DEF IsChain
  <2>5. c[(i + t) + 1] = managers[c[i + t]]
    <3>1. c[i + t] \in StructureIds
      BY <2>3, MembersAre DEF StructureIds
    <3> QED
      BY <2>3, <2>4, <3>1 DEF Up
  <2>6. a[t + 1] = {managers[x] : x \in a[t] \cap Managed}
    BY <1>5, <2>1, <2>2 DEF LevelsOf
  <2> QED
    BY <2>2, <2>3, <2>5, <2>6
<1>8. S = Nat
  <2> HIDE DEF S
  <2>1. S \in SUBSET Nat
    BY DEF S
  <2> QED
    BY <1>6, <1>7, <2>1, Induction
<1>9. j - i \in Nat /\ i + (j - i) = j /\ j - i \in 1 .. n
  BY <1>1
<1>10. c[j] \in a[j - i]
  <2>1. j - i \in S
    BY <1>8, <1>9
  <2> QED
    BY <1>9, <2>1
<1> QED
  BY <1>3, <1>5, <1>9, <1>10

\* Climbing from a member raises, and somebody is among their own superiors, or counts the
\* superiors of the member.
LEMMA ClimbCounts ==
  ASSUME StructureTypeOK, NEW m \in Present
  PROVE  \/ Climb(m) = -1 /\ \E x \in Present : x \in Superiors(x)
         \/ /\ Climb(m) \in Nat /\ Climb(m) <= Cardinality(Managed)
            /\ m \notin Superiors(m) /\ Cardinality(Superiors(m)) = Climb(m)
            /\ Named \subseteq Present => Unmanaged # {}
<1>1. m \in MemberIds /\ Cardinality(MemberIds) \in Nat
  BY MembersAre
<1>2. PICK c : IsChain(c, m)
  BY <1>1, ChainExists
<1>3. PICK j \in 0 .. Cardinality(MemberIds) :
           Stops(c, j) /\ Climb(m) = (IF c[j] \in First(c, j) THEN -1 ELSE j)
  BY <1>1, <1>2, ClimbIs
<1>4. CASE c[j] \in First(c, j)
  BY <1>1, <1>2, <1>3, <1>4, WalkMeetsItself
<1>5. CASE c[j] \notin First(c, j)
  <2>1. /\ m \notin Superiors(m) /\ Cardinality(Superiors(m)) = j
        /\ j <= Cardinality(Managed) /\ c[j] \notin Managed
        /\ j # 0 => c[j] \in Named
    BY <1>1, <1>2, <1>3, <1>5, WalkPassesSuperiors
  <2>2. Climb(m) = j /\ j \in Nat
    BY <1>1, <1>3, <1>5
  <2>3. ASSUME Named \subseteq Present PROVE Unmanaged # {}
    <3>1. c[j] \in Present
      <4>1. c[0] = m
        BY <1>2 DEF IsChain
      <4> QED
        BY <2>1, <2>3, <4>1
    <3> QED
      BY <2>1, <3>1 DEF Unmanaged
  <2> QED
    BY <2>1, <2>2, <2>3
<1> QED
  BY <1>4, <1>5

LEMMA DepthAlwaysExact == StructureTypeOK => DepthIsExact
<1> SUFFICES ASSUME StructureTypeOK PROVE DepthIsExact
  OBVIOUS
<1>1. CapacityRaises <=> \E m \in Present : m \in Superiors(m)
  <2>1. ASSUME CapacityRaises PROVE \E m \in Present : m \in Superiors(m)
    <3>1. PICK m \in Present : Climb(m) = -1
      BY <2>1 DEF CapacityRaises
    <3> QED
      BY <3>1, ClimbCounts
  <2>2. ASSUME NEW m \in Present, m \in Superiors(m) PROVE CapacityRaises
    BY <2>2, ClimbCounts DEF CapacityRaises
  <2> QED
    BY <2>1, <2>2
<1>2. ASSUME ~CapacityRaises
      PROVE  /\ \A m \in Present : Cardinality(Superiors(m)) = Climb(m)
             /\ \A m \in Present : Climb(m) \in Nat /\ Climb(m) <= Cardinality(Managed)
             /\ Present # {} /\ Named \subseteq Present => Unmanaged # {}
  BY <1>2, ClimbCounts DEF CapacityRaises
<1>3. ASSUME ~CapacityRaises
      PROVE  /\ HierarchyDepth = (IF Present = {} THEN 0
                                  ELSE Max({Cardinality(Superiors(m)) : m \in Present}))
             /\ HierarchyDepth <= Cardinality(Managed)
  <2> DEFINE D == {Climb(m) : m \in Present}
             n == Cardinality(Managed)
  <2>1. D = {Cardinality(Superiors(m)) : m \in Present}
    BY <1>2, <1>3
  <2>2. n \in Nat /\ D \in SUBSET Nat /\ D \in SUBSET (0 .. n) /\ \A d \in D : d <= n
    BY <1>2, <1>3, MembersAre
  <2>3. Present # {} => D # {}
    OBVIOUS
  <2>4. HierarchyDepth = IF Present = {} THEN 0 ELSE Max(D)
    BY DEF HierarchyDepth
  <2> HIDE DEF D, n
  <2>5. IsFiniteSet(D)
    <3>1. IsFiniteSet(0 .. n)
      BY <2>2, FS_Interval
    <3> QED
      BY <2>2, <3>1, FS_Subset
  <2>6. Present # {} => Max(D) \in D
    BY <2>2, <2>3, <2>5, GreatestOf
  <2>7. HierarchyDepth <= n
    BY <2>2, <2>4, <2>6
  <2> QED
    BY <2>1, <2>4, <2>7 DEF n
<1>4. CanBeBuilt /\ Present # {} => Unmanaged # {}
  BY <1>2 DEF CanBeBuilt, UnknownManagerRaises
<1> QED
  BY <1>1, <1>3, <1>4 DEF DepthIsExact

(* More about sums.                                                          *)

\* SumFunctionOnSet is such a sum.
LEMMA SumOnSetIs ==
  ASSUME NEW w, NEW S, IsFiniteSet(S)
  PROVE  \E g : IsSum(g, w, S) /\ SumFunctionOnSet(w, S) = g[S]
<1> DEFINE P(g) == g = [t \in SUBSET S |-> IF t = {} THEN 0
                                            ELSE w[Picked(t)] + g[t \ {Picked(t)}]]
<1>1. SumFunctionOnSet(w, S) = (CHOOSE g : P(g))[S]
  BY DEF SumFunctionOnSet, FoldFunctionOnSet, MapThenFoldSet, Picked
<1>2. \A g : P(g) <=> IsSum(g, w, S)
  BY DEF IsSum, SumStep
<1>3. PICK h : IsSum(h, w, S)
  BY SumExists
<1>4. PICK g : g = CHOOSE z : P(z)
  OBVIOUS
<1>5. P(g)
  <2>1. P(h)
    BY <1>2, <1>3
  <2> HIDE DEF P
  <2> QED
    BY <1>4, <2>1, Zenon
<1>6. IsSum(g, w, S)
  BY <1>2, <1>5
<1> HIDE DEF P
<1> QED
  BY <1>1, <1>4, <1>6

\* A sum over a part of a set is the same wherever it is taken.
LEMMA SumsAgree ==
  ASSUME NEW S, IsFiniteSet(S), NEW w, \A d \in S : w[d] \in Nat, NEW g, IsSum(g, w, S),
         NEW R \in SUBSET S, NEW f, IsSum(f, w, R)
  PROVE  f[R] = g[R] /\ f[R] \in Nat
<1> DEFINE h == [t \in SUBSET R |-> g[t]]
<1>1. IsSum(h, w, R)
  <2>1. \A t \in SUBSET S : g[t] = SumStep(g, w, t)
    BY DEF IsSum
  <2>2. ASSUME NEW t \in SUBSET R PROVE g[t] = SumStep(h, w, t)
    <3>1. t \ {Picked(t)} \in SUBSET R /\ t \in SUBSET S
      OBVIOUS
    <3> QED
      BY <2>1, <3>1 DEF SumStep
  <2>3. h = [t \in SUBSET R |-> SumStep(h, w, t)]
    <3> DEFINE q == [t \in SUBSET R |-> SumStep(h, w, t)]
    <3>1. \A t \in SUBSET R : h[t] = q[t]
      BY <2>2
    <3> QED
      BY <3>1
  <2> QED
    BY <2>3 DEF IsSum
<1>2. IsFiniteSet(R) /\ R \in SUBSET R /\ \A d \in R : w[d] \in Nat /\ w[d] <= w[d]
  BY FS_Subset
<1>3. h[R] = g[R]
  OBVIOUS
<1> HIDE DEF h
<1>4. f[R] <= h[R] /\ h[R] <= f[R]
  BY <1>1, <1>2, SumGrows
<1>5. f[R] \in Nat /\ h[R] \in Nat
  BY <1>1, <1>2, SumSplits DEF Splits
<1> QED
  BY <1>3, <1>4, <1>5

\* The sum over two sets without a common member is the sum of both.
LEMMA SumOfTwo ==
  ASSUME NEW S, IsFiniteSet(S), NEW w, \A d \in S : w[d] \in Nat, NEW g, IsSum(g, w, S),
         NEW A \in SUBSET S, NEW B \in SUBSET S, A \cap B = {}
  PROVE  g[A \cup B] = g[A] + g[B]
<1> DEFINE Adds(t) == t \cap A = {} => g[A \cup t] = g[A] + g[t]
           N == {n \in Nat : \A t \in SUBSET S : Cardinality(t) = n => Adds(t)}
<1> HIDE DEF Adds
<1>1. \A t \in SUBSET S : /\ IsFiniteSet(t) /\ Cardinality(t) \in Nat
                          /\ (Cardinality(t) = 0 <=> t = {}) /\ Splits(g, w, t)
  BY SumSplits, FS_Subset, FS_CardinalityType, FS_EmptySet
<1>2. 0 \in N
  <2>1. g[{}] = 0 /\ A \cup {} = A
    BY DEF IsSum, SumStep
  <2>2. g[A] \in Nat
    BY <1>1 DEF Splits
  <2>3. Adds({})
    BY <2>1, <2>2 DEF Adds
  <2> QED
    BY <1>1, <2>3
<1>3. ASSUME NEW n \in N PROVE n + 1 \in N
  <2>1. ASSUME NEW t \in SUBSET S, Cardinality(t) = n + 1 PROVE Adds(t)
    <3> SUFFICES ASSUME t \cap A = {} PROVE g[A \cup t] = g[A] + g[t]
      BY DEF Adds
    <3>1. PICK d \in t : TRUE
      BY <1>1, <2>1
    <3>2. PICK u : u = t \ {d}
      OBVIOUS
    <3>3. u \in SUBSET S /\ Cardinality(u) = n /\ d \in S /\ u \cap A = {}
      BY <1>1, <2>1, <3>1, <3>2, OneFewer
    <3>4. g[t] = w[d] + g[u]
      BY <1>1, <3>2 DEF Splits
    <3>5. PICK x : x = A \cup t
      OBVIOUS
    <3>6. d \in x /\ x \ {d} = A \cup u /\ x \in SUBSET S
      BY <3>1, <3>2, <3>5
    <3>7. g[x] = w[d] + g[A \cup u]
      BY <1>1, <3>6 DEF Splits
    <3>8. g[A \cup u] = g[A] + g[u]
      <4>1. Adds(u)
        BY <3>3
      <4> QED
        BY <3>3, <4>1 DEF Adds
    <3>9. w[d] \in Nat /\ g[A] \in Nat /\ g[u] \in Nat
      BY <1>1, <3>3 DEF Splits
    <3> QED
      BY <3>4, <3>5, <3>7, <3>8, <3>9
  <2> QED
    BY <2>1
<1>4. N = Nat
  <2> HIDE DEF N
  <2>1. N \in SUBSET Nat
    BY DEF N
  <2> QED
    BY <1>2, <1>3, <2>1, Induction
<1>5. Cardinality(B) \in N /\ B \cap A = {}
  BY <1>1, <1>4
<1> QED
  BY <1>5 DEF Adds

\* The sums over disjoint parts add up to the sum over their union.
LEMMA SumOfParts ==
  ASSUME NEW S, IsFiniteSet(S), NEW U, IsFiniteSet(U), NEW M, \A d \in S : M[d] \in SUBSET U,
         \A d, e \in S : d # e => M[d] \cap M[e] = {},
         NEW w, \A x \in U : w[x] \in Nat, NEW g, IsSum(g, w, U),
         NEW v, \A d \in S : v[d] = g[M[d]], NEW h, IsSum(h, v, S)
  PROVE  h[S] = g[UNION {M[d] : d \in S}]
<1> DEFINE All(t) == UNION {M[d] : d \in t}
           Adds(t) == h[t] = g[All(t)]
           N == {n \in Nat : \A t \in SUBSET S : Cardinality(t) = n => Adds(t)}
<1>0. \A t \in SUBSET U : g[t] \in Nat
  BY SumSplits DEF Splits
<1>1. \A d \in S : v[d] \in Nat
  BY <1>0
<1> HIDE DEF Adds
<1>2. \A t \in SUBSET S : /\ IsFiniteSet(t) /\ Cardinality(t) \in Nat
                          /\ (Cardinality(t) = 0 <=> t = {}) /\ Splits(h, v, t)
  BY <1>1, SumSplits, FS_Subset, FS_CardinalityType, FS_EmptySet
<1>3. 0 \in N
  <2>1. h[{}] = 0 /\ g[{}] = 0
    BY DEF IsSum, SumStep
  <2>2. All({}) = {}
    OBVIOUS
  <2>3. Adds({})
    BY <2>1, <2>2 DEF Adds
  <2> QED
    BY <1>2, <2>3
<1>4. ASSUME NEW n \in N PROVE n + 1 \in N
  <2>1. ASSUME NEW t \in SUBSET S, Cardinality(t) = n + 1 PROVE Adds(t)
    <3>1. PICK d \in t : TRUE
      BY <1>2, <2>1
    <3>2. PICK u : u = t \ {d}
      OBVIOUS
    <3>3. u \in SUBSET S /\ Cardinality(u) = n /\ d \in S
      BY <1>2, <2>1, <3>1, <3>2, OneFewer
    <3>4. h[t] = v[d] + h[u]
      BY <1>2, <3>2 DEF Splits
    <3>5. h[u] = g[All(u)]
      BY <3>3 DEF Adds
    <3>6. All(t) = All(u) \cup M[d] /\ All(u) \cap M[d] = {}
      <4>1. \A x : x \in All(t) <=> x \in All(u) \/ x \in M[d]
        BY <3>2
      <4>2. \A e \in u : e \in S /\ e # d
        BY <3>2, <3>3
      <4> QED
        BY <4>1, <4>2, <3>3
    <3>7. All(u) \in SUBSET U /\ M[d] \in SUBSET U
      BY <3>3
    <3> HIDE DEF All
    <3>8. g[All(u) \cup M[d]] = g[All(u)] + g[M[d]]
      <4>1. PICK A \in SUBSET U : A = All(u)
        BY <3>7
      <4>2. PICK B \in SUBSET U : B = M[d]
        BY <3>7
      <4>3. A \cap B = {}
        BY <3>6, <4>1, <4>2
      <4>4. g[A \cup B] = g[A] + g[B]
        BY <4>3, SumOfTwo
      <4> QED
        BY <4>1, <4>2, <4>4
    <3>9. g[All(u)] \in Nat /\ g[M[d]] \in Nat /\ v[d] = g[M[d]]
      BY <1>0, <3>3, <3>7
    <3> QED
      BY <3>4, <3>5, <3>6, <3>8, <3>9 DEF Adds
  <2> QED
    BY <2>1
<1>5. N = Nat
  <2> HIDE DEF N
  <2>1. N \in SUBSET Nat
    BY DEF N
  <2> QED
    BY <1>3, <1>4, <2>1, Induction
<1>6. Cardinality(S) \in N
  BY <1>2, <1>5
<1> QED
  BY <1>6 DEF Adds

\* Where each weight, n times, is at least k, the sum, n times, is k for each member.
LEMMA SumAtLeast ==
  ASSUME NEW S, IsFiniteSet(S), NEW n \in Nat, NEW k \in Nat, NEW w,
         \A d \in S : w[d] \in Nat /\ w[d] * n >= k, NEW g, IsSum(g, w, S)
  PROVE  g[S] \in Nat /\ g[S] * n >= k * Cardinality(S)
<1> DEFINE Enough(t) == g[t] * n >= k * Cardinality(t)
           N == {i \in Nat : \A t \in SUBSET S : Cardinality(t) = i => Enough(t)}
<1> HIDE DEF Enough
<1>1. \A t \in SUBSET S : /\ IsFiniteSet(t) /\ Cardinality(t) \in Nat
                          /\ (Cardinality(t) = 0 <=> t = {}) /\ Splits(g, w, t)
  BY SumSplits, FS_Subset, FS_CardinalityType, FS_EmptySet
<1>2. 0 \in N
  <2>1. g[{}] = 0 /\ Cardinality({}) = 0
    BY FS_EmptySet DEF IsSum, SumStep
  <2>2. 0 * n = 0 /\ k * 0 = 0
    OBVIOUS
  <2>3. Enough({})
    BY <2>1, <2>2 DEF Enough
  <2> QED
    BY <1>1, <2>3
<1>3. ASSUME NEW i \in N PROVE i + 1 \in N
  <2>1. ASSUME NEW t \in SUBSET S, Cardinality(t) = i + 1 PROVE Enough(t)
    <3>1. PICK d \in t : TRUE
      BY <1>1, <2>1
    <3>2. PICK u : u = t \ {d}
      OBVIOUS
    <3>3. u \in SUBSET S /\ Cardinality(u) = i /\ d \in S
      <4>1. IsFiniteSet(t) /\ i \in Nat
        BY <1>1
      <4>2. Cardinality(t \ {d}) = Cardinality(t) - 1
        BY <3>1, <4>1, OneFewer
      <4> QED
        BY <2>1, <3>1, <3>2, <4>1, <4>2
    <3>4. g[t] = w[d] + g[u] /\ g[u] \in Nat /\ w[d] \in Nat /\ w[d] * n >= k
      BY <1>1, <3>2, <3>3 DEF Splits
    <3>5. g[u] * n >= k * i
      BY <3>3 DEF Enough
    <3>6. PICK a \in Nat : a = w[d]
      BY <3>4
    <3>7. PICK b \in Nat : b = g[u]
      BY <3>4
    <3>8. (a + b) * n = a * n + b * n /\ k * (i + 1) = k * i + k
      OBVIOUS
    <3>9. a * n \in Nat /\ b * n \in Nat /\ k * i \in Nat
      OBVIOUS
    <3>10. (a + b) * n >= k * (i + 1)
      BY <3>4, <3>5, <3>6, <3>7, <3>8, <3>9
    <3> QED
      BY <2>1, <3>4, <3>6, <3>7, <3>10 DEF Enough
  <2> QED
    BY <2>1
<1>4. N = Nat
  <2> HIDE DEF N
  <2>1. N \in SUBSET Nat
    BY DEF N
  <2> QED
    BY <1>2, <1>3, <2>1, Induction
<1>5. Cardinality(S) \in N
  BY <1>1, <1>4
<1> QED
  BY <1>1, <1>5 DEF Enough, Splits

(* What the analyses conclude.                                               *)

\* Whoever is named has reports, all of them finite in number; the reports of all are the managed.
LEMMA SpansAre ==
  ASSUME StructureTypeOK
  PROVE  /\ IsFiniteSet(Named)
         /\ \A id : /\ ReportsOf(id) \in SUBSET Managed /\ IsFiniteSet(ReportsOf(id))
                    /\ Span(id) \in Nat /\ Span(id) <= Cardinality(Managed)
                    /\ (Span(id) = 0 <=> id \notin Named)
         /\ \A d, e \in Named : d # e => ReportsOf(d) \cap ReportsOf(e) = {}
         /\ UNION {ReportsOf(d) : d \in Named} = Managed
<1>1. IsFiniteSet(Named)
  <2> DEFINE f == [m \in Managed |-> managers[m]]
  <2>1. f \in Surjection(Managed, Named)
    BY DEF Surjection, Named
  <2> QED
    BY <2>1, MembersAre, FS_Surjection
<1>2. ASSUME NEW id
      PROVE  /\ ReportsOf(id) \in SUBSET Managed /\ IsFiniteSet(ReportsOf(id))
             /\ Span(id) \in Nat /\ Span(id) <= Cardinality(Managed)
             /\ (Span(id) = 0 <=> id \notin Named)
  <2>1. ReportsOf(id) \in SUBSET Managed
    BY DEF ReportsOf
  <2>2. /\ IsFiniteSet(ReportsOf(id)) /\ Cardinality(ReportsOf(id)) \in Nat
        /\ Cardinality(ReportsOf(id)) <= Cardinality(Managed)
        /\ (Cardinality(ReportsOf(id)) = 0 <=> ReportsOf(id) = {})
    BY <2>1, MembersAre, FS_Subset, FS_CardinalityType, FS_EmptySet
  <2>3. ReportsOf(id) = {} <=> id \notin Named
    BY DEF ReportsOf, Named
  <2> QED
    BY <2>1, <2>2, <2>3 DEF Span
<1>3. ASSUME NEW d, NEW e, d # e PROVE ReportsOf(d) \cap ReportsOf(e) = {}
  BY <1>3 DEF ReportsOf
<1>4. UNION {ReportsOf(d) : d \in Named} = Managed
  BY DEF ReportsOf, Named
<1> QED
  BY <1>1, <1>2, <1>3, <1>4

\* The widest of the spans of some ids.
LEMMA WidestIs ==
  ASSUME StructureTypeOK, NEW S, S # {}
  PROVE  \E id \in S : /\ Max({Span(d) : d \in S}) = Span(id) /\ \A d \in S : Span(d) <= Span(id)
<1> DEFINE D == {Span(d) : d \in S}
           n == Cardinality(Managed)
<1>1. \A d \in S : Span(d) \in Nat /\ Span(d) <= n
  BY SpansAre
<1>2. n \in Nat
  BY MembersAre
<1> HIDE DEF n
<1>3. D \in SUBSET Nat /\ D # {} /\ D \in SUBSET (0 .. n)
  BY <1>1, <1>2
<1>4. IsFiniteSet(D)
  <2>1. IsFiniteSet(0 .. n)
    BY <1>2, FS_Interval
  <2> HIDE DEF D
  <2> QED
    BY <1>3, <2>1, FS_Subset
<1>5. Max(D) \in D /\ \A d \in D : Max(D) >= d
  <2> HIDE DEF D
  <2> QED
    BY <1>3, <1>4, GreatestOf
<1>6. PICK x : x = Max(D)
  OBVIOUS
<1>7. PICK id \in S : x = Span(id)
  BY <1>5, <1>6
<1>8. \A d \in S : Span(d) <= Span(id)
  <2> SUFFICES ASSUME NEW d \in S PROVE Span(d) <= Span(id)
    OBVIOUS
  <2>1. Span(d) \in D
    OBVIOUS
  <2>2. x >= Span(d)
    BY <1>5, <1>6, <2>1
  <2> QED
    BY <1>1, <1>7, <2>2
<1> QED
  BY <1>6, <1>7, <1>8

\* Where everybody named is a member, the spans are as wide as the dependents are many.
LEMMA WidestAgree ==
  ASSUME StructureTypeOK, Named \subseteq Present
  PROVE  /\ MaximumSpan = MaximumDependents /\ MaximumSpan \in Nat
         /\ \A n \in Nat \ {0} : (\E m \in Present : Span(m) >= n) <=> MaximumSpan >= n
         /\ \A n \in Nat \ {0} : (\E m \in Named : Span(m) >= n) <=> MaximumSpan >= n
<1>1. \A id : Span(id) \in Nat /\ (Span(id) = 0 <=> id \notin Named)
  BY SpansAre
<1>2. CASE Named = {}
  <2>1. MaximumSpan = 0 /\ \A id : Span(id) = 0
    BY <1>1, <1>2 DEF MaximumSpan
  <2>2. MaximumDependents = 0
    <3>1. CASE Present = {}
      BY <3>1 DEF MaximumDependents
    <3>2. CASE Present # {}
      <4>1. PICK id \in Present : Max({Span(d) : d \in Present}) = Span(id)
        BY <3>2, WidestIs
      <4> QED
        BY <2>1, <3>2, <4>1 DEF MaximumDependents
    <3> QED
      BY <3>1, <3>2
  <2> QED
    BY <2>1, <2>2
<1>3. CASE Named # {}
  <2>1. PICK a \in Named : Max({Span(d) : d \in Named}) = Span(a) /\ \A d \in Named : Span(d) <= Span(a)
    BY <1>3, WidestIs
  <2>2. PICK b \in Present : Max({Span(d) : d \in Present}) = Span(b)
                             /\ \A d \in Present : Span(d) <= Span(b)
    BY <1>3, WidestIs
  <2>3. MaximumSpan = Span(a) /\ MaximumDependents = Span(b)
    BY <1>3, <2>1, <2>2 DEF MaximumSpan, MaximumDependents
  <2>4. a \in Present /\ Span(a) <= Span(b) /\ Span(a) # 0
    BY <1>1, <2>1, <2>2
  <2>5. b \in Named
    BY <1>1, <2>4
  <2>6. Span(a) = Span(b)
    BY <1>1, <2>1, <2>4, <2>5
  <2>7. \A d \in Present : Span(d) <= Span(a)
    BY <2>2, <2>6
  <2> QED
    BY <1>1, <2>1, <2>3, <2>4, <2>6, <2>7
<1> QED
  BY <1>2, <1>3

LEMMA WorkIs ==
  ASSUME StructureTypeOK, NEW m \in Present
  PROVE  workload[m] \in Nat
<1>1. m \in MemberIds /\ Workloads \subseteq Nat
  BY MembersAre, StructureAssumption
<1>2. workload[m] \in Workloads \cup {0}
  BY <1>1 DEF StructureTypeOK
<1>3. PICK w : w = workload[m]
  OBVIOUS
<1>4. w \in Workloads => w \in Nat
  BY <1>1
<1>5. w \in Workloads \/ w = 0
  BY <1>2, <1>3
<1> QED
  BY <1>3, <1>4, <1>5

LEMMA SpansAddUp ==
  ASSUME StructureTypeOK
  PROVE  MapThenSumSet(Span, Named) = Cardinality(Managed)
<1> DEFINE M == [d \in Named |-> ReportsOf(d)]
           w == [d \in Named |-> Cardinality(M[d])]
           P(g) == g = [t \in SUBSET Named |->
                          IF t = {} THEN 0 ELSE Span(Picked(t)) + g[t \ {Picked(t)}]]
<1>1. MapThenSumSet(Span, Named) = (CHOOSE g : P(g))[Named]
  BY DEF MapThenSumSet, MapThenFoldSet, Picked
<1>2. IsFiniteSet(Named)
  BY SpansAre
<1>3. \A t \in SUBSET Named : t # {} => Picked(t) \in Named
  <2> SUFFICES ASSUME NEW t \in SUBSET Named, t # {} PROVE Picked(t) \in Named
    OBVIOUS
  <2>1. PICK d \in t : TRUE
    OBVIOUS
  <2>2. Picked(t) \in t
    BY <2>1, Zenon DEF Picked
  <2> QED
    BY <2>2
<1>4. \A d \in Named : w[d] = Span(d)
  BY DEF Span
<1>5. ASSUME NEW g PROVE P(g) <=> IsSum(g, w, Named)
  <2> HIDE DEF w
  <2>1. ASSUME NEW t \in SUBSET Named
        PROVE  SumStep(g, w, t) = IF t = {} THEN 0 ELSE Span(Picked(t)) + g[t \ {Picked(t)}]
    BY <1>3, <1>4 DEF SumStep
  <2> QED
    BY <2>1 DEF IsSum
<1>6. PICK h : IsSum(h, w, Named)
  BY <1>2, SumExists
<1>7. PICK g : g = CHOOSE z : P(z)
  OBVIOUS
<1>8. P(g)
  <2>1. P(h)
    BY <1>5, <1>6
  <2> HIDE DEF P
  <2> QED
    BY <1>7, <2>1, Zenon
<1>9. IsSum(g, w, Named)
  BY <1>5, <1>8
<1>10. /\ \A d \in Named : IsFiniteSet(M[d])
       /\ \A d, e \in Named : d # e => M[d] \cap M[e] = {}
       /\ UNION {M[d] : d \in Named} = Managed
  BY SpansAre
<1> HIDE DEF M, P
<1>11. g[Named] = Cardinality(UNION {M[d] : d \in Named})
  BY <1>2, <1>9, <1>10, SumOfSizes DEF w
<1> QED
  BY <1>1, <1>7, <1>10, <1>11

LEMMA ManagerTotalsAddUp ==
  ASSUME StructureTypeOK
  PROVE  MapThenSumSet(ManagerTotal, Named) <= Total
<1> DEFINE M == [d \in Named |-> ReportsOf(d)]
           v == [d \in Named |-> ManagerTotal(d)]
           P(h) == h = [t \in SUBSET Named |->
                          IF t = {} THEN 0 ELSE ManagerTotal(Picked(t)) + h[t \ {Picked(t)}]]
<1>1. MapThenSumSet(ManagerTotal, Named) = (CHOOSE h : P(h))[Named]
  BY DEF MapThenSumSet, MapThenFoldSet, Picked
<1>2. IsFiniteSet(Named) /\ IsFiniteSet(Present) /\ IsFiniteSet(Managed) /\ Managed \in SUBSET Present
  BY SpansAre, MembersAre
<1>3. \A t \in SUBSET Named : t # {} => Picked(t) \in Named
  <2> SUFFICES ASSUME NEW t \in SUBSET Named, t # {} PROVE Picked(t) \in Named
    OBVIOUS
  <2>1. PICK d \in t : TRUE
    OBVIOUS
  <2>2. Picked(t) \in t
    BY <2>1, Zenon DEF Picked
  <2> QED
    BY <2>2
<1>4. \A d \in Named : v[d] = ManagerTotal(d)
  OBVIOUS
<1>5. ASSUME NEW h PROVE P(h) <=> IsSum(h, v, Named)
  <2> HIDE DEF v
  <2>1. ASSUME NEW t \in SUBSET Named
        PROVE  SumStep(h, v, t) = IF t = {} THEN 0 ELSE ManagerTotal(Picked(t)) + h[t \ {Picked(t)}]
    BY <1>3, <1>4 DEF SumStep
  <2> QED
    BY <2>1 DEF IsSum
<1>6. PICK f : IsSum(f, v, Named)
  BY <1>2, SumExists
<1>7. PICK h : h = CHOOSE z : P(z)
  OBVIOUS
<1>8. P(h)
  <2>1. P(f)
    BY <1>5, <1>6
  <2> HIDE DEF P
  <2> QED
    BY <1>7, <2>1, Zenon
<1>9. IsSum(h, v, Named)
  BY <1>5, <1>8
<1>10. PICK g : IsSum(g, workload, Present) /\ SumFunctionOnSet(workload, Present) = g[Present]
  BY <1>2, SumOnSetIs
<1>11. \A m \in Present : workload[m] \in Nat
  BY WorkIs
<1>12. ASSUME NEW d \in Named PROVE v[d] = g[M[d]]
  <2>1. ReportsOf(d) \in SUBSET Present /\ IsFiniteSet(ReportsOf(d))
    BY <1>2, SpansAre
  <2>2. PICK f2 : IsSum(f2, workload, ReportsOf(d))
                  /\ SumFunctionOnSet(workload, ReportsOf(d)) = f2[ReportsOf(d)]
    BY <2>1, SumOnSetIs
  <2>3. f2[ReportsOf(d)] = g[ReportsOf(d)]
    BY <1>2, <1>10, <1>11, <2>1, <2>2, SumsAgree
  <2> QED
    BY <2>2, <2>3 DEF ManagerTotal
<1>13. /\ \A d \in Named : M[d] \in SUBSET Present
       /\ \A d, e \in Named : d # e => M[d] \cap M[e] = {}
       /\ UNION {M[d] : d \in Named} = Managed
  BY <1>2, SpansAre
<1> HIDE DEF M, P, v
<1>14. h[Named] = g[UNION {M[d] : d \in Named}]
  BY <1>2, <1>9, <1>10, <1>11, <1>12, <1>13, SumOfParts
<1>15. g[Managed] <= g[Present]
  <2>1. PICK f3 : IsSum(f3, workload, Managed)
    BY <1>2, SumExists
  <2>2. f3[Managed] = g[Managed]
    BY <1>2, <1>10, <1>11, <2>1, SumsAgree
  <2>3. \A m \in Managed : workload[m] \in Nat /\ workload[m] <= workload[m]
    BY <1>2, <1>11
  <2>4. f3[Managed] <= g[Present]
    BY <1>2, <1>10, <1>11, <2>1, <2>3, SumGrows
  <2> QED
    BY <2>2, <2>4
<1> QED
  BY <1>1, <1>7, <1>10, <1>13, <1>14, <1>15 DEF Total

LEMMA AnalysesAlwaysAgree == StructureTypeOK => AnalysesAgree
<1> SUFFICES ASSUME StructureTypeOK PROVE AnalysesAgree
  OBVIOUS
<1>1. \A id : Span(id) \in Nat /\ (Span(id) = 0 <=> id \notin Named)
  BY SpansAre
<1>2. CapacityThreshold \in Nat \ {0} /\ CriticalDependents \in Nat \ {0}
  BY StructureAssumption
<1>3. ASSUME CanBeBuilt
      PROVE  /\ MaximumSpan = MaximumDependents
             /\ Overloaded # {} <=> MaximumDependents >= CapacityThreshold
             /\ (\E m \in Present : DependencyLevel(m) = "critical") <=> MaximumSpan >= CriticalDependents
             /\ SinglePoint = {m \in Present : CoverageLevel(m) = "single_point"}
             /\ {m \in Present : CoverageLevel(m) = "uncovered"} = Unmanaged \ Named
  <2>1. Named \subseteq Present
    BY <1>3 DEF CanBeBuilt, UnknownManagerRaises
  <2>2. MaximumSpan = MaximumDependents
    BY <2>1, WidestAgree
  <2>3. Overloaded # {} <=> MaximumDependents >= CapacityThreshold
    <3>1. (\E m \in Named : Span(m) >= CapacityThreshold) <=> MaximumSpan >= CapacityThreshold
      BY <1>2, <2>1, WidestAgree
    <3> QED
      BY <2>2, <3>1 DEF Overloaded
  <2>4. \A m : DependencyLevel(m) = "critical" <=> Span(m) >= CriticalDependents
    <3> SUFFICES ASSUME NEW m
                 PROVE  DependencyLevel(m) = "critical" <=> Span(m) >= CriticalDependents
      OBVIOUS
    <3>1. CASE Span(m) >= CriticalDependents
      BY <3>1, <1>1, StructureAssumption DEF DependencyLevel
    <3>2. CASE ~(Span(m) >= CriticalDependents)
      <4>1. DependencyLevel(m) \in {"elevated", "normal"}
        BY <3>2, <1>1, <1>2 DEF DependencyLevel
      <4> QED
        BY <3>2, <4>1
    <3> QED
      BY <3>1, <3>2
  <2>5. (\E m \in Present : DependencyLevel(m) = "critical") <=> MaximumSpan >= CriticalDependents
    BY <1>2, <2>1, <2>4, WidestAgree
  <2>6. \A m : /\ CoverageLevel(m) = "single_point" <=> Span(m) = 1
               /\ CoverageLevel(m) = "uncovered" <=> m \notin Managed /\ Span(m) = 0
    BY <1>1 DEF CoverageLevel
  <2>7. SinglePoint = {m \in Present : CoverageLevel(m) = "single_point"}
    BY <1>1, <2>1, <2>6 DEF SinglePoint
  <2>8. {m \in Present : CoverageLevel(m) = "uncovered"} = Unmanaged \ Named
    BY <1>1, <2>6 DEF Unmanaged
  <2> QED
    BY <2>2, <2>3, <2>5, <2>7, <2>8
<1>4. Uncovered = Unmanaged
  BY DEF Uncovered, Unmanaged
<1> QED
  BY <1>3, <1>4, SpansAddUp, ManagerTotalsAddUp DEF AnalysesAgree

LEMMA TimesGrows ==
  ASSUME NEW a \in Nat, NEW b \in Nat, a <= b, NEW c \in Nat
  PROVE  a * c <= b * c
<1>1. PICK d \in Nat : b = a + d
  <2>1. b - a \in Nat /\ b = a + (b - a)
    OBVIOUS
  <2> QED
    BY <2>1
<1>2. (a + d) * c = a * c + d * c /\ a * c \in Nat /\ d * c \in Nat
  OBVIOUS
<1> QED
  BY <1>1, <1>2

\* Weights that are each at least twice the average are of half of them at most.
LEMMA HalfAtMost ==
  ASSUME NEW t \in Nat, t > 0, NEW p \in Nat, NEW n \in Nat, NEW sum \in Nat, sum <= t,
         sum * (2 * p) >= (4 * t) * n
  PROVE  2 * n <= p
<1> SUFFICES ASSUME ~(2 * n <= p) PROVE FALSE
  OBVIOUS
<1>1. p + 1 <= 2 * n
  OBVIOUS
<1>2. PICK q \in Nat : q = 2 * p
  OBVIOUS
<1>3. sum * q <= t * q
  BY TimesGrows
<1>4. PICK r \in Nat : r = 4 * n
  OBVIOUS
<1>5. q + 1 <= r
  BY <1>1, <1>2, <1>4
<1>6. t * (q + 1) <= t * r
  <2>1. (q + 1) * t <= r * t
    BY <1>5, TimesGrows
  <2>2. (q + 1) * t = t * (q + 1) /\ r * t = t * r
    OBVIOUS
  <2> QED
    BY <2>1, <2>2
<1>7. t * (q + 1) = t * q + t
  OBVIOUS
<1>8. (4 * t) * n = t * r
  BY <1>4
<1>9. PICK a \in Nat : a = t * q
  OBVIOUS
<1>10. PICK b \in Nat : b = t * r
  OBVIOUS
<1>11. PICK c \in Nat : c = sum * q
  OBVIOUS
<1>12. c >= b /\ c <= a /\ a + t <= b
  BY <1>2, <1>3, <1>6, <1>7, <1>8, <1>9, <1>10, <1>11
<1> QED
  BY <1>12

LEMMA HighAlwaysRare == StructureTypeOK => HighRiskIsRare
<1> SUFFICES ASSUME StructureTypeOK PROVE HighRiskIsRare
  OBVIOUS
<1> DEFINE high == {m \in Present : WorkloadRisk(m) = "high"}
           p == Cardinality(Present)
<1>1. /\ IsFiniteSet(Present) /\ p \in Nat /\ high \in SUBSET Present
      /\ IsFiniteSet(high) /\ Cardinality(high) \in Nat
      /\ (Cardinality(high) = 0 <=> high = {})
  <2>1. IsFiniteSet(Present) /\ p \in Nat /\ high \in SUBSET Present
    BY MembersAre
  <2> HIDE DEF high
  <2> QED
    BY <2>1, FS_Subset, FS_CardinalityType, FS_EmptySet
<1>2. PICK g : IsSum(g, workload, Present) /\ SumFunctionOnSet(workload, Present) = g[Present]
  BY <1>1, SumOnSetIs
<1>3. PICK t \in Nat : t = Total
  <2>1. g[Present] \in Nat
    BY <1>1, <1>2, WorkIs, SumSplits DEF Splits
  <2> QED
    BY <1>2, <2>1 DEF Total
<1>4. \A m \in Present : m \in high <=> t > 0 /\ workload[m] * (2 * p) >= 4 * t
  <2> SUFFICES ASSUME NEW m \in Present
               PROVE  m \in high <=> t > 0 /\ workload[m] * (2 * p) >= 4 * t
    OBVIOUS
  <2>1. PICK w \in Nat : w = workload[m]
    BY WorkIs
  <2>2. 2 * w * p = w * (2 * p)
    BY <1>1
  <2>3. AtLeast(m, HighRatio) <=> t > 0 /\ w * (2 * p) >= 4 * t
    BY <1>3, <2>1, <2>2 DEF AtLeast, HighRatio
  <2>4. WorkloadRisk(m) = "high" <=> AtLeast(m, HighRatio)
    BY DEF WorkloadRisk
  <2> QED
    BY <2>1, <2>3, <2>4
<1> HIDE DEF high, p
<1>5. 2 * Cardinality(high) <= p
  <2>1. CASE high = {}
    BY <1>1, <2>1
  <2>2. CASE high # {}
    <3>1. t > 0
      BY <1>1, <1>4, <2>2
    <3>2. PICK f : IsSum(f, workload, high)
      BY <1>1, SumExists
    <3>3. f[high] <= t
      <4>1. \A m \in high : workload[m] \in Nat /\ workload[m] <= workload[m]
        BY <1>1, WorkIs
      <4>2. \A m \in Present : workload[m] \in Nat
        BY WorkIs
      <4>3. f[high] <= g[Present]
        BY <1>1, <1>2, <3>2, <4>1, <4>2, SumGrows
      <4> QED
        BY <1>2, <1>3, <4>3 DEF Total
    <3>4. 2 * p \in Nat /\ 4 * t \in Nat
      BY <1>1
    <3>5. \A m \in high : workload[m] \in Nat /\ workload[m] * (2 * p) >= 4 * t
      BY <1>1, <1>4, WorkIs
    <3>6. f[high] \in Nat /\ f[high] * (2 * p) >= (4 * t) * Cardinality(high)
      BY <1>1, <3>2, <3>4, <3>5, SumAtLeast
    <3> QED
      BY <1>1, <3>1, <3>3, <3>6, HalfAtMost
  <2> QED
    BY <2>1, <2>2
<1>6. ASSUME NEW m \in Present \ high, NEW h \in high PROVE workload[m] < workload[h]
  <2>1. PICK a \in Nat : a = workload[m]
    BY WorkIs
  <2>2. PICK b \in Nat : b = workload[h]
    BY <1>1, WorkIs
  <2>3. t > 0 /\ b * (2 * p) >= 4 * t /\ ~(a * (2 * p) >= 4 * t)
    BY <1>1, <1>4, <2>1, <2>2
  <2>4. CASE b <= a
    <3>1. PICK q \in Nat : q = 2 * p
      BY <1>1
    <3>2. b * q <= a * q
      BY <2>4, TimesGrows
    <3>3. a * q \in Nat /\ b * q \in Nat
      OBVIOUS
    <3> QED
      BY <2>3, <3>1, <3>2, <3>3
  <2> QED
    BY <2>1, <2>2, <2>4
<1>7. ASSUME high # {} PROVE \E h \in high : workload[h] = MaximumWorkload
  <2> DEFINE D == {workload[m] : m \in Present}
             f == [m \in Present |-> workload[m]]
  <2>1. Present # {} /\ D \in SUBSET Nat /\ D # {}
    BY <1>1, <1>7, WorkIs
  <2>2. IsFiniteSet(D)
    <3>1. f \in Surjection(Present, D)
      BY DEF Surjection
    <3> HIDE DEF f, D
    <3> QED
      BY <1>1, <3>1, FS_Surjection
  <2>3. Max(D) \in D /\ \A d \in D : Max(D) >= d
    <3> HIDE DEF D
    <3> QED
      BY <2>1, <2>2, GreatestOf
  <2>4. PICK x : x = Max(D)
    OBVIOUS
  <2>5. PICK m \in Present : x = workload[m]
    BY <2>3, <2>4
  <2>6. MaximumWorkload = x
    BY <2>1, <2>4 DEF MaximumWorkload
  <2>7. m \in high
    <3> SUFFICES ASSUME m \notin high PROVE FALSE
      OBVIOUS
    <3>1. PICK h \in high : workload[m] < workload[h]
      BY <1>6, <1>7
    <3>2. h \in Present
      BY <1>1
    <3>3. x >= workload[h]
      BY <2>3, <2>4, <3>2
    <3> QED
      BY <2>5, <3>1, <3>2, <3>3, WorkIs
  <2> QED
    BY <2>5, <2>6, <2>7
<1>8. ASSUME Total > 0, p = 1 PROVE high = {}
  BY <1>1, <1>5, <1>8
<1>9. ASSUME NEW m \in Present, ManagerConcentrates(m) PROVE high # {}
  <2>1. managers[m] \in Present /\ AtLeast(managers[m], HighRatio)
    BY <1>9 DEF ManagerConcentrates
  <2>2. managers[m] \in high
    BY <2>1 DEF high, WorkloadRisk
  <2> QED
    BY <2>2
<1>10. /\ 2 * Cardinality(high) <= p
       /\ \A m \in Present \ high, h \in high : workload[m] < workload[h]
       /\ high # {} => \E h \in high : workload[h] = MaximumWorkload
       /\ Total > 0 /\ p = 1 => high = {}
       /\ \A m \in Present : ManagerConcentrates(m) => high # {}
  BY <1>5, <1>6, <1>7, <1>8, <1>9
<1> QED
  BY Zenon, <1>10 DEF HighRiskIsRare, high, p

-----------------------------------------------------------------------------
(* The organization graph.                                                   *)

GraphInv == listed \in Seq(Entries) /\ Len(listed) <= MaxEntries /\ stale \in BOOLEAN /\ listening \in BOOLEAN

LEMMA GraphInitInv == GraphInit => GraphInv
<1>1. MaxEntries \in Nat
  BY GraphAssumption
<1>2. <<>> \in Seq(Entries) /\ Len(<<>>) = 0
  OBVIOUS
<1>3. ASSUME GraphInit PROVE listed \in Seq(Entries) /\ Len(listed) <= MaxEntries
  BY <1>1, <1>2, <1>3 DEF GraphInit
<1>4. ASSUME GraphInit PROVE stale \in BOOLEAN /\ listening \in BOOLEAN
  BY Zenon, <1>4 DEF GraphInit
<1> QED
  BY <1>3, <1>4 DEF GraphInv

LEMMA GraphInvStep == GraphInv /\ [GraphNext]_graphVars => GraphInv'
<1> SUFFICES ASSUME GraphInv, [GraphNext]_graphVars PROVE GraphInv'
  OBVIOUS
<1> USE DEF GraphInv
<1>1. ASSUME NEW entry \in Entries, RefreshGraph(entry) PROVE GraphInv'
  <2>1. listed' = Append(listed, entry) /\ Len(listed) < MaxEntries /\ MaxEntries \in Nat
    BY <1>1, GraphAssumption DEF RefreshGraph
  <2>2. listed' \in Seq(Entries) /\ Len(listed') = Len(listed) + 1 /\ Len(listed) \in Nat
    BY <2>1
  <2>3. stale' \in BOOLEAN /\ listening' \in BOOLEAN
    BY Zenon, <1>1 DEF RefreshGraph
  <2> QED
    BY <2>1, <2>2, <2>3
<1>2. CASE HandleEvent
  BY <1>2 DEF HandleEvent
<1>3. CASE StopListening
  BY <1>3 DEF StopListening
<1>4. CASE UNCHANGED graphVars
  BY <1>4 DEF graphVars
<1> QED
  BY <1>1, <1>2, <1>3, <1>4 DEF GraphNext

\* The lists hold entries, each of one of the five kinds.
LEMMA ListsHoldEntries ==
  ASSUME GraphInv
  PROVE  /\ Range(listed) \subseteq Entries
         /\ \A e \in Range(listed) :
              /\ e.kind \in Range(EntityKinds) /\ e \in OfKind(e.kind) /\ e.id \in Nodes
              /\ e.id \in EntityIds(e.kind)
<1>1. Range(listed) \subseteq Entries
  BY DEF GraphInv, Range
<1>2. \A e \in Range(listed) : e.kind \in Range(EntityKinds)
  BY <1>1, GraphAssumption
<1> QED
  BY <1>1, <1>2 DEF OfKind, Nodes, EntityIds

LEMMA EdgesJoinNodes == GraphInv => GraphTypeOK
<1> SUFFICES ASSUME GraphInv PROVE GraphTypeOK
  OBVIOUS
<1>1. ASSUME NEW edge \in Edges PROVE edge[1] \in Nodes /\ edge[3] \in Nodes
  <2>1. PICK e \in Range(listed) : edge \in EdgesOf(e)
    BY DEF Edges
  <2>2. PICK ref \in {r \in References(e) : e.refs[r] \in Nodes} :
             edge = <<e.id, Relationship(e.kind, ref), e.refs[ref]>>
    BY <2>1 DEF EdgesOf
  <2>3. edge[1] = e.id /\ edge[3] = e.refs[ref]
    BY <2>2
  <2> QED
    BY <2>2, <2>3, ListsHoldEntries
<1> QED
  BY <1>1 DEF GraphInv, GraphTypeOK

\* What is the id of an entity is a node.
LEMMA IdsAreNodes ==
  ASSUME NEW kind, NEW id \in EntityIds(kind) PROVE id \in Nodes
  BY DEF EntityIds, OfKind, Nodes

LEMMA DroppedReported == GraphInv => DroppedIsReported
<1> SUFFICES ASSUME GraphInv, NEW e \in Range(listed), NEW ref \in References(e)
             PROVE  \/ <<e.id, Relationship(e.kind, ref), e.refs[ref]>> \in Edges
                    \/ <<"missing_reference", e.id, e.refs[ref]>> \in Issues
  BY DEF DroppedIsReported
<1>1. CASE e.refs[ref] \in Nodes
  <2>1. <<e.id, Relationship(e.kind, ref), e.refs[ref]>> \in EdgesOf(e)
    BY <1>1 DEF EdgesOf
  <2> QED
    BY <2>1 DEF Edges
<1>2. CASE e.refs[ref] \notin Nodes
  <2>1. e.refs[ref] \notin EntityIds(TargetKind(ref))
    BY <1>2, IdsAreNodes
  <2>2. <<"missing_reference", e.id, e.refs[ref]>> \in Missing(e)
    BY <2>1 DEF Missing
  <2>3. <<"missing_reference", e.id, e.refs[ref]>>
          \in UNION {Missing(d) \cup Mismatched(d) : d \in Range(listed)}
    BY <2>2
  <2> QED
    BY <2>3 DEF Issues
<1> QED
  BY <1>1, <1>2

\* Where nothing is reported, nothing is missing, mismatched or listed twice.
LEMMA NothingReported ==
  ASSUME Issues = {}
  PROVE  /\ \A e \in Range(listed) : Missing(e) = {} /\ Mismatched(e) = {}
         /\ \A kind \in Range(EntityKinds) : Duplicates(kind) = {}
<1> DEFINE A == UNION {Missing(e) \cup Mismatched(e) : e \in Range(listed)}
           B == UNION {Duplicates(kind) : kind \in Range(EntityKinds)}
<1>1. A = {} /\ B = {}
  <2>1. Issues = A \cup B
    BY DEF Issues
  <2> HIDE DEF A, B
  <2> QED
    BY <2>1
<1>2. ASSUME NEW e \in Range(listed) PROVE Missing(e) = {} /\ Mismatched(e) = {}
  BY <1>1
<1>3. ASSUME NEW kind \in Range(EntityKinds) PROVE Duplicates(kind) = {}
  BY <1>1
<1> QED
  BY <1>2, <1>3

\* And looking an entry up by its id finds it.
LEMMA EntryIsIt ==
  ASSUME GraphInv, Issues = {}, NEW e \in Range(listed)
  PROVE  Entry(e.kind, e.id) = e
<1> DEFINE S == Places(e.kind, e.id)
<1>1. e.kind \in Range(EntityKinds) /\ e.id \in EntityIds(e.kind)
  BY ListsHoldEntries
<1>2. PICK n \in DOMAIN listed : listed[n] = e
  BY DEF Range
<1>3. Duplicates(e.kind) = {}
  BY <1>1, NothingReported
<1>4. ~ (Cardinality(S) > 1)
  BY <1>1, <1>3 DEF Duplicates
<1>5. S \in SUBSET (1 .. Len(listed)) /\ n \in S
  BY <1>2 DEF GraphInv, Places
<1>6. IsFiniteSet(S) /\ Cardinality(S) \in Nat
  <2>1. IsFiniteSet(1 .. Len(listed))
    BY FS_Interval DEF GraphInv
  <2> HIDE DEF S
  <2> QED
    BY <1>5, <2>1, FS_Subset, FS_CardinalityType
<1>7. Max(S) \in S
  <2>1. S \in SUBSET Nat /\ S # {}
    BY <1>5
  <2> HIDE DEF S
  <2> QED
    BY <2>1, <1>6, GreatestOf
<1>8. Max(S) = n
  <2> HIDE DEF S
  <2>1. IsFiniteSet(S \ {n}) /\ Cardinality(S \ {n}) = Cardinality(S) - 1
    BY <1>5, <1>6, FS_RemoveElement
  <2>2. Cardinality(S \ {n}) = 0
    <3>1. Cardinality(S \ {n}) \in Nat
      BY <2>1, FS_CardinalityType
    <3> QED
      BY <2>1, <3>1, <1>4, <1>6
  <2>3. S \ {n} = {}
    BY <2>1, <2>2, FS_EmptySet
  <2> QED
    BY <2>3, <1>7
<1> QED
  BY <1>2, <1>8 DEF Entry

\* The kind of a node is that of its only entry.
LEMMA KindOfNode ==
  ASSUME IdsAreOfOneKind, NEW kind \in Range(EntityKinds), NEW id \in EntityIds(kind)
  PROVE  NodeKind(id) = kind
<1> DEFINE D == {n \in DOMAIN EntityKinds : id \in EntityIds(EntityKinds[n])}
<1>1. PICK n \in DOMAIN EntityKinds : EntityKinds[n] = kind
  BY DEF Range
<1>2. DOMAIN EntityKinds = 1 .. 5
  BY DEF EntityKinds
<1>3. ASSUME NEW m \in D PROVE m = n
  <2>1. EntityKinds[m] \in Range(EntityKinds)
    BY DEF Range
  <2>2. EntityKinds[m] = kind
    BY <2>1 DEF IdsAreOfOneKind
  <2> QED
    BY <2>2, <1>1, <1>2 DEF EntityKinds
<1>4. D = {n}
  BY <1>1, <1>3
<1>5. Max({n}) = n
  <2>1. IsFiniteSet({n}) /\ {n} \in SUBSET Nat /\ {n} # {}
    <3>1. n \in Nat
      BY <1>1, <1>2
    <3> QED
      BY <3>1, FS_Singleton
  <2>2. Max({n}) \in {n}
    BY <2>1, GreatestOf
  <2> QED
    BY <2>2
<1> QED
  BY <1>1, <1>4, <1>5 DEF NodeKind

\* What the relationships of an entry are called.
LEMMA RelationshipIs ==
  ASSUME NEW kind, NEW ref \in RefKinds
  PROVE  /\ Relationship(kind, ref) = "BELONGS_TO" <=> ref = "organization"
         /\ kind = "employee" =>
              (Relationship(kind, ref) = "MEMBER_OF" <=> ref \in {"department", "team"})
<1>1. CASE ref = "organization"
  BY <1>1 DEF Relationship
<1>2. CASE ref = "location"
  BY <1>2 DEF Relationship
<1>3. CASE ref = "manager"
  BY <1>3 DEF Relationship
<1>4. CASE ref \in {"department", "team"}
  BY <1>4 DEF Relationship
<1> QED
  BY <1>1, <1>2, <1>3, <1>4 DEF RefKinds

\* A reference leads to a node of the kind referred to.
LEMMA ReferencesResolve ==
  ASSUME GraphInv, Issues = {}, IdsAreOfOneKind, NEW e \in Range(listed), NEW ref \in References(e)
  PROVE  /\ e.refs[ref] \in EntityIds(TargetKind(ref)) /\ e.refs[ref] \in Nodes
         /\ NodeKind(e.refs[ref]) = TargetKind(ref)
<1>1. Missing(e) = {}
  BY NothingReported
<1>2. e.refs[ref] \in EntityIds(TargetKind(ref))
  BY <1>1 DEF Missing
<1>3. TargetKind(ref) \in Range(EntityKinds)
  <2>1. PICK n \in 1 .. 5 : TargetKind(ref) = EntityKinds[n]
    BY DEF TargetKind, References, RefKinds, EntityKinds
  <2> QED
    BY <2>1 DEF EntityKinds, Range
<1> QED
  BY <1>2, <1>3, IdsAreNodes, KindOfNode

\* The edges of a node are those of its only entry.
LEMMA EdgesAreOwn ==
  ASSUME GraphInv, Issues = {}, IdsAreOfOneKind, NEW e \in Range(listed), NEW rel, NEW t
  PROVE  <<e.id, rel, t>> \in Edges <=>
           \E ref \in References(e) : rel = Relationship(e.kind, ref) /\ t = e.refs[ref]
<1>1. ASSUME NEW ref \in References(e), rel = Relationship(e.kind, ref), t = e.refs[ref]
      PROVE  <<e.id, rel, t>> \in Edges
  <2>1. <<e.id, rel, t>> \in EdgesOf(e)
    BY <1>1, ReferencesResolve DEF EdgesOf
  <2> QED
    BY <2>1 DEF Edges
<1>2. ASSUME <<e.id, rel, t>> \in Edges
      PROVE  \E ref \in References(e) : rel = Relationship(e.kind, ref) /\ t = e.refs[ref]
  <2>1. PICK d \in Range(listed) : <<e.id, rel, t>> \in EdgesOf(d)
    BY <1>2 DEF Edges
  <2>2. PICK ref \in References(d) :
             <<e.id, rel, t>> = <<d.id, Relationship(d.kind, ref), d.refs[ref]>>
    BY <2>1 DEF EdgesOf
  <2>3. e.id = d.id /\ rel = Relationship(d.kind, ref) /\ t = d.refs[ref]
    BY <2>2
  <2>4. d.kind = e.kind
    <3>1. /\ d.kind \in Range(EntityKinds) /\ e.kind \in Range(EntityKinds)
          /\ d.id \in EntityIds(d.kind) /\ e.id \in EntityIds(e.kind)
      BY ListsHoldEntries
    <3> QED
      BY <2>3, <3>1 DEF IdsAreOfOneKind
  <2>5. d = e
    BY <2>3, <2>4, EntryIsIt
  <2> QED
    BY <2>3, <2>5
<1> QED
  BY <1>1, <1>2

\* An entity belongs to the organization its entry names.
LEMMA OrganizationIs ==
  ASSUME GraphInv, Issues = {}, IdsAreOfOneKind, NEW e \in Range(listed)
  PROVE  OrganizationsOf(e.id) = {e.refs["organization"]} \ {None}
<1> DEFINE o == e.refs["organization"]
<1>1. \A t : <<e.id, "BELONGS_TO", t>> \in Edges <=> (o # None /\ t = o)
  <2> TAKE t
  <2>1. <<e.id, "BELONGS_TO", t>> \in Edges <=>
           \E ref \in References(e) : "BELONGS_TO" = Relationship(e.kind, ref) /\ t = e.refs[ref]
    BY EdgesAreOwn
  <2>2. \A ref \in References(e) : "BELONGS_TO" = Relationship(e.kind, ref) <=> ref = "organization"
    BY RelationshipIs DEF References
  <2>3. "organization" \in References(e) <=> o # None
    BY DEF References, RefKinds
  <2> QED
    BY <2>1, <2>2, <2>3
<1>2. o # None => o \in Nodes /\ NodeKind(o) = "organization"
  <2>1. o # None => "organization" \in References(e)
    BY DEF References, RefKinds
  <2> QED
    BY <2>1, ReferencesResolve DEF TargetKind
<1> HIDE DEF o
<1>3. \A t : t \in OrganizationsOf(e.id) <=> (o # None /\ t = o)
  BY <1>1, <1>2 DEF OrganizationsOf, Children
<1>4. OrganizationsOf(e.id) = {o} \ {None}
  BY <1>3
<1> QED
  BY <1>4 DEF o

\* An employee is a member of the team and the department its entry names.
LEMMA UnitsAre ==
  ASSUME GraphInv, Issues = {}, IdsAreOfOneKind, NEW e \in OfKind("employee"),
         NEW kind \in {"department", "team"}
  PROVE  /\ MemberUnits(e.id, kind) = {e.refs[kind]} \ {None}
         /\ \A u \in MemberUnits(e.id, kind) : e.id \in MembersOf(u)
<1> DEFINE d == e.refs[kind]
<1>0. e \in Range(listed) /\ e.kind = "employee"
  BY DEF OfKind
<1>1. \A t : <<e.id, "MEMBER_OF", t>> \in Edges <=>
               \E ref \in References(e) \cap {"department", "team"} : t = e.refs[ref]
  <2> TAKE t
  <2>1. <<e.id, "MEMBER_OF", t>> \in Edges <=>
           \E ref \in References(e) : "MEMBER_OF" = Relationship(e.kind, ref) /\ t = e.refs[ref]
    BY <1>0, EdgesAreOwn
  <2>2. \A ref \in References(e) :
           "MEMBER_OF" = Relationship(e.kind, ref) <=> ref \in {"department", "team"}
    BY <1>0, RelationshipIs DEF References
  <2> QED
    BY <2>1, <2>2
<1>2. \A ref \in References(e) \cap {"department", "team"} :
         e.refs[ref] \in Nodes /\ NodeKind(e.refs[ref]) = ref
  BY <1>0, ReferencesResolve DEF TargetKind
<1>3. kind \in References(e) <=> d # None
  BY DEF References, RefKinds
<1>4. \A t : t \in MemberUnits(e.id, kind) <=> (d # None /\ t = d)
  BY <1>1, <1>2, <1>3 DEF MemberUnits, Children
<1>5. MemberUnits(e.id, kind) = {d} \ {None}
  BY <1>4
<1>6. ASSUME NEW u \in MemberUnits(e.id, kind) PROVE e.id \in MembersOf(u)
  BY <1>0, ListsHoldEntries DEF MemberUnits, Children, MembersOf
<1> QED
  BY <1>5, <1>6

\* Which belong to the organization of the employee, where the entry names one, and have one.
LEMMA UnitsBelong ==
  ASSUME GraphInv, Issues = {}, IdsAreOfOneKind, NEW e \in OfKind("employee"),
         NEW kind \in {"department", "team"}, NEW u \in MemberUnits(e.id, kind)
  PROVE  /\ \E o : o # None /\ OrganizationsOf(u) = {o}
         /\ e.refs["organization"] # None => OrganizationsOf(u) = {e.refs["organization"]}
<1>0. e \in Range(listed) /\ e.kind = "employee"
  BY DEF OfKind
<1>1. u = e.refs[kind] /\ u # None
  BY UnitsAre
<1>2. kind \in References(e)
  BY <1>1 DEF References, RefKinds
<1>3. u \in EntityIds(kind)
  BY <1>0, <1>1, <1>2, ReferencesResolve DEF TargetKind
<1>4. PICK d \in Range(listed) : d.kind = kind /\ d.id = u
  BY <1>3 DEF EntityIds, OfKind
<1>5. Entry(kind, u) = d
  BY <1>4, EntryIsIt
<1>6. d.refs["organization"] # None
  <2>1. d \in Entries
    BY ListsHoldEntries
  <2> QED
    BY <2>1, <1>4, GraphAssumption
<1>7. OrganizationsOf(u) = {d.refs["organization"]}
  BY <1>4, <1>6, OrganizationIs
<1>8. e.refs["organization"] # None => d.refs["organization"] = e.refs["organization"]
  <2>1. Mismatched(e) = {}
    BY <1>0, NothingReported
  <2>2. kind \in Containers(e) \cap References(e)
    BY <1>0, <1>2 DEF Containers
  <2>3. ~ (/\ e.refs[kind] \in EntityIds(kind)
           /\ e.refs["organization"] # None
           /\ Entry(kind, e.refs[kind]).refs["organization"] # e.refs["organization"])
    BY <2>1, <2>2 DEF Mismatched
  <2> QED
    BY <2>3, <1>1, <1>3, <1>5
<1> QED
  BY <1>6, <1>7, <1>8

LEMMA PathsAgree == GraphInv => ValidPathsAgree
<1> SUFFICES ASSUME GraphInv, Issues = {}, IdsAreOfOneKind, NEW e \in OfKind("employee")
             PROVE  LET path == OrganizationalPath(e.id)
                        own == {e.refs["organization"]} \ {None}
                    IN /\ path[2] = {e.refs["team"]} \ {None}
                       /\ path[3] = {e.refs["department"]} \ {None}
                       /\ own # {} => \A u \in path[2] \cup path[3] : OrganizationsOf(u) = own
                       /\ own # {} \/ path[3] # {} => Cardinality(path[4]) = 1
                       /\ \A u \in path[2] \cup path[3] : e.id \in MembersOf(u)
  BY Zenon DEF ValidPathsAgree
<1> DEFINE path == OrganizationalPath(e.id)
           own == {e.refs["organization"]} \ {None}
<1>0. e \in Range(listed) /\ e.kind = "employee"
  BY DEF OfKind
<1>1. e.id \in Nodes /\ NodeKind(e.id) = "employee"
  <2>1. e.id \in Nodes /\ "employee" \in Range(EntityKinds) /\ e.id \in EntityIds("employee")
    BY <1>0, ListsHoldEntries
  <2> QED
    BY <2>1, KindOfNode
<1>2. /\ path[2] = MemberUnits(e.id, "team") /\ path[3] = MemberUnits(e.id, "department")
      /\ path[4] = PathOrganization(e.id)
  BY <1>1 DEF OrganizationalPath
<1> HIDE DEF path
<1>3. path[2] = {e.refs["team"]} \ {None} /\ path[3] = {e.refs["department"]} \ {None}
  BY <1>2, UnitsAre
<1>4. ASSUME own # {}, NEW u \in path[2] \cup path[3] PROVE OrganizationsOf(u) = own
  BY <1>4, <1>2, UnitsBelong
<1>5. OrganizationsOf(e.id) = own
  BY <1>0, OrganizationIs
<1>6. ASSUME own # {} PROVE Cardinality(path[4]) = 1
  <2>1. path[4] = {e.refs["organization"]}
    BY <1>2, <1>5, <1>6 DEF PathOrganization
  <2> QED
    BY <2>1, FS_Singleton
<1>7. ASSUME own = {}, path[3] # {} PROVE Cardinality(path[4]) = 1
  <2>1. path[4] = UNION {OrganizationsOf(d) : d \in MemberUnits(e.id, "department")}
    BY <1>2, <1>5, <1>7 DEF PathOrganization
  <2>2. PICK d : MemberUnits(e.id, "department") = {d}
    <3>1. MemberUnits(e.id, "department") = {e.refs["department"]} /\ e.refs["department"] # None
      BY <1>2, <1>3, <1>7
    <3> QED
      BY <3>1
  <2>3. path[4] = OrganizationsOf(d)
    BY <2>1, <2>2
  <2>4. PICK o : OrganizationsOf(d) = {o}
    BY <2>2, UnitsBelong
  <2> QED
    BY <2>3, <2>4, FS_Singleton
<1>8. ASSUME NEW u \in path[2] \cup path[3] PROVE e.id \in MembersOf(u)
  BY <1>2, UnitsAre
<1> HIDE DEF own
<1>9. /\ path[2] = {e.refs["team"]} \ {None}
      /\ path[3] = {e.refs["department"]} \ {None}
      /\ own # {} => \A u \in path[2] \cup path[3] : OrganizationsOf(u) = own
      /\ own # {} \/ path[3] # {} => Cardinality(path[4]) = 1
      /\ \A u \in path[2] \cup path[3] : e.id \in MembersOf(u)
  BY <1>3, <1>4, <1>6, <1>7, <1>8
<1> QED
  BY Zenon, <1>9 DEF path, own

(* Decisions.                                                                *)

\* Of two different ones exactly one is ahead of the other, and what is ahead of that is too.
IsOrderOf(ahead, n) ==
  /\ \A i \in 1 .. n : ahead[i] \in SUBSET (1 .. n)
  /\ \A i, j \in 1 .. n : i \in ahead[j] => j \notin ahead[i]
  /\ \A i, j \in 1 .. n : i = j \/ i \in ahead[j] \/ j \in ahead[i]
  /\ \A i, j, k \in 1 .. n : i \in ahead[j] /\ j \in ahead[k] => i \in ahead[k]

\* Where an order puts the elements: each at a place of its own, past those ahead of it.
IsPlacing(place, ahead, n) ==
  /\ place \in [1 .. n -> 1 .. n]
  /\ \A i, j \in 1 .. n : place[i] = place[j] => i = j
  /\ \A k \in 1 .. n : \E i \in 1 .. n : place[i] = k
  /\ \A i, j \in 1 .. n : i \in ahead[j] <=> place[i] < place[j]

LEMMA PlacesAre ==
  ASSUME NEW n \in Nat, NEW ahead, IsOrderOf(ahead, n), NEW place,
         place = [i \in 1 .. n |-> Cardinality(ahead[i]) + 1]
  PROVE  IsPlacing(place, ahead, n)
<1> DEFINE I == 1 .. n
<1>1. /\ \A i \in I : ahead[i] \in SUBSET I
      /\ \A i, j \in I : i \in ahead[j] => j \notin ahead[i]
      /\ \A i, j \in I : i = j \/ i \in ahead[j] \/ j \in ahead[i]
      /\ \A i, j, k \in I : i \in ahead[j] /\ j \in ahead[k] => i \in ahead[k]
  BY Zenon DEF IsOrderOf
<1>2. IsFiniteSet(I) /\ Cardinality(I) = n
  BY FS_Interval
<1>3. place = [i \in I |-> Cardinality(ahead[i]) + 1]
  OBVIOUS
<1> HIDE DEF I
<1>4. \A i \in I : place[i] = Cardinality(ahead[i]) + 1
  BY <1>3
<1>5. \A i \in I : IsFiniteSet(ahead[i]) /\ Cardinality(ahead[i]) \in Nat /\ i \notin ahead[i]
  BY <1>1, <1>2, FS_Subset, FS_CardinalityType
<1>6. ASSUME NEW i \in I, NEW j \in I, i \in ahead[j] PROVE place[i] < place[j]
  <2>1. ahead[i] \in SUBSET ahead[j] /\ ahead[i] # ahead[j]
    BY <1>1, <1>5, <1>6
  <2>2. Cardinality(ahead[i]) <= Cardinality(ahead[j]) /\ Cardinality(ahead[i]) # Cardinality(ahead[j])
    BY <1>5, <2>1, FS_Subset
  <2> QED
    BY <1>4, <1>5, <2>2
<1>7. \A i \in I : place[i] \in I
  <2> SUFFICES ASSUME NEW i \in I PROVE place[i] \in I
    OBVIOUS
  <2>1. ahead[i] \in SUBSET I /\ ahead[i] # I
    BY <1>1, <1>5
  <2>2. Cardinality(ahead[i]) <= n /\ Cardinality(ahead[i]) # n
    BY <1>2, <2>1, FS_Subset
  <2> QED
    BY <1>4, <1>5, <2>2 DEF I
<1>8. place \in [I -> I]
  BY <1>3, <1>7
<1>9. \A i \in I : place[i] \in Int
  BY <1>7 DEF I
<1>10. ASSUME NEW i \in I, NEW j \in I, place[i] < place[j] PROVE i \in ahead[j]
  <2>1. ~(place[j] < place[i]) /\ place[i] # place[j]
    <3>1. PICK a \in Int : a = place[i]
      BY <1>9
    <3>2. PICK b \in Int : b = place[j]
      BY <1>9
    <3>3. a < b
      BY <1>10, <3>1, <3>2, Zenon
    <3>4. ~(b < a) /\ a # b
      BY <3>3
    <3> QED
      BY <3>1, <3>2, <3>4, Zenon
  <2> QED
    BY <1>1, <1>6, <2>1, Zenon
<1>11. ASSUME NEW i \in I, NEW j \in I, place[i] = place[j] PROVE i = j
  <2>1. ~(place[i] < place[j]) /\ ~(place[j] < place[i])
    <3>1. PICK a \in Int : a = place[i]
      BY <1>9
    <3>2. a = place[j] /\ ~(a < a)
      BY <1>11, <3>1
    <3> QED
      BY <3>1, <3>2, Zenon
  <2> QED
    BY <1>1, <1>6, <2>1, Zenon
<1>12. place \in Injection(I, I)
  <2>1. DOMAIN place = I
    BY <1>8
  <2>2. \A i, j \in DOMAIN place : place[i] = place[j] => i = j
    BY <1>11, <2>1
  <2> QED
    BY <1>8, <2>2 DEF Injection, IsInjective
<1>13. place \in Surjection(I, I)
  BY <1>2, <1>12, FS_Injection
<1>14. \A k \in I : \E i \in I : place[i] = k
  BY <1>13 DEF Surjection
<1>15. \A i, j \in I : i \in ahead[j] <=> place[i] < place[j]
  BY <1>6, <1>10, Zenon
<1>16. \A i, j \in I : place[i] = place[j] => i = j
  BY <1>11, Zenon
<1> QED
  BY <1>8, <1>14, <1>15, <1>16, Zenon DEF IsPlacing, I

\* Sorting puts every element at its place.
LEMMA SortedIs ==
  ASSUME NEW n \in Nat, NEW seq, DOMAIN seq = 1 .. n, NEW ahead, IsOrderOf(ahead, n)
  PROVE  /\ DOMAIN Sorted(seq, ahead) = 1 .. n
         /\ \E place : /\ IsPlacing(place, ahead, n)
                       /\ \A i \in 1 .. n : Sorted(seq, ahead)[place[i]] = seq[i]
<1> DEFINE place == [i \in 1 .. n |-> Cardinality(ahead[i]) + 1]
           at(k) == CHOOSE i \in 1 .. n : place[i] = k
<1>1. IsPlacing(place, ahead, n)
  BY PlacesAre
<1>2. Sorted(seq, ahead) = [k \in 1 .. n |-> seq[at(k)]]
  <2>1. Sorted(seq, ahead) =
          [k \in 1 .. n |-> seq[CHOOSE i \in 1 .. n : Cardinality(ahead[i]) + 1 = k]]
    BY DEF Sorted
  <2>2. \A k \in 1 .. n : at(k) = CHOOSE i \in 1 .. n : Cardinality(ahead[i]) + 1 = k
    OBVIOUS
  <2> QED
    BY <2>1, <2>2
<1> HIDE DEF place
<1>3. /\ place \in [1 .. n -> 1 .. n]
      /\ \A i, j \in 1 .. n : place[i] = place[j] => i = j
      /\ \A k \in 1 .. n : \E i \in 1 .. n : place[i] = k
  BY <1>1, Zenon DEF IsPlacing
<1>4. \A k \in 1 .. n : at(k) \in 1 .. n /\ place[at(k)] = k
  BY <1>3, Zenon
<1> HIDE DEF at
<1>5. \A k \in 1 .. n : Sorted(seq, ahead)[k] = seq[at(k)]
  BY <1>2
<1>6. \A i \in 1 .. n : Sorted(seq, ahead)[place[i]] = seq[i]
  <2> SUFFICES ASSUME NEW i \in 1 .. n PROVE Sorted(seq, ahead)[place[i]] = seq[i]
    OBVIOUS
  <2>1. PICK k \in 1 .. n : k = place[i]
    BY <1>3
  <2>2. at(k) = i
    BY <1>3, <1>4, <2>1, Zenon
  <2> QED
    BY <1>5, <2>1, <2>2, Zenon
<1>7. DOMAIN Sorted(seq, ahead) = 1 .. n
  BY <1>2
<1> QED
  BY <1>1, <1>6, <1>7, Zenon
\* One of what is found, or nothing where nothing is.
LEMMA FirstIs ==
  ASSUME NEW S
  PROVE  /\ FirstOfBest(S) = {} <=> S = {}
         /\ FirstOfBest(S) = {} \/ \E x \in S : FirstOfBest(S) = {x}
<1>1. CASE S = {}
  BY <1>1 DEF FirstOfBest
<1>2. CASE S # {}
  <2>1. PICK x : x = CHOOSE y \in S : TRUE
    OBVIOUS
  <2>2. x \in S
    BY <1>2, <2>1, Zenon
  <2>3. FirstOfBest(S) = {x}
    BY <1>2, <2>1 DEF FirstOfBest
  <2> QED
    BY <1>2, <2>2, <2>3
<1> QED
  BY <1>1, <1>2

LEMMA FoundAre ==
  ASSUME NEW c, NEW hs, NEW ps
  PROVE  /\ FindHistorical(c, hs) = {} \/ \E h \in hs : FindHistorical(c, hs) = {h}
         /\ FindPredictive(c, ps) = {} \/ \E p \in ps : FindPredictive(c, ps) = {p}
<1>1. FindHistorical(c, hs) = {} \/ \E h \in hs : FindHistorical(c, hs) = {h}
  <2> DEFINE S == {h \in {k \in hs : HistoryMatches(c, k)} :
                     \A o \in {k \in hs : HistoryMatches(c, k)} :
                       h.count > o.count \/ (h.count = o.count /\ h.id <= o.id)}
  <2>1. FindHistorical(c, hs) = FirstOfBest(S)
    BY DEF FindHistorical
  <2>2. S \subseteq hs
    OBVIOUS
  <2> HIDE DEF S
  <2> QED
    BY <2>1, <2>2, FirstIs
<1>2. FindPredictive(c, ps) = {} \/ \E p \in ps : FindPredictive(c, ps) = {p}
  <2> DEFINE S == {p \in {k \in ps : PredictionMatches(c, k)} :
                     \A o \in {k \in ps : PredictionMatches(c, k)} :
                       \/ p.probability > o.probability
                       \/ p.probability = o.probability /\ p.confidence > o.confidence
                       \/ p.probability = o.probability /\ p.confidence = o.confidence /\ p.id <= o.id}
  <2>1. FindPredictive(c, ps) = FirstOfBest(S)
    BY DEF FindPredictive
  <2>2. S \subseteq ps
    OBVIOUS
  <2> HIDE DEF S
  <2> QED
    BY <2>1, <2>2, FirstIs
<1> QED
  BY <1>1, <1>2

\* What is found of a scope does not depend on what there is of others.
LEMMA FoundInScope ==
  ASSUME NEW c, NEW hs, NEW ps
  PROVE  /\ FindHistorical(c, hs) = FindHistorical(c, {h \in hs : h.scope = c.scope})
         /\ FindPredictive(c, ps) = FindPredictive(c, {p \in ps : p.scope = c.scope})
<1>1. {h \in hs : HistoryMatches(c, h)}
        = {h \in {k \in hs : k.scope = c.scope} : HistoryMatches(c, h)}
  BY DEF HistoryMatches
<1>2. {p \in ps : PredictionMatches(c, p)}
        = {p \in {k \in ps : k.scope = c.scope} : PredictionMatches(c, p)}
  BY DEF PredictionMatches
<1>3. FindHistorical(c, hs) = FindHistorical(c, {h \in hs : h.scope = c.scope})
  BY <1>1, Zenon DEF FindHistorical
<1>4. FindPredictive(c, ps) = FindPredictive(c, {p \in ps : p.scope = c.scope})
  BY <1>2, Zenon DEF FindPredictive
<1> QED
  BY <1>3, <1>4

LEMMA FuseInScope ==
  ASSUME NEW c, NEW hs, NEW ps
  PROVE  Fuse(c, hs, ps) = Fuse(c, {h \in hs : h.scope = c.scope}, {p \in ps : p.scope = c.scope})
  BY FoundInScope, Zenon DEF Fuse

\* One element, and one or none of each of two other kinds.
UpToThree(a, b, e, hasB, hasE) ==
  {a} \cup (IF hasB = 1 THEN {b} ELSE {}) \cup (IF hasE = 1 THEN {e} ELSE {})

LEMMA ThreeCount ==
  ASSUME NEW a, NEW b, NEW e, a # b, a # e, b # e, NEW hasB \in {0, 1}, NEW hasE \in {0, 1}
  PROVE  /\ IsFiniteSet(UpToThree(a, b, e, hasB, hasE))
         /\ Cardinality(UpToThree(a, b, e, hasB, hasE)) = 1 + hasB + hasE
<1>0. PICK S : S = UpToThree(a, b, e, hasB, hasE)
  OBVIOUS
<1>1. IsFiniteSet({a}) /\ Cardinality({a}) = 1
  BY FS_Singleton
<1>2. PICK T : T = {a} \cup (IF hasB = 1 THEN {b} ELSE {})
  OBVIOUS
<1>3. IsFiniteSet(T) /\ Cardinality(T) = 1 + hasB
  <2>1. CASE hasB = 0
    BY <1>1, <1>2, <2>1
  <2>2. CASE hasB = 1
    <3>1. T = {a} \cup {b} /\ b \notin {a}
      BY <1>2, <2>2
    <3> QED
      BY <1>1, <2>2, <3>1, FS_AddElement
  <2> QED
    BY <2>1, <2>2
<1>4. CASE hasE = 0
  <2>1. S = T
    BY <1>0, <1>2, <1>4 DEF UpToThree
  <2> QED
    BY <1>0, <1>3, <1>4, <2>1
<1>5. CASE hasE = 1
  <2>1. S = T \cup {e} /\ e \notin T
    BY <1>0, <1>2, <1>5 DEF UpToThree
  <2> QED
    BY <1>0, <1>3, <1>5, <2>1, FS_AddElement
<1> QED
  BY <1>0, <1>4, <1>5

LEMMA ProportionAtMost ==
  ASSUME NEW a \in Nat, NEW b \in Nat, b > 0, a <= Full * b
  PROVE  a \div b \in Nat /\ a \div b <= Full
  BY DEF Full

LEMMA DeviationIs ==
  ASSUME NEW h \in HistoricalContexts
  PROVE  HistoricalStrength(h) \in Nat /\ HistoricalStrength(h) <= Full
<1>1. h.deviation \in Nat
  BY FusionAssumption, Zenon
<1>2. CASE h.deviation <= Full
  BY <1>1, <1>2 DEF HistoricalStrength
<1>3. CASE ~(h.deviation <= Full)
  <2>1. HistoricalStrength(h) = (Full * h.deviation) \div (Full + h.deviation)
    BY <1>3 DEF HistoricalStrength
  <2>2. PICK d \in Nat : d = h.deviation
    BY <1>1, Zenon
  <2>3. PICK a \in Nat : a = Full * d
    BY DEF Full
  <2>4. PICK b \in Nat : b = Full + d
    BY DEF Full
  <2>5. b > 0 /\ a <= Full * b
    BY <2>3, <2>4 DEF Full
  <2>6. HistoricalStrength(h) = a \div b
    BY <2>1, <2>2, <2>3, <2>4
  <2> QED
    BY <2>5, <2>6, ProportionAtMost
<1> QED
  BY <1>2, <1>3

LEMMA ContextsAre ==
  /\ \A c \in CurrentContexts : /\ c.signal \in Nat /\ c.scope \in Nat
                                /\ c.score \in Nat /\ c.score <= Full
  /\ \A p \in PredictiveContexts : /\ p.probability \in Nat /\ p.probability <= Full
                                   /\ p.confidence \in Nat /\ p.confidence <= Full
<1>1. Full \in Int
  BY DEF Full
<1>2. ASSUME NEW c \in CurrentContexts
      PROVE  c.signal \in Nat /\ c.scope \in Nat /\ c.score \in Nat /\ c.score <= Full
  <2>1. c.signal \in 0 .. 9 /\ c.scope \in Nat /\ c.score \in 0 .. Full
    BY FusionAssumption, Zenon
  <2> QED
    BY <1>1, <2>1
<1>3. ASSUME NEW p \in PredictiveContexts
      PROVE  /\ p.probability \in Nat /\ p.probability <= Full
             /\ p.confidence \in Nat /\ p.confidence <= Full
  <2>1. p.probability \in 0 .. Full /\ p.confidence \in 0 .. Full
    BY FusionAssumption, Zenon
  <2> QED
    BY <1>1, <2>1
<1> QED
  BY <1>2, <1>3

LEMMA RankIs ==
  ASSUME NEW name PROVE PriorityRank(name) \in Nat /\ PriorityRank(name) <= 3
  BY DEF PriorityRank

\* With a prediction the priority is that of the greatest rank of three.
LEMMA HighestIs ==
  ASSUME NEW base, NEW p
  PROVE  PriorityRank(FusedPriority(base, p)) >= PriorityRank(base)
<1> DEFINE S == {PriorityRank(base), PriorityRank(p.priority), PriorityRank(p.severity)}
           names == {"low", "normal", "high", "critical"}
<1>1. S \in SUBSET Nat /\ \A n \in S : n <= 3
  BY RankIs
<1>2. IsFiniteSet(S)
  <2> HIDE DEF S
  <2> QED
    BY <1>1, FS_BoundedSetOfNaturals
<1>3. Max(S) \in S /\ \A n \in S : Max(S) >= n
  <2>1. S # {}
    OBVIOUS
  <2> HIDE DEF S
  <2> QED
    BY <1>1, <1>2, <2>1, GreatestOf
<1>4. PICK highest \in Nat : highest = Max(S)
  BY <1>1, <1>3
<1>5. highest <= 3 /\ highest >= PriorityRank(base)
  BY <1>1, <1>3, <1>4
<1>6. \E name \in names : PriorityRank(name) = highest
  <2>1. /\ PriorityRank("low") = 0 /\ PriorityRank("normal") = 1
        /\ PriorityRank("high") = 2 /\ PriorityRank("critical") = 3
    BY DEF PriorityRank
  <2>2. highest = 0 \/ highest = 1 \/ highest = 2 \/ highest = 3
    BY <1>5
  <2> QED
    BY <2>1, <2>2
<1>7. FusedPriority(base, p) = CHOOSE name \in names : PriorityRank(name) = highest
  BY <1>4 DEF FusedPriority
<1>8. PriorityRank(FusedPriority(base, p)) = highest
  <2> HIDE DEF names
  <2> QED
    BY <1>6, <1>7, Zenon
<1> QED
  BY <1>5, <1>8

WeightOf(e) == e.weight

\* The average of weights within bounds is within them.
LEMMA AverageIs ==
  ASSUME NEW x, IsFiniteSet(x.evidence), Cardinality(x.evidence) > 0,
         \A e \in x.evidence : e.weight \in Nat /\ e.weight <= Full
  PROVE  AverageWeight(x) \in Nat /\ AverageWeight(x) <= Full
<1>1. PICK S : S = x.evidence
  OBVIOUS
<1> DEFINE w == [e \in S |-> WeightOf(e)]
           P(g) == g = [t \in SUBSET S |-> IF t = {} THEN 0 ELSE WeightOf(Picked(t)) + g[t \ {Picked(t)}]]
<1>2. IsFiniteSet(S) /\ \A e \in S : e.weight \in Nat /\ e.weight <= Full
  BY <1>1
<1>3. AverageWeight(x) = (CHOOSE g : P(g))[S] \div Cardinality(S)
  BY <1>1 DEF AverageWeight, MapThenSumSet, MapThenFoldSet, Picked, WeightOf
<1>4. \A t \in SUBSET S : t # {} => Picked(t) \in S
  <2> SUFFICES ASSUME NEW t \in SUBSET S, t # {} PROVE Picked(t) \in S
    OBVIOUS
  <2>1. PICK e \in t : TRUE
    OBVIOUS
  <2>2. Picked(t) \in t
    BY <2>1, Zenon DEF Picked
  <2> QED
    BY <2>2
<1>5. \A e \in S : w[e] = WeightOf(e)
  OBVIOUS
<1>6. ASSUME NEW g PROVE P(g) <=> IsSum(g, w, S)
  <2> HIDE DEF w
  <2>1. ASSUME NEW t \in SUBSET S
        PROVE  SumStep(g, w, t) = IF t = {} THEN 0 ELSE WeightOf(Picked(t)) + g[t \ {Picked(t)}]
    BY <1>4, <1>5 DEF SumStep
  <2> QED
    BY <2>1 DEF IsSum
<1>7. PICK h : IsSum(h, w, S)
  BY <1>2, SumExists
<1>8. PICK g : g = CHOOSE z : P(z)
  OBVIOUS
<1>9. P(g)
  <2>1. P(h)
    BY <1>6, <1>7
  <2> HIDE DEF P
  <2> QED
    BY <1>8, <2>1, Zenon
<1>10. IsSum(g, w, S)
  BY <1>6, <1>9
<1>11. \A e \in S : w[e] \in Nat /\ w[e] <= Full
  BY <1>2, <1>5 DEF WeightOf
<1> HIDE DEF w, P
<1>12. g[S] \in Nat /\ g[S] <= Full * Cardinality(S)
  <2>1. Full \in Nat
    BY DEF Full
  <2> QED
    BY <1>2, <1>10, <1>11, <2>1, SumAtMost
<1>13. PICK a \in Nat, b \in Nat : a = g[S] /\ b = Cardinality(S)
  BY <1>2, <1>12, FS_CardinalityType
<1>14. a \div b \in Nat /\ a \div b <= Full
  BY <1>1, <1>12, <1>13, ProportionAtMost
<1> QED
  BY <1>3, <1>8, <1>13, <1>14

\* What ranking, graphs and explanations need of a decision.
IsDecision(x) ==
  /\ x.id \in Nat /\ x.confidence \in Nat /\ x.confidence <= Full
  /\ IsFiniteSet(EvidenceKinds(x)) /\ Cardinality(EvidenceKinds(x)) \in 1 .. 3
  /\ Cardinality(x.evidence) = Cardinality(EvidenceKinds(x))
  /\ AverageWeight(x) \in Nat /\ AverageWeight(x) <= Full

LEMMA BaseConfidenceIs ==
  ASSUME NEW c \in CurrentContexts, NEW hs,
         hs = {} \/ \E h \in HistoricalContexts : hs = {h}
  PROVE  BaseConfidence(c, hs) \in Nat /\ BaseConfidence(c, hs) <= Full
<1>1. c.score \in Nat /\ c.score <= Full /\ Full \in Nat
  BY ContextsAre DEF Full
<1>2. CASE hs = {}
  BY <1>1, <1>2 DEF BaseConfidence
<1>3. CASE hs # {}
  <2>1. PICK h \in HistoricalContexts : hs = {h}
    BY <1>3
  <2>2. (CHOOSE k \in hs : TRUE) = h
    BY <2>1
  <2>3. BaseConfidence(c, hs) = (c.score + HistoricalStrength(h)) \div 2
    BY <1>3, <2>2 DEF BaseConfidence
  <2>4. PICK a \in Nat : a = c.score
    BY <1>1
  <2>5. PICK b \in Nat : b = HistoricalStrength(h)
    BY DeviationIs
  <2>6. a <= Full /\ b <= Full
    BY <1>1, <2>4, <2>5, DeviationIs
  <2>7. (a + b) \div 2 \in Nat /\ (a + b) \div 2 <= Full
    BY <1>1, <2>6
  <2> QED
    BY <2>3, <2>4, <2>5, <2>7
<1> QED
  BY <1>2, <1>3

LEMMA FuseIs ==
  ASSUME NEW c \in CurrentContexts, NEW hs \in SUBSET HistoricalContexts,
         NEW ps \in SUBSET PredictiveContexts, NEW x, x = Fuse(c, hs, ps)
  PROVE  IsDecision(x) /\ x.id = DecisionId(c)
<1>1. PICK H : H = FindHistorical(c, hs)
  OBVIOUS
<1>2. PICK P : P = FindPredictive(c, ps)
  OBVIOUS
<1>3. H = {} \/ \E h \in HistoricalContexts : H = {h}
  BY <1>1, FoundAre
<1>4. P = {} \/ \E p \in PredictiveContexts : P = {p}
  BY <1>2, FoundAre
<1>5. PICK base : base = BaseConfidence(c, H)
  OBVIOUS
<1>6. base \in Nat /\ base <= Full /\ Full \in Nat
  BY <1>3, <1>5, BaseConfidenceIs DEF Full
<1>7. x = [id |-> DecisionId(c),
           priority |-> IF P = {} THEN BasePriority(base)
                        ELSE FusedPriority(BasePriority(base), CHOOSE p \in P : TRUE),
           confidence |-> IF P = {} THEN base
                          ELSE LET p == CHOOSE p \in P : TRUE
                               IN (base + p.probability + p.confidence) \div 3,
           historical |-> {h.id : h \in H}, predictive |-> {p.id : p \in P},
           evidence |->
             {[id |-> <<"CURRENT", c.signal>>, weight |-> c.score]}
               \union {[id |-> <<"HIST", h.id>>, weight |-> HistoricalStrength(h)] : h \in H}
               \union {[id |-> <<"PRED", p.id>>,
                        weight |-> (p.probability + p.confidence) \div 2] : p \in P}]
  BY <1>1, <1>2, <1>5, Zenon DEF Fuse
<1>8. x.id = DecisionId(c) /\ x.id \in Nat
  <2>1. c.scope \in Nat /\ c.signal \in Nat
    BY ContextsAre
  <2> QED
    BY <1>7, <2>1 DEF DecisionId
<1>9. x.confidence \in Nat /\ x.confidence <= Full
  <2>1. CASE P = {}
    BY <1>6, <1>7, <2>1
  <2>2. CASE P # {}
    <3>1. PICK p \in PredictiveContexts : P = {p}
      BY <1>4, <2>2
    <3>2. (CHOOSE q \in P : TRUE) = p
      BY <3>1
    <3>3. x.confidence = (base + p.probability + p.confidence) \div 3
      <4>1. x.confidence = IF P = {} THEN base
                           ELSE LET q == CHOOSE q \in P : TRUE
                                IN (base + q.probability + q.confidence) \div 3
        BY <1>7
      <4> QED
        BY <2>2, <3>2, <4>1, Zenon
    <3>4. PICK a \in Nat : a = p.probability
      BY ContextsAre
    <3>5. PICK b \in Nat : b = p.confidence
      BY ContextsAre
    <3>6. a <= Full /\ b <= Full
      BY <3>4, <3>5, ContextsAre
    <3>7. (base + a + b) \div 3 \in Nat /\ (base + a + b) \div 3 <= Full
      BY <1>6, <3>6
    <3> QED
      BY <3>3, <3>4, <3>5, <3>7
  <2> QED
    BY <2>1, <2>2
<1>10. PICK hasH \in {0, 1} : hasH = IF H = {} THEN 0 ELSE 1
  OBVIOUS
<1>11. PICK hasP \in {0, 1} : hasP = IF P = {} THEN 0 ELSE 1
  OBVIOUS
<1>12. IsFiniteSet(EvidenceKinds(x)) /\ Cardinality(EvidenceKinds(x)) = 1 + hasH + hasP
  <2>1. (x.historical # {} <=> hasH = 1) /\ (x.predictive # {} <=> hasP = 1)
    BY <1>7, <1>10, <1>11
  <2>2. EvidenceKinds(x) = UpToThree("current", "historical", "predictive", hasH, hasP)
    BY <2>1 DEF EvidenceKinds, UpToThree
  <2>3. "current" # "historical" /\ "current" # "predictive" /\ "historical" # "predictive"
    OBVIOUS
  <2> QED
    BY <1>10, <1>11, <2>2, <2>3, ThreeCount
<1>13. /\ IsFiniteSet(x.evidence) /\ Cardinality(x.evidence) = 1 + hasH + hasP
       /\ \A e \in x.evidence : e.weight \in Nat /\ e.weight <= Full
  <2> DEFINE h == CHOOSE k \in H : TRUE
             p == CHOOSE k \in P : TRUE
             ofC == [id |-> <<"CURRENT", c.signal>>, weight |-> c.score]
             ofH == [id |-> <<"HIST", h.id>>, weight |-> HistoricalStrength(h)]
             ofP == [id |-> <<"PRED", p.id>>, weight |-> (p.probability + p.confidence) \div 2]
  <2>1. hasH = 1 => H = {h} /\ h \in HistoricalContexts
    BY <1>3, <1>10
  <2>2. hasP = 1 => P = {p} /\ p \in PredictiveContexts
    BY <1>4, <1>11
  <2>3. hasH # 1 => H = {}
    BY <1>10
  <2>4. hasP # 1 => P = {}
    BY <1>11
  <2>5. ofC # ofH /\ ofC # ofP /\ ofH # ofP
    OBVIOUS
  <2>6. {[id |-> <<"HIST", k.id>>, weight |-> HistoricalStrength(k)] : k \in H}
          = IF hasH = 1 THEN {ofH} ELSE {}
    <3> HIDE DEF h
    <3> QED
      BY <2>1, <2>3
  <2>7. {[id |-> <<"PRED", k.id>>, weight |-> (k.probability + k.confidence) \div 2] : k \in P}
          = IF hasP = 1 THEN {ofP} ELSE {}
    <3> HIDE DEF p
    <3> QED
      BY <2>2, <2>4
  <2>8. x.evidence = UpToThree(ofC, ofH, ofP, hasH, hasP)
    <3>1. x.evidence = {ofC}
            \cup {[id |-> <<"HIST", k.id>>, weight |-> HistoricalStrength(k)] : k \in H}
            \cup {[id |-> <<"PRED", k.id>>, weight |-> (k.probability + k.confidence) \div 2] : k \in P}
      BY <1>7
    <3> HIDE DEF ofC, ofH, ofP
    <3> QED
      BY <2>6, <2>7, <3>1, Zenon DEF UpToThree
  <2>9. ofC.weight \in Nat /\ ofC.weight <= Full
    BY ContextsAre
  <2>10. hasH = 1 => ofH.weight \in Nat /\ ofH.weight <= Full
    <3> HIDE DEF h
    <3> QED
      BY <2>1, DeviationIs
  <2>11. hasP = 1 => ofP.weight \in Nat /\ ofP.weight <= Full
    <3> SUFFICES ASSUME hasP = 1 PROVE ofP.weight \in Nat /\ ofP.weight <= Full
      OBVIOUS
    <3> HIDE DEF p
    <3>1. PICK a \in Nat : a = p.probability
      BY <2>2, ContextsAre
    <3>2. PICK b \in Nat : b = p.confidence
      BY <2>2, ContextsAre
    <3>3. a <= Full /\ b <= Full
      BY <2>2, <3>1, <3>2, ContextsAre
    <3>4. (a + b) \div 2 \in Nat /\ (a + b) \div 2 <= Full
      BY <1>6, <3>3
    <3> QED
      BY <3>1, <3>2, <3>4
  <2> HIDE DEF ofC, ofH, ofP
  <2>12. IsFiniteSet(x.evidence) /\ Cardinality(x.evidence) = 1 + hasH + hasP
    BY <1>10, <1>11, <2>5, <2>8, ThreeCount
  <2>13. \A e \in x.evidence : e = ofC \/ (hasH = 1 /\ e = ofH) \/ (hasP = 1 /\ e = ofP)
    BY <2>8 DEF UpToThree
  <2>14. \A e \in x.evidence : e.weight \in Nat /\ e.weight <= Full
    BY <2>9, <2>10, <2>11, <2>13, Zenon
  <2> QED
    BY <2>12, <2>14
<1>14. AverageWeight(x) \in Nat /\ AverageWeight(x) <= Full
  BY <1>13, AverageIs
<1> QED
  BY <1>8, <1>9, <1>12, <1>13, <1>14 DEF IsDecision

\* The greater first, of equal ones that of the lesser id, and of these the first in the list.
IsBefore(a, b, i, c, d, j) == a > c \/ (a = c /\ b < d) \/ (a = c /\ b = d /\ i < j)

AheadBy(s, id, n) == [i \in 1 .. n |-> {j \in 1 .. n : IsBefore(s[j], id[j], j, s[i], id[i], i)}]

LEMMA KeysAreOrder ==
  ASSUME NEW n \in Nat, NEW s, NEW id, \A i \in 1 .. n : s[i] \in Nat /\ id[i] \in Nat
  PROVE  IsOrderOf(AheadBy(s, id, n), n)
         /\ \A i, j \in 1 .. n : i \in AheadBy(s, id, n)[j] => s[i] >= s[j]
<1> DEFINE I == 1 .. n
           ahead == AheadBy(s, id, n)
<1>1. \A i \in I : i \in Nat
  OBVIOUS
<1>2. \A i \in I : ahead[i] = {j \in I : IsBefore(s[j], id[j], j, s[i], id[i], i)}
  BY DEF AheadBy
<1>3. \A i \in I : s[i] \in Nat /\ id[i] \in Nat
  OBVIOUS
<1> HIDE DEF I, ahead
<1>4. \A i, j \in I : i \in ahead[j] <=> IsBefore(s[i], id[i], i, s[j], id[j], j)
  BY <1>2
<1>5. ASSUME NEW i \in I, NEW j \in I
      PROVE  /\ i \in ahead[j] => j \notin ahead[i] /\ s[i] >= s[j]
             /\ i = j \/ i \in ahead[j] \/ j \in ahead[i]
             /\ \A k \in I : i \in ahead[j] /\ j \in ahead[k] => i \in ahead[k]
  <2>1. i \in Nat /\ j \in Nat /\ s[i] \in Nat /\ s[j] \in Nat /\ id[i] \in Nat /\ id[j] \in Nat
    BY <1>1, <1>3
  <2>2. /\ IsBefore(s[i], id[i], i, s[j], id[j], j) =>
             ~IsBefore(s[j], id[j], j, s[i], id[i], i) /\ s[i] >= s[j]
        /\ i = j \/ IsBefore(s[i], id[i], i, s[j], id[j], j) \/ IsBefore(s[j], id[j], j, s[i], id[i], i)
    <3>1. ASSUME NEW a \in Nat, NEW b \in Nat, NEW c \in Nat, NEW d \in Nat
          PROVE  /\ IsBefore(a, b, i, c, d, j) => ~IsBefore(c, d, j, a, b, i) /\ a >= c
                 /\ i = j \/ IsBefore(a, b, i, c, d, j) \/ IsBefore(c, d, j, a, b, i)
      BY <2>1 DEF IsBefore
    <3> QED
      BY <2>1, <3>1, Zenon
  <2>3. ASSUME NEW k \in I PROVE i \in ahead[j] /\ j \in ahead[k] => i \in ahead[k]
    <3>1. k \in Nat /\ s[k] \in Nat /\ id[k] \in Nat
      BY <1>1, <1>3
    <3>2. IsBefore(s[i], id[i], i, s[j], id[j], j) /\ IsBefore(s[j], id[j], j, s[k], id[k], k)
            => IsBefore(s[i], id[i], i, s[k], id[k], k)
      <4>1. ASSUME NEW a \in Nat, NEW b \in Nat, NEW c \in Nat, NEW d \in Nat, NEW e \in Nat, NEW f \in Nat,
                   IsBefore(a, b, i, c, d, j), IsBefore(c, d, j, e, f, k)
            PROVE  IsBefore(a, b, i, e, f, k)
        BY <2>1, <3>1, <4>1 DEF IsBefore
      <4> QED
        BY <2>1, <3>1, <4>1, Zenon
    <3> QED
      BY <1>4, <3>2, Zenon
  <2> QED
    BY <1>4, <2>2, <2>3, Zenon
<1>6. \A i \in I : ahead[i] \in SUBSET I
  BY <1>2
<1> QED
  BY <1>5, <1>6, Zenon DEF IsOrderOf, I, ahead

\* The decisions of n contexts: each is one, and there is no other.
AreFused(decisions, current, hs, ps, n) ==
  /\ DOMAIN decisions = 1 .. n
  /\ \A k \in 1 .. n : IsDecision(decisions[k])
  /\ \A i \in 1 .. n : \E k \in 1 .. n : decisions[k] = Fuse(current[i], hs, ps)
  /\ \A k \in 1 .. n : \E i \in 1 .. n : decisions[k] = Fuse(current[i], hs, ps)

\* A ranking has each decision with its id and score, greater scores first.
IsRanking(ranking, decisions, n) ==
  /\ DOMAIN ranking = 1 .. n
  /\ \A r \in 1 .. n : \E k \in 1 .. n :
       /\ ranking[r].id = decisions[k].id /\ ranking[r].score = TotalScore(decisions[k])
       /\ ranking[r].decision = decisions[k]
  /\ \A k \in 1 .. n : \E r \in 1 .. n :
       ranking[r].id = decisions[k].id /\ ranking[r].score = TotalScore(decisions[k])
  /\ \A r, q \in 1 .. n : r < q => ranking[r].score >= ranking[q].score

LEMMA FuseManyIs ==
  ASSUME NEW n \in Nat, NEW current \in [1 .. n -> CurrentContexts],
         NEW hs \in SUBSET HistoricalContexts, NEW ps \in SUBSET PredictiveContexts
  PROVE  AreFused(FuseMany(current, hs, ps), current, hs, ps, n)
<1>0. PICK decisions : decisions = FuseMany(current, hs, ps)
  OBVIOUS
<1> DEFINE results == [i \in 1 .. n |-> Fuse(current[i], hs, ps)]
           id == [i \in 1 .. n |-> results[i].id]
           same == [i \in 1 .. n |-> 0]
           ahead == [i \in 1 .. n |-> {j \in 1 .. n :
                       results[j].id < results[i].id \/ (results[j].id = results[i].id /\ j < i)}]
<1>1. decisions = Sorted(results, ahead)
  BY <1>0 DEF FuseMany
<1>2. \A i \in 1 .. n : IsDecision(results[i]) /\ id[i] \in Nat
  <2> SUFFICES ASSUME NEW i \in 1 .. n PROVE IsDecision(results[i]) /\ id[i] \in Nat
    OBVIOUS
  <2>1. current[i] \in CurrentContexts /\ results[i] = Fuse(current[i], hs, ps)
    OBVIOUS
  <2>2. IsDecision(results[i])
    BY <2>1, FuseIs
  <2> QED
    BY <2>2 DEF IsDecision
<1>3. \A i \in 1 .. n : results[i] = Fuse(current[i], hs, ps)
  OBVIOUS
<1>4. DOMAIN results = 1 .. n
  OBVIOUS
<1>5. ahead = AheadBy(same, id, n)
  BY DEF IsBefore, AheadBy
<1>12. \A i \in 1 .. n : same[i] \in Nat
  OBVIOUS
<1> HIDE DEF results, id, ahead, same
<1>6. IsOrderOf(ahead, n)
  BY <1>2, <1>5, <1>12, KeysAreOrder
<1>7. /\ DOMAIN decisions = 1 .. n
      /\ \E place : IsPlacing(place, ahead, n) /\ \A i \in 1 .. n : decisions[place[i]] = results[i]
  BY <1>1, <1>4, <1>6, SortedIs
<1>8. PICK place : IsPlacing(place, ahead, n) /\ \A i \in 1 .. n : decisions[place[i]] = results[i]
  BY <1>7
<1>9. /\ \A i \in 1 .. n : place[i] \in 1 .. n
      /\ \A k \in 1 .. n : \E i \in 1 .. n : place[i] = k
  BY <1>8 DEF IsPlacing
<1>10. ASSUME NEW k \in 1 .. n
       PROVE  IsDecision(decisions[k]) /\ \E i \in 1 .. n : decisions[k] = Fuse(current[i], hs, ps)
  <2>1. PICK i \in 1 .. n : place[i] = k
    BY <1>9
  <2>2. decisions[k] = results[i]
    BY <1>8, <2>1
  <2> QED
    BY <1>2, <1>3, <2>2
<1>11. ASSUME NEW i \in 1 .. n PROVE \E k \in 1 .. n : decisions[k] = Fuse(current[i], hs, ps)
  <2>1. place[i] \in 1 .. n /\ decisions[place[i]] = Fuse(current[i], hs, ps)
    BY <1>3, <1>8, <1>9
  <2> QED
    BY <2>1
<1> QED
  BY <1>0, <1>7, <1>10, <1>11 DEF AreFused

LEMMA RankingIs ==
  ASSUME NEW n \in Nat, NEW decisions, DOMAIN decisions = 1 .. n,
         \A k \in 1 .. n : decisions[k].id \in Nat /\ TotalScore(decisions[k]) \in Nat
  PROVE  IsRanking(RankingOf(decisions), decisions, n)
<1>0. PICK ranking : ranking = RankingOf(decisions)
  OBVIOUS
<1> DEFINE scored == [i \in 1 .. n |-> [id |-> decisions[i].id, score |-> TotalScore(decisions[i]),
                                         decision |-> decisions[i]]]
           id == [i \in 1 .. n |-> decisions[i].id]
           score == [i \in 1 .. n |-> TotalScore(decisions[i])]
           ahead == [i \in 1 .. n |-> {j \in 1 .. n :
                       \/ scored[j].score > scored[i].score
                       \/ scored[j].score = scored[i].score /\ scored[j].id < scored[i].id
                       \/ scored[j].score = scored[i].score /\ scored[j].id = scored[i].id /\ j < i}]
<1>1. ranking = Sorted(scored, ahead)
  BY <1>0 DEF RankingOf
<1>2. \A i \in 1 .. n : id[i] \in Nat /\ score[i] \in Nat
  OBVIOUS
<1>3. \A i \in 1 .. n : /\ scored[i].id = decisions[i].id /\ scored[i].id = id[i]
                        /\ scored[i].score = TotalScore(decisions[i]) /\ scored[i].score = score[i]
                        /\ scored[i].decision = decisions[i]
  OBVIOUS
<1>4. DOMAIN scored = 1 .. n
  OBVIOUS
<1>5. ahead = AheadBy(score, id, n)
  BY DEF IsBefore, AheadBy
<1> HIDE DEF scored, id, score, ahead
<1>6. \A i, j \in 1 .. n : i \in ahead[j] => score[i] >= score[j]
  BY <1>2, <1>5, KeysAreOrder
<1>14. IsOrderOf(ahead, n)
  BY <1>2, <1>5, KeysAreOrder
<1>7. /\ DOMAIN ranking = 1 .. n
      /\ \E place : IsPlacing(place, ahead, n) /\ \A i \in 1 .. n : ranking[place[i]] = scored[i]
  BY <1>1, <1>4, <1>14, SortedIs
<1>8. PICK place : IsPlacing(place, ahead, n) /\ \A i \in 1 .. n : ranking[place[i]] = scored[i]
  BY <1>7
<1>9. /\ \A i \in 1 .. n : place[i] \in 1 .. n
      /\ \A k \in 1 .. n : \E i \in 1 .. n : place[i] = k
      /\ \A i, j \in 1 .. n : i \in ahead[j] <=> place[i] < place[j]
  BY <1>8 DEF IsPlacing
<1>10. \A r \in 1 .. n : \E k \in 1 .. n : place[k] = r /\ ranking[r] = scored[k]
  BY <1>8, <1>9, Zenon
<1>11. \A r \in 1 .. n : \E k \in 1 .. n :
         /\ ranking[r].id = decisions[k].id /\ ranking[r].score = TotalScore(decisions[k])
         /\ ranking[r].decision = decisions[k]
  <2> SUFFICES ASSUME NEW r \in 1 .. n
               PROVE  \E k \in 1 .. n : /\ ranking[r].id = decisions[k].id
                                         /\ ranking[r].score = TotalScore(decisions[k])
                                         /\ ranking[r].decision = decisions[k]
    OBVIOUS
  <2>1. PICK k \in 1 .. n : ranking[r] = scored[k]
    BY <1>10
  <2> QED
    BY <1>3, <2>1
<1>12. ASSUME NEW k \in 1 .. n
       PROVE  \E r \in 1 .. n : ranking[r].id = decisions[k].id /\ ranking[r].score = TotalScore(decisions[k])
  <2>1. /\ place[k] \in 1 .. n /\ ranking[place[k]].id = decisions[k].id
        /\ ranking[place[k]].score = TotalScore(decisions[k])
    BY <1>3, <1>8, <1>9
  <2> QED
    BY <2>1
<1>13. ASSUME NEW r \in 1 .. n, NEW q \in 1 .. n, r < q PROVE ranking[r].score >= ranking[q].score
  <2>1. PICK k \in 1 .. n : place[k] = r /\ ranking[r] = scored[k]
    BY <1>10
  <2>2. PICK m \in 1 .. n : place[m] = q /\ ranking[q] = scored[m]
    BY <1>10
  <2>3. k \in ahead[m]
    BY <1>9, <1>13, <2>1, <2>2
  <2>4. score[k] >= score[m]
    BY <1>6, <2>3
  <2>5. ranking[r].score = score[k] /\ ranking[q].score = score[m]
    BY <1>3, <2>1, <2>2, Zenon
  <2> QED
    BY <2>4, <2>5
<1> QED
  BY <1>0, <1>7, <1>11, <1>12, <1>13 DEF IsRanking

\* The urgency of a decision, by what is known of it.
LEMMA UrgencyIs ==
  ASSUME NEW x
  PROVE  /\ UrgencyScore(x) \in Nat /\ UrgencyScore(x) <= Full
         /\ \A y : EvidenceKinds(y) \subseteq EvidenceKinds(x) => UrgencyScore(y) <= UrgencyScore(x)
  BY DEF UrgencyScore, Full

\* A score is a weighted sum of its parts, each within its range.
Weighted(r, f, n, w, u) ==
  (35 * (2500 * (r + 1)) + 20 * f + 20 * ((10000 * n) \div 3)
     + 15 * ((4000 * n) \div 5 + (6 * w) \div 10) + 10 * u) \div 100

LEMMA WeightedIs ==
  ASSUME NEW r \in Nat, NEW f \in Nat, NEW n \in 1 .. 3, NEW w \in Nat, NEW u \in Nat,
         r <= 3, f <= Full, w <= Full, u <= Full
  PROVE  Weighted(r, f, n, w, u) \in Nat /\ Weighted(r, f, n, w, u) <= Full
<1>1. PICK a \in Nat : a = (10000 * n) \div 3
  OBVIOUS
<1>2. PICK b \in Nat : b = (4000 * n) \div 5 + (6 * w) \div 10
  OBVIOUS
<1>3. a <= Full /\ b <= Full
  BY <1>1, <1>2 DEF Full
<1>4. Weighted(r, f, n, w, u) = (35 * (2500 * (r + 1)) + 20 * f + 20 * a + 15 * b + 10 * u) \div 100
  BY <1>1, <1>2 DEF Weighted
<1> QED
  BY <1>3, <1>4 DEF Full

LEMMA WeightedGrows ==
  ASSUME NEW r \in Nat, NEW f \in Nat, NEW n \in 1 .. 3, NEW w \in Nat, NEW u \in Nat,
         NEW s \in Nat, NEW g \in Nat, NEW m \in 1 .. 3, NEW v \in Nat, NEW z \in Nat,
         r > s, f >= g, n >= m, w >= v, u >= z
  PROVE  Weighted(r, f, n, w, u) > Weighted(s, g, m, v, z)
<1>1. PICK a \in Nat : a = (10000 * n) \div 3
  OBVIOUS
<1>2. PICK b \in Nat : b = (4000 * n) \div 5 + (6 * w) \div 10
  OBVIOUS
<1>3. PICK c \in Nat : c = (10000 * m) \div 3
  OBVIOUS
<1>4. PICK d \in Nat : d = (4000 * m) \div 5 + (6 * v) \div 10
  OBVIOUS
<1>5. a >= c /\ b >= d
  BY <1>1, <1>2, <1>3, <1>4
<1>6. PICK p \in Nat : p = 35 * (2500 * (r + 1)) + 20 * f + 20 * a + 15 * b + 10 * u
  OBVIOUS
<1>7. PICK q \in Nat : q = 35 * (2500 * (s + 1)) + 20 * g + 20 * c + 15 * d + 10 * z
  OBVIOUS
<1>8. p >= q + 100
  BY <1>5, <1>6, <1>7
<1>9. p \div 100 > q \div 100
  BY <1>8
<1>10. Weighted(r, f, n, w, u) = p \div 100 /\ Weighted(s, g, m, v, z) = q \div 100
  BY <1>1, <1>2, <1>3, <1>4, <1>6, <1>7 DEF Weighted
<1> QED
  BY <1>9, <1>10

LEMMA ScoreParts ==
  ASSUME NEW x, IsDecision(x)
  PROVE  /\ PriorityRank(x.priority) \in Nat /\ PriorityRank(x.priority) <= 3
         /\ x.confidence \in Nat /\ x.confidence <= Full
         /\ Cardinality(EvidenceKinds(x)) \in 1 .. 3
         /\ AverageWeight(x) \in Nat /\ AverageWeight(x) <= Full
         /\ UrgencyScore(x) \in Nat /\ UrgencyScore(x) <= Full
         /\ TotalScore(x) = Weighted(PriorityRank(x.priority), x.confidence,
                                     Cardinality(EvidenceKinds(x)), AverageWeight(x), UrgencyScore(x))
<1>1. PriorityRank(x.priority) \in Nat /\ PriorityRank(x.priority) <= 3
  BY RankIs
<1>2. /\ x.confidence \in Nat /\ x.confidence <= Full
      /\ AverageWeight(x) \in Nat /\ AverageWeight(x) <= Full
  BY DEF IsDecision, Full
<1>3. Cardinality(EvidenceKinds(x)) \in 1 .. 3 /\ Cardinality(x.evidence) = Cardinality(EvidenceKinds(x))
  BY DEF IsDecision
<1>4. UrgencyScore(x) \in Nat /\ UrgencyScore(x) <= Full
  BY UrgencyIs
<1>5. TotalScore(x) = Weighted(PriorityRank(x.priority), x.confidence,
                               Cardinality(EvidenceKinds(x)), AverageWeight(x), UrgencyScore(x))
  BY <1>3 DEF TotalScore, EvidenceScore, Weighted, Full
<1> QED
  BY <1>1, <1>2, <1>3, <1>4, <1>5

LEMMA TotalIs ==
  ASSUME NEW x, IsDecision(x)
  PROVE  TotalScore(x) \in Nat /\ TotalScore(x) <= Full
<1>1. PICK r \in Nat : r = PriorityRank(x.priority) /\ r <= 3
  BY ScoreParts
<1>2. PICK f \in Nat : f = x.confidence /\ f <= Full
  BY ScoreParts
<1>3. PICK n \in 1 .. 3 : n = Cardinality(EvidenceKinds(x))
  BY ScoreParts
<1>4. PICK w \in Nat : w = AverageWeight(x) /\ w <= Full
  BY ScoreParts
<1>5. PICK u \in Nat : u = UrgencyScore(x) /\ u <= Full
  BY ScoreParts
<1>6. TotalScore(x) = Weighted(r, f, n, w, u)
  BY <1>1, <1>2, <1>3, <1>4, <1>5, ScoreParts
<1> QED
  <2>1. Weighted(r, f, n, w, u) \in Nat /\ Weighted(r, f, n, w, u) <= Full
    BY <1>1, <1>2, <1>3, <1>4, <1>5, WeightedIs
  <2> QED
    BY <1>6, <2>1

\* Who is more urgent and no weaker in any other respect has a greater score.
LEMMA TotalGrows ==
  ASSUME NEW x, IsDecision(x), NEW y, IsDecision(y),
         PriorityRank(x.priority) > PriorityRank(y.priority), x.confidence >= y.confidence,
         EvidenceKinds(y) \subseteq EvidenceKinds(x), AverageWeight(x) >= AverageWeight(y)
  PROVE  TotalScore(x) > TotalScore(y)
<1>1. Cardinality(EvidenceKinds(x)) >= Cardinality(EvidenceKinds(y))
  <2>1. IsFiniteSet(EvidenceKinds(x)) /\ EvidenceKinds(y) \in SUBSET EvidenceKinds(x)
    BY DEF IsDecision
  <2>2. Cardinality(EvidenceKinds(x)) \in 1 .. 3 /\ Cardinality(EvidenceKinds(y)) \in 1 .. 3
    BY ScoreParts
  <2> QED
    BY <2>1, <2>2, FS_Subset
<1>2. UrgencyScore(x) >= UrgencyScore(y)
  <2>1. UrgencyScore(x) \in Nat /\ UrgencyScore(y) \in Nat /\ UrgencyScore(y) <= UrgencyScore(x)
    BY UrgencyIs
  <2> QED
    BY <2>1
<1>3. PICK r \in Nat, f \in Nat, n \in 1 .. 3, w \in Nat, u \in Nat :
        /\ r = PriorityRank(x.priority) /\ f = x.confidence /\ n = Cardinality(EvidenceKinds(x))
        /\ w = AverageWeight(x) /\ u = UrgencyScore(x)
  BY ScoreParts
<1>4. PICK s \in Nat, g \in Nat, m \in 1 .. 3, v \in Nat, z \in Nat :
        /\ s = PriorityRank(y.priority) /\ g = y.confidence /\ m = Cardinality(EvidenceKinds(y))
        /\ v = AverageWeight(y) /\ z = UrgencyScore(y)
  BY ScoreParts
<1>5. TotalScore(x) = Weighted(r, f, n, w, u)
  BY <1>3, ScoreParts
<1>6. TotalScore(y) = Weighted(s, g, m, v, z)
  BY <1>4, ScoreParts
<1>7. r > s /\ f >= g /\ n >= m /\ w >= v /\ u >= z
  BY <1>1, <1>2, <1>3, <1>4
<1> QED
  <2>1. Weighted(r, f, n, w, u) > Weighted(s, g, m, v, z)
    BY <1>3, <1>4, <1>7, WeightedGrows
  <2> QED
    BY <1>5, <1>6, <2>1

\* What was analyzed last is a function of the contexts it came from.
FusionInv ==
  /\ analyses \in 0 .. MaxAnalyses
  /\ fused # NoDecisions =>
       /\ \E n \in Nat : fusedFrom.current \in [1 .. n -> CurrentContexts]
       /\ fusedFrom.historical \in SUBSET HistoricalContexts
       /\ fusedFrom.predictive \in SUBSET PredictiveContexts
       /\ fused.decisions = FuseMany(fusedFrom.current, fusedFrom.historical, fusedFrom.predictive)
       /\ fused.ranking = RankingOf(fused.decisions)
       /\ fused.explanations = ExplainMany(fused.decisions, fused.ranking)

LEMMA FusionInitInv == FusionInit => FusionInv
<1>1. MaxAnalyses \in Nat
  BY FusionAssumption, Zenon
<1> QED
  BY <1>1 DEF FusionInit, FusionInv

LEMMA FusionInvStep == FusionInv /\ [FusionNext]_fusionVars => FusionInv'
<1> SUFFICES ASSUME FusionInv, [FusionNext]_fusionVars PROVE FusionInv'
  OBVIOUS
<1>1. MaxAnalyses \in Nat /\ MaxContexts \in Nat /\ analyses \in 0 .. MaxAnalyses
  BY FusionAssumption, Zenon DEF FusionInv
<1>2. ASSUME NEW current \in SeqOf(CurrentContexts, MaxContexts),
             NEW hs \in UNION {kSubset(k, HistoricalContexts) : k \in 0 .. MaxContexts},
             NEW ps \in UNION {kSubset(k, PredictiveContexts) : k \in 0 .. MaxContexts},
             Decide(current, hs, ps)
      PROVE  FusionInv'
  <2>1. \E n \in Nat : current \in [1 .. n -> CurrentContexts]
    BY <1>1 DEF SeqOf
  <2>2. hs \in SUBSET HistoricalContexts /\ ps \in SUBSET PredictiveContexts
    BY DEF kSubset
  <2>3. /\ analyses' \in 0 .. MaxAnalyses
        /\ fused' = [decisions |-> FuseMany(current, hs, ps),
                     ranking |-> RankingOf(FuseMany(current, hs, ps)),
                     explanations |-> ExplainMany(FuseMany(current, hs, ps),
                                                  RankingOf(FuseMany(current, hs, ps)))]
        /\ fusedFrom' = [current |-> current, historical |-> hs, predictive |-> ps]
    BY <1>1, <1>2 DEF Decide
  <2>4. /\ fused'.decisions = FuseMany(current, hs, ps)
        /\ fused'.ranking = RankingOf(fused'.decisions)
        /\ fused'.explanations = ExplainMany(fused'.decisions, fused'.ranking)
        /\ fusedFrom'.current = current /\ fusedFrom'.historical = hs /\ fusedFrom'.predictive = ps
    BY <2>3
  <2> QED
    BY <2>1, <2>2, <2>3, <2>4 DEF FusionInv
<1>3. CASE ClearDecisions
  BY <1>3 DEF ClearDecisions, FusionInv
<1>4. CASE UNCHANGED fusionVars
  BY <1>4 DEF fusionVars, FusionInv
<1> QED
  BY <1>2, <1>3, <1>4 DEF FusionNext

\* What the invariant says of the last analysis, with the lemmas above.
LEMMA AnalysisIs ==
  ASSUME FusionInv, fused # NoDecisions
  PROVE  \E n \in Nat :
           /\ fusedFrom.current \in [1 .. n -> CurrentContexts]
           /\ AreFused(fused.decisions, fusedFrom.current, fusedFrom.historical, fusedFrom.predictive, n)
           /\ IsRanking(fused.ranking, fused.decisions, n)
<1>1. PICK n \in Nat : fusedFrom.current \in [1 .. n -> CurrentContexts]
  BY DEF FusionInv
<1>2. /\ fusedFrom.historical \in SUBSET HistoricalContexts
      /\ fusedFrom.predictive \in SUBSET PredictiveContexts
      /\ fused.decisions = FuseMany(fusedFrom.current, fusedFrom.historical, fusedFrom.predictive)
      /\ fused.ranking = RankingOf(fused.decisions)
  BY DEF FusionInv
<1>3. AreFused(fused.decisions, fusedFrom.current, fusedFrom.historical, fusedFrom.predictive, n)
  BY <1>1, <1>2, FuseManyIs
<1>4. /\ DOMAIN fused.decisions = 1 .. n
      /\ \A k \in 1 .. n : fused.decisions[k].id \in Nat /\ TotalScore(fused.decisions[k]) \in Nat
  BY <1>3, TotalIs DEF IsDecision, AreFused
<1>5. IsRanking(fused.ranking, fused.decisions, n)
  BY <1>1, <1>2, <1>4, RankingIs
<1> QED
  BY <1>1, <1>3, <1>5

LEMMA FusionTyped == FusionInv => FusionTypeOK
<1> SUFFICES ASSUME FusionInv, fused # NoDecisions
             PROVE  /\ Len(fused.ranking) = Len(fusedFrom.current)
                    /\ \A i \in DOMAIN fused.ranking : fused.ranking[i].score \in 0 .. Full
                    /\ \A i \in DOMAIN fused.decisions : fused.decisions[i].confidence \in 0 .. Full
  BY DEF FusionInv, FusionTypeOK
<1>1. PICK n \in Nat :
        /\ fusedFrom.current \in [1 .. n -> CurrentContexts]
        /\ AreFused(fused.decisions, fusedFrom.current, fusedFrom.historical, fusedFrom.predictive, n)
        /\ IsRanking(fused.ranking, fused.decisions, n)
  BY AnalysisIs
<1>2. PICK ds : ds = fused.decisions
  OBVIOUS
<1>3. PICK ranking : ranking = fused.ranking
  OBVIOUS
<1>4. DOMAIN ds = 1 .. n /\ \A k \in 1 .. n : IsDecision(ds[k])
  BY <1>1, <1>2 DEF AreFused
<1>5. DOMAIN ranking = 1 .. n /\ \A r \in 1 .. n : \E k \in 1 .. n : ranking[r].score = TotalScore(ds[k])
  BY <1>1, <1>2, <1>3 DEF IsRanking
<1>6. Len(ranking) = n
  BY <1>5, n \in Nat
<1>7. Len(fusedFrom.current) = n
  BY <1>1
<1>8. Full \in Nat
  BY DEF Full
<1>9. \A r \in 1 .. n : ranking[r].score \in 0 .. Full
  <2> SUFFICES ASSUME NEW r \in 1 .. n PROVE ranking[r].score \in 0 .. Full
    OBVIOUS
  <2>1. PICK k \in 1 .. n : ranking[r].score = TotalScore(ds[k])
    BY <1>5
  <2> QED
    BY <1>4, <1>8, <2>1, TotalIs
<1>10. \A k \in 1 .. n : ds[k].confidence \in 0 .. Full
  BY <1>4, <1>8 DEF IsDecision
<1> QED
  BY <1>2, <1>3, <1>4, <1>5, <1>6, <1>7, <1>9, <1>10

LEMMA ScopesApart == FusionInv => ScopesAreApart
<1> SUFFICES ASSUME FusionInv, fused # NoDecisions, NEW i \in DOMAIN fusedFrom.current
             PROVE  LET c == fusedFrom.current[i]
                    IN \E j \in DOMAIN fused.decisions :
                         fused.decisions[j] = Fuse(c, {h \in fusedFrom.historical : h.scope = c.scope},
                                                      {p \in fusedFrom.predictive : p.scope = c.scope})
  BY DEF ScopesAreApart
<1>1. PICK n \in Nat :
        /\ fusedFrom.current \in [1 .. n -> CurrentContexts]
        /\ AreFused(fused.decisions, fusedFrom.current, fusedFrom.historical, fusedFrom.predictive, n)
  BY AnalysisIs
<1>2. i \in 1 .. n /\ DOMAIN fused.decisions = 1 .. n
  BY <1>1 DEF AreFused
<1>3. PICK j \in 1 .. n : fused.decisions[j]
                            = Fuse(fusedFrom.current[i], fusedFrom.historical, fusedFrom.predictive)
  BY <1>1, <1>2 DEF AreFused
<1> QED
  BY <1>2, <1>3, FuseInScope

\* The decision of a context without predictions has its id, and no greater priority.
LEMMA AloneIsLower ==
  ASSUME NEW c, NEW hs, NEW ps, NEW x, x = Fuse(c, hs, ps), NEW y, y = Fuse(c, hs, {})
  PROVE  y.id = x.id /\ PriorityRank(x.priority) >= PriorityRank(y.priority)
<1>1. FindPredictive(c, {}) = {}
  BY FoundAre
<1>2. PICK base : base = BasePriority(BaseConfidence(c, FindHistorical(c, hs)))
  OBVIOUS
<1>3. y.id = DecisionId(c) /\ y.priority = base
  BY <1>1, <1>2 DEF Fuse
<1>4. x.id = DecisionId(c) /\ (x.priority = base \/ \E p : x.priority = FusedPriority(base, p))
  BY <1>2 DEF Fuse
<1>5. PriorityRank(base) \in Nat
  BY RankIs
<1> QED
  BY <1>3, <1>4, <1>5, HighestIs

LEMMA NeverLowers == FusionInv => PredictionNeverLowers
<1> SUFFICES ASSUME FusionInv, fused # NoDecisions, NEW j \in DOMAIN fused.decisions
             PROVE  \E k \in DOMAIN fusedFrom.current :
                      LET alone == Fuse(fusedFrom.current[k], fusedFrom.historical, {})
                      IN /\ alone.id = fused.decisions[j].id
                         /\ PriorityRank(fused.decisions[j].priority) >= PriorityRank(alone.priority)
  BY DEF PredictionNeverLowers
<1>1. PICK n \in Nat :
        /\ fusedFrom.current \in [1 .. n -> CurrentContexts]
        /\ AreFused(fused.decisions, fusedFrom.current, fusedFrom.historical, fusedFrom.predictive, n)
  BY AnalysisIs
<1>2. j \in 1 .. n /\ DOMAIN fusedFrom.current = 1 .. n
  BY <1>1 DEF AreFused
<1>3. PICK k \in 1 .. n : fused.decisions[j]
                            = Fuse(fusedFrom.current[k], fusedFrom.historical, fusedFrom.predictive)
  BY <1>1, <1>2 DEF AreFused
<1>4. /\ Fuse(fusedFrom.current[k], fusedFrom.historical, {}).id = fused.decisions[j].id
      /\ PriorityRank(fused.decisions[j].priority)
           >= PriorityRank(Fuse(fusedFrom.current[k], fusedFrom.historical, {}).priority)
  BY <1>3, AloneIsLower
<1> QED
  BY <1>2, <1>4

LEMMA StrongerFirst == FusionInv => StrongerComesFirst
<1> SUFFICES ASSUME FusionInv, fused # NoDecisions,
                    NEW i \in DOMAIN fused.ranking, NEW j \in DOMAIN fused.ranking,
                    NEW a, a = fused.ranking[i].decision, NEW b, b = fused.ranking[j].decision,
                    PriorityRank(a.priority) > PriorityRank(b.priority), a.confidence >= b.confidence,
                    EvidenceKinds(b) \subseteq EvidenceKinds(a), AverageWeight(a) >= AverageWeight(b)
             PROVE  i < j
  BY DEF StrongerComesFirst
<1>1. PICK n \in Nat :
        /\ AreFused(fused.decisions, fusedFrom.current, fusedFrom.historical, fusedFrom.predictive, n)
        /\ IsRanking(fused.ranking, fused.decisions, n)
  BY AnalysisIs
<1>2. i \in 1 .. n /\ j \in 1 .. n
  BY <1>1 DEF IsRanking
<1>3. IsDecision(a) /\ fused.ranking[i].score = TotalScore(a)
  BY <1>1, <1>2 DEF IsRanking, AreFused
<1>4. IsDecision(b) /\ fused.ranking[j].score = TotalScore(b)
  BY <1>1, <1>2 DEF IsRanking, AreFused
<1>5. TotalScore(a) > TotalScore(b) /\ TotalScore(a) \in Nat /\ TotalScore(b) \in Nat
  BY <1>3, <1>4, TotalGrows, TotalIs
<1>6. j < i => fused.ranking[j].score >= fused.ranking[i].score
  BY <1>1, <1>2 DEF IsRanking
<1>7. ~(j < i) /\ i # j
  BY <1>3, <1>4, <1>5, <1>6
<1> QED
  BY <1>2, <1>7

\* The last element with an id has it, and its place is the greatest of those that have it.
LEMMA LastIs ==
  ASSUME NEW n \in Nat, NEW s, DOMAIN s = 1 .. n, NEW id, \E i \in 1 .. n : s[i].id = id
  PROVE  \E k \in 1 .. n :
           /\ k = Max({i \in DOMAIN s : s[i].id = id})
           /\ LastWithId(s, id) = s[k] /\ s[k].id = id
           /\ \A i \in 1 .. n : s[i].id = id => i <= k
<1>1. PICK of : of = {i \in DOMAIN s : s[i].id = id}
  OBVIOUS
<1>2. of \in SUBSET (1 .. n) /\ of \in SUBSET Nat /\ of # {}
  BY <1>1
<1>3. IsFiniteSet(of)
  <2>1. IsFiniteSet(1 .. n)
    BY FS_Interval
  <2> QED
    BY <1>2, <2>1, FS_Subset
<1>4. Max(of) \in of /\ \A i \in of : Max(of) >= i
  BY <1>2, <1>3, GreatestOf
<1>5. PICK k \in 1 .. n : k = Max(of)
  BY <1>2, <1>4
<1>6. LastWithId(s, id) = s[k]
  BY <1>1, <1>5 DEF LastWithId
<1>7. s[k].id = id
  BY <1>1, <1>4, <1>5
<1>8. \A i \in 1 .. n : s[i].id = id => i <= k
  BY <1>1, <1>4, <1>5
<1> QED
  BY <1>1, <1>5, <1>6, <1>7, <1>8

\* What the explanation of an id is made of.
IsExplained(e, d, id) ==
  /\ e.id = id /\ e.evidence = {v.id : v \in d.evidence}
  /\ e.missing \cap EvidenceKinds(d) = {}

LEMMA ExplainIs ==
  ASSUME NEW d, NEW score, NEW e, e = Explain(d, EvidenceGraph(d), score)
  PROVE  IsExplained(e, d, d.id) /\ e.score = score
<1>1. PICK nodes : nodes = EvidenceGraph(d).nodes
  OBVIOUS
<1>2. nodes = {<<"historical", h>> : h \in d.historical} \cup {<<"predictive", p>> : p \in d.predictive}
                \cup {<<"evidence", v.id>> : v \in d.evidence}
  BY <1>1 DEF EvidenceGraph
<1>3. /\ e.id = d.id /\ e.score = score
      /\ e.evidence = {x \in {m[2] : m \in {o \in nodes : o[1] = "evidence"}} :
                         x \in {v.id : v \in d.evidence}}
      /\ e.missing = {"historical", "predictive"} \ {m[1] : m \in nodes}
  BY <1>1 DEF Explain
<1>4. e.evidence = {v.id : v \in d.evidence}
  <2>1. \A v \in d.evidence : <<"evidence", v.id>> \in nodes
    BY <1>2
  <2>2. \A v \in d.evidence : v.id \in {m[2] : m \in {o \in nodes : o[1] = "evidence"}}
    <3> SUFFICES ASSUME NEW v \in d.evidence
                 PROVE  v.id \in {m[2] : m \in {o \in nodes : o[1] = "evidence"}}
      OBVIOUS
    <3>1. PICK node : node = <<"evidence", v.id>>
      OBVIOUS
    <3>2. node \in nodes /\ node[1] = "evidence" /\ node[2] = v.id
      BY <2>1, <3>1
    <3> QED
      BY <3>2
  <2> QED
    BY <1>3, <2>2
<1>5. e.missing \cap EvidenceKinds(d) = {}
  <2>1. d.historical # {} => "historical" \in {m[1] : m \in nodes}
    <3> SUFFICES ASSUME NEW h \in d.historical PROVE "historical" \in {m[1] : m \in nodes}
      OBVIOUS
    <3>1. PICK node : node = <<"historical", h>>
      OBVIOUS
    <3>2. node \in nodes /\ node[1] = "historical"
      BY <1>2, <3>1
    <3> QED
      BY <3>2
  <2>2. d.predictive # {} => "predictive" \in {m[1] : m \in nodes}
    <3> SUFFICES ASSUME NEW p \in d.predictive PROVE "predictive" \in {m[1] : m \in nodes}
      OBVIOUS
    <3>1. PICK node : node = <<"predictive", p>>
      OBVIOUS
    <3>2. node \in nodes /\ node[1] = "predictive"
      BY <1>2, <3>1
    <3> QED
      BY <3>2
  <2>3. "historical" \in EvidenceKinds(d) => d.historical # {}
    BY DEF EvidenceKinds
  <2>4. "predictive" \in EvidenceKinds(d) => d.predictive # {}
    BY DEF EvidenceKinds
  <2>5. e.missing \subseteq {"historical", "predictive"}
    BY <1>3
  <2>6. "historical" \in EvidenceKinds(d) => "historical" \notin e.missing
    BY <1>3, <2>1, <2>3
  <2>7. "predictive" \in EvidenceKinds(d) => "predictive" \notin e.missing
    BY <1>3, <2>2, <2>4
  <2> QED
    BY <2>5, <2>6, <2>7
<1> QED
  BY <1>3, <1>4, <1>5 DEF IsExplained

\* Of an id the last decision, its graph and the last score, which no decision with it is below.
LEMMA IdIsExplained ==
  ASSUME NEW n \in Nat, NEW ds, DOMAIN ds = 1 .. n, \A k \in 1 .. n : IsDecision(ds[k]),
         NEW ranking, IsRanking(ranking, ds, n),
         NEW graphs, graphs = [i \in DOMAIN ds |-> EvidenceGraph(ds[i])],
         NEW id, \E i \in 1 .. n : ds[i].id = id,
         NEW e, e = Explain(LastWithId(ds, id), LastWithId(graphs, id), LastWithId(ranking, id).score)
  PROVE  IsExplained(e, LastWithId(ds, id), id) /\ e.score <= TotalScore(LastWithId(ds, id))
<1>1. PICK k \in 1 .. n : /\ k = Max({i \in DOMAIN ds : ds[i].id = id})
                          /\ LastWithId(ds, id) = ds[k] /\ ds[k].id = id
                          /\ \A i \in 1 .. n : ds[i].id = id => i <= k
  BY LastIs, Zenon
<1>2. \A i \in 1 .. n : graphs[i] = EvidenceGraph(ds[i]) /\ graphs[i].id = ds[i].id
  BY DEF EvidenceGraph
<1>3. LastWithId(graphs, id) = EvidenceGraph(ds[k])
  <2>1. {i \in DOMAIN graphs : graphs[i].id = id} = {i \in DOMAIN ds : ds[i].id = id}
    BY <1>2
  <2>2. LastWithId(graphs, id) = graphs[k]
    BY <1>1, <2>1 DEF LastWithId
  <2> QED
    BY <1>2, <2>2
<1>4. PICK r \in 1 .. n : ranking[r].id = id /\ ranking[r].score = TotalScore(ds[k])
  BY <1>1 DEF IsRanking
<1>5. PICK q \in 1 .. n : LastWithId(ranking, id) = ranking[q] /\ r <= q
  <2>1. DOMAIN ranking = 1 .. n
    BY DEF IsRanking
  <2> QED
    BY <1>4, <2>1, LastIs
<1>6. PICK low : low = ranking[q].score
  OBVIOUS
<1>7. PICK score \in Nat : score = TotalScore(ds[k])
  BY TotalIs
<1>8. low <= score
  <2>1. CASE r = q
    BY <1>4, <1>6, <1>7, <2>1
  <2>2. CASE r < q
    <3>1. ranking[r].score >= ranking[q].score
      BY <2>2 DEF IsRanking
    <3>2. \E k2 \in 1 .. n : ranking[q].score = TotalScore(ds[k2])
      BY DEF IsRanking
    <3>3. low \in Nat
      BY <1>6, <3>2, TotalIs
    <3> QED
      BY <1>4, <1>6, <1>7, <3>1, <3>3
  <2> QED
    BY <1>5, <2>1, <2>2
<1>9. IsExplained(e, ds[k], ds[k].id) /\ e.score = low
  <2>1. e = Explain(ds[k], EvidenceGraph(ds[k]), low)
    BY <1>1, <1>3, <1>5, <1>6
  <2> QED
    BY <2>1, ExplainIs
<1> QED
  BY <1>1, <1>7, <1>8, <1>9

LEMMA ExplainedRight == FusionInv => ExplanationsAgree
<1> SUFFICES ASSUME FusionInv, fused # NoDecisions
             PROVE  /\ Cardinality(fused.explanations)
                         = Cardinality({fused.ranking[i].id : i \in DOMAIN fused.ranking})
                    /\ \A e \in fused.explanations :
                         LET d == LastWithId(fused.decisions, e.id)
                         IN /\ e.evidence = {v.id : v \in d.evidence}
                            /\ e.score <= TotalScore(d)
                            /\ e.missing \intersect EvidenceKinds(d) = {}
  BY DEF ExplanationsAgree
<1>1. PICK n \in Nat :
        /\ AreFused(fused.decisions, fusedFrom.current, fusedFrom.historical, fusedFrom.predictive, n)
        /\ IsRanking(fused.ranking, fused.decisions, n)
  BY AnalysisIs
<1>2. PICK ds : ds = fused.decisions
  OBVIOUS
<1>3. PICK ranking : ranking = fused.ranking
  OBVIOUS
<1>4. PICK explained : explained = fused.explanations
  OBVIOUS
<1>5. DOMAIN ds = 1 .. n /\ (\A k \in 1 .. n : IsDecision(ds[k])) /\ IsRanking(ranking, ds, n)
  BY <1>1, <1>2, <1>3 DEF AreFused
<1>6. PICK ids : ids = {ds[i].id : i \in DOMAIN ds}
  OBVIOUS
<1>7. PICK graphs : graphs = [i \in DOMAIN ds |-> EvidenceGraph(ds[i])]
  OBVIOUS
<1>8. PICK f : f = [id \in ids |-> Explain(LastWithId(ds, id), LastWithId(graphs, id),
                                            LastWithId(ranking, id).score)]
  OBVIOUS
<1>9. explained = {f[id] : id \in ids} /\ DOMAIN f = ids
  <2>1. explained = ExplainMany(ds, ranking)
    BY <1>2, <1>3, <1>4 DEF FusionInv
  <2>2. explained = {Explain(LastWithId(ds, id), LastWithId(graphs, id),
                             LastWithId(ranking, id).score) : id \in ids}
    BY <1>6, <1>7, <2>1, Zenon DEF ExplainMany
  <2> QED
    BY <1>8, <2>2
<1>10. \A id \in ids : IsExplained(f[id], LastWithId(ds, id), id)
                         /\ f[id].score <= TotalScore(LastWithId(ds, id))
  <2> SUFFICES ASSUME NEW id \in ids
               PROVE  IsExplained(f[id], LastWithId(ds, id), id)
                        /\ f[id].score <= TotalScore(LastWithId(ds, id))
    OBVIOUS
  <2>1. \E i \in 1 .. n : ds[i].id = id
    BY <1>5, <1>6
  <2>2. PICK e : e = f[id]
    OBVIOUS
  <2>3. e = Explain(LastWithId(ds, id), LastWithId(graphs, id), LastWithId(ranking, id).score)
    BY <1>8, <2>2
  <2>4. IsExplained(e, LastWithId(ds, id), id) /\ e.score <= TotalScore(LastWithId(ds, id))
    BY <1>5, <1>7, <2>1, <2>3, IdIsExplained
  <2> QED
    BY <2>2, <2>4
<1>11. \A id \in ids : f[id].id = id
  BY <1>10 DEF IsExplained
<1>12. \A e \in explained : LET d == LastWithId(ds, e.id)
                            IN /\ e.evidence = {v.id : v \in d.evidence}
                               /\ e.score <= TotalScore(d)
                               /\ e.missing \cap EvidenceKinds(d) = {}
  <2> SUFFICES ASSUME NEW id \in ids
               PROVE  LET d == LastWithId(ds, f[id].id)
                      IN /\ f[id].evidence = {v.id : v \in d.evidence}
                         /\ f[id].score <= TotalScore(d)
                         /\ f[id].missing \cap EvidenceKinds(d) = {}
    BY <1>9
  <2>1. f[id].id = id
    BY <1>11
  <2>2. PICK d : d = LastWithId(ds, id)
    OBVIOUS
  <2>3. IsExplained(f[id], d, id) /\ f[id].score <= TotalScore(d)
    BY <1>10, <2>2
  <2> QED
    BY <2>1, <2>2, <2>3 DEF IsExplained
<1>13. ids = {ranking[i].id : i \in DOMAIN ranking}
  <2>1. DOMAIN ranking = 1 .. n
    BY <1>5 DEF IsRanking
  <2>2. \A r \in 1 .. n : \E k \in 1 .. n : ranking[r].id = ds[k].id
    BY <1>5 DEF IsRanking
  <2>3. \A k \in 1 .. n : \E r \in 1 .. n : ranking[r].id = ds[k].id
    BY <1>5 DEF IsRanking
  <2>4. ids \subseteq {ranking[i].id : i \in DOMAIN ranking}
    BY <1>5, <1>6, <2>1, <2>3
  <2>5. {ranking[i].id : i \in DOMAIN ranking} \subseteq ids
    BY <1>5, <1>6, <2>1, <2>2
  <2> QED
    BY <2>4, <2>5
<1>14. IsFiniteSet(ids)
  <2>1. PICK idOf : idOf = [i \in 1 .. n |-> ds[i].id]
    OBVIOUS
  <2>2. idOf \in Surjection(1 .. n, ids)
    BY <1>5, <1>6, <2>1 DEF Surjection
  <2>3. IsFiniteSet(1 .. n)
    BY FS_Interval
  <2> QED
    BY <2>2, <2>3, FS_Surjection
<1>15. Cardinality(explained) = Cardinality(ids)
  <2>1. f \in [ids -> explained]
    BY <1>8, <1>9
  <2>2. f \in Surjection(ids, explained)
    BY <1>9, <2>1 DEF Surjection
  <2>3. f \in Injection(ids, explained)
    <3>1. \A a, b \in ids : f[a] = f[b] => a = b
      BY <1>11
    <3> QED
      BY <2>1, <3>1 DEF Injection, IsInjective
  <2> QED
    BY <1>14, <2>2, <2>3, FS_Surjection
<1> QED
  BY <1>2, <1>3, <1>4, <1>12, <1>13, <1>15

(* Portfolios.                                                               *)

\* What a portfolio holds: items of its own domain, dependencies of listed nodes, an id once.
ITInv ==
  /\ domain \in Domains /\ capacities \in Seq(CapacityItems)
  /\ IsFiniteSet(items) /\ Cardinality(items) + Len(capacities) <= MaxItems
  /\ domain = "dependencies" =>
       /\ items \subseteq NodeItems \cup DependencyItems
       /\ \A d \in items \cap DependencyItems : {d.source, d.target} \subseteq NodeIds
  /\ domain = "workload" => items \subseteq WorkItems
  /\ domain = "risks" => items \subseteq RiskItems /\ \A s, t \in items : s.id = t.id => s = t
  /\ domain = "changes" => items \subseteq ChangeItems

LEMMA ITInitInv == ITInit => ITInv
<1> SUFFICES ASSUME ITInit PROVE ITInv
  OBVIOUS
<1>1. MaxItems \in Nat
  BY ITAssumption
<1>2. IsFiniteSet({}) /\ Cardinality({}) = 0
  BY FS_EmptySet
<1>3. capacities \in Seq(CapacityItems) /\ Len(capacities) = 0
  BY DEF ITInit
<1> QED
  BY <1>1, <1>2, <1>3 DEF ITInit, ITInv

LEMMA ITInvStep == ITInv /\ [ITNext]_itVars => ITInv'
<1> SUFFICES ASSUME ITInv, [ITNext]_itVars PROVE ITInv'
  OBVIOUS
<1>1. CASE UNCHANGED itVars
  <2>1. NodeIds' = NodeIds
    BY <1>1 DEF itVars, NodeIds, NodesListed, DependencyPortfolio
  <2> QED
    BY <1>1, <2>1 DEF ITInv, itVars
<1>2. CASE ITNext
  <2>1. /\ IsFiniteSet(items) /\ Cardinality(items) \in Nat
        /\ capacities \in Seq(CapacityItems) /\ Len(capacities) \in Nat
    BY FS_CardinalityType DEF ITInv
  <2>2. MaxItems \in Nat /\ Cardinality(items) + Len(capacities) < MaxItems
    BY <1>2, ITAssumption DEF ITNext
  <2>3. ASSUME NEW c \in CapacityItems, AddCapacity(c) PROVE ITInv'
    <3>1. /\ capacities' \in Seq(CapacityItems) /\ Len(capacities') = Len(capacities) + 1
          /\ UNCHANGED <<domain, items>>
      BY <2>1, <2>3 DEF AddCapacity
    <3>2. NodeIds' = NodeIds
      BY <3>1 DEF NodeIds, NodesListed, DependencyPortfolio
    <3>3. Cardinality(items) + Len(capacities') <= MaxItems
      BY <2>1, <2>2, <3>1
    <3> QED
      BY <3>1, <3>2, <3>3 DEF ITInv
  <2>4. ASSUME NEW x, items' = items \cup {x}, UNCHANGED <<domain, capacities>>,
               domain = "dependencies" =>
                 /\ x \in NodeItems \cup DependencyItems
                 /\ x \in DependencyItems => {x.source, x.target} \subseteq NodeIds,
               domain = "workload" => x \in WorkItems,
               domain = "risks" => x \in RiskItems /\ \A s \in items : s.id # x.id,
               domain = "changes" => x \in ChangeItems
        PROVE  ITInv'
    <3>1. IsFiniteSet(items') /\ Cardinality(items') <= Cardinality(items) + 1
                              /\ Cardinality(items') \in Nat
      <4>1. /\ IsFiniteSet(items \cup {x})
            /\ Cardinality(items \cup {x})
                 = IF x \in items THEN Cardinality(items) ELSE Cardinality(items) + 1
        BY <2>1, FS_AddElement
      <4> QED
        BY <2>1, <2>4, <4>1
    <3>2. Cardinality(items') + Len(capacities') <= MaxItems
      BY <2>1, <2>2, <2>4, <3>1
    <3>3. domain = "dependencies" => NodeIds \subseteq NodeIds'
      BY <2>4 DEF NodeIds, NodesListed, DependencyPortfolio
    <3>4. domain' = "dependencies" =>
            /\ items' \subseteq NodeItems \cup DependencyItems
            /\ \A d \in items' \cap DependencyItems : {d.source, d.target} \subseteq NodeIds'
      BY <2>4, <3>3 DEF ITInv
    <3>5. /\ domain' = "workload" => items' \subseteq WorkItems
          /\ domain' = "changes" => items' \subseteq ChangeItems
          /\ domain' = "risks" => items' \subseteq RiskItems
      BY <2>4 DEF ITInv
    <3>6. domain' = "risks" => \A s, t \in items' : s.id = t.id => s = t
      BY <2>4 DEF ITInv
    <3> QED
      BY <2>1, <2>4, <3>1, <3>2, <3>4, <3>5, <3>6 DEF ITInv
  <2>5. ASSUME UNCHANGED <<domain, capacities>>, NEW n \in NodeItems, AddNode(n) PROVE ITInv'
    BY <2>4, <2>5, ITAssumption DEF AddNode
  <2>6. ASSUME UNCHANGED <<domain, capacities>>, NEW d \in DependencyItems, AddDependency(d) PROVE ITInv'
    BY <2>4, <2>6 DEF AddDependency
  <2>7. ASSUME UNCHANGED <<domain, capacities>>, NEW s \in RiskItems, AddRisk(s) PROVE ITInv'
    BY <2>4, <2>7 DEF AddRisk
  <2>8. ASSUME UNCHANGED <<domain, capacities>>, NEW w \in WorkItems, AddWork(w) PROVE ITInv'
    BY <2>4, <2>8 DEF AddWork
  <2>9. ASSUME UNCHANGED <<domain, capacities>>, NEW c \in ChangeItems, AddChange(c) PROVE ITInv'
    BY <2>4, <2>9 DEF AddChange
  <2> QED
    BY <1>2, <2>3, <2>5, <2>6, <2>7, <2>8, <2>9 DEF ITNext
<1> QED
  BY <1>1, <1>2

(* Dependencies.                                                             *)

\* Nodes and what they depend on, read from the dependencies in both directions.
IsGraph ==
  /\ IsFiniteSet(NodeIds) /\ NodeIds \in SUBSET Nat
  /\ \A m : TargetsOf(m) \subseteq NodeIds /\ SourcesOf(m) \subseteq NodeIds
  /\ \A m, n : n \in TargetsOf(m) => m # n /\ m \in SourcesOf(n)
  /\ \A m, n : m \in SourcesOf(n) => n \in TargetsOf(m)

LEMMA GraphIs == ITInv => IsGraph
<1> SUFFICES ASSUME ITInv PROVE IsGraph
  OBVIOUS
<1>1. Depends \subseteq DependencyItems /\ \A d \in Depends : d.source \in NodeIds /\ d.target \in NodeIds
  BY DEF ITInv, Depends, DependencyPortfolio
<1>2. NodesListed \subseteq NodeItems
  BY DEF NodesListed
<1>3. NodeIds \in SUBSET Nat
  BY <1>2, ITAssumption DEF NodeIds
<1>4. IsFiniteSet(NodeIds)
  <2>1. IsFiniteSet(NodesListed)
    <3>1. NodesListed \subseteq items
      BY DEF NodesListed, DependencyPortfolio
    <3>2. IsFiniteSet(items)
      BY DEF ITInv
    <3> QED
      BY <3>1, <3>2, FS_Subset
  <2>2. PICK idOf : idOf = [n \in NodesListed |-> n.id]
    OBVIOUS
  <2>3. idOf \in Surjection(NodesListed, NodeIds)
    BY <2>2 DEF Surjection, NodeIds
  <2> QED
    BY <2>1, <2>3, FS_Surjection
<1>5. ASSUME NEW m, NEW n PROVE n \in TargetsOf(m) <=> \E d \in Depends : d.source = m /\ d.target = n
  BY DEF TargetsOf
<1>6. ASSUME NEW m, NEW n PROVE m \in SourcesOf(n) <=> \E d \in Depends : d.source = m /\ d.target = n
  BY DEF SourcesOf
<1>7. \A d \in Depends : d.source # d.target
  BY <1>1, ITAssumption
<1>8. \A m : TargetsOf(m) \subseteq NodeIds /\ SourcesOf(m) \subseteq NodeIds
  BY <1>1, <1>5, <1>6
<1>9. \A m, n : n \in TargetsOf(m) => m # n /\ m \in SourcesOf(n)
  BY <1>5, <1>6, <1>7
<1>10. \A m, n : m \in SourcesOf(n) => n \in TargetsOf(m)
  BY <1>5, <1>6
<1> QED
  BY <1>3, <1>4, <1>8, <1>9, <1>10 DEF IsGraph

\* A path passes each node at most once, and each depends on the next.
IsPath(p, m) ==
  /\ p \in Seq(NodeIds) /\ Len(p) >= 1 /\ p[1] = m
  /\ \A i, j \in 1 .. Len(p) : p[i] = p[j] => i = j
  /\ \A k \in 1 .. Len(p) : k + 1 <= Len(p) => p[k + 1] \in TargetsOf(p[k])

LEMMA PathLength ==
  ASSUME IsGraph, NEW m, NEW p, IsPath(p, m)
  PROVE  Len(p) \in Nat /\ Len(p) <= Cardinality(NodeIds)
<1>1. PICK n \in Nat : n = Len(p)
  BY DEF IsPath
<1>2. p \in [1 .. n -> NodeIds]
  BY <1>1 DEF IsPath
<1>3. p \in Injection(1 .. n, NodeIds)
  BY <1>1, <1>2 DEF IsPath, Injection, IsInjective
<1>4. IsFiniteSet(1 .. n) /\ Cardinality(1 .. n) = n
  <2>1. IsFiniteSet(1 .. n) /\ Cardinality(1 .. n) = IF 1 > n THEN 0 ELSE n - 1 + 1
    BY FS_Interval
  <2> QED
    BY <2>1
<1>5. Cardinality(1 .. n) <= Cardinality(NodeIds)
  BY <1>3, FS_Injection DEF IsGraph
<1> QED
  BY <1>1, <1>4, <1>5

\* The beginning of a path is one.
Begin(p, k) == [i \in 1 .. k |-> p[i]]

LEMMA BeginIs ==
  ASSUME NEW m, NEW p, IsPath(p, m), NEW k \in 1 .. Len(p)
  PROVE  IsPath(Begin(p, k), m) /\ Len(Begin(p, k)) = k /\ Begin(p, k)[k] = p[k]
<1>1. PICK n \in Nat : n = Len(p)
  BY DEF IsPath
<1>2. p \in [1 .. n -> NodeIds] /\ k \in Nat /\ 1 <= k /\ k <= n
  BY <1>1 DEF IsPath
<1>3. PICK b : b = Begin(p, k)
  OBVIOUS
<1>4. b \in [1 .. k -> NodeIds] /\ \A i \in 1 .. k : b[i] = p[i]
  BY <1>2, <1>3 DEF Begin
<1>5. b \in Seq(NodeIds) /\ Len(b) = k
  BY <1>2, <1>4
<1>6. \A i, j \in 1 .. k : b[i] = b[j] => i = j
  BY <1>1, <1>2, <1>4 DEF IsPath
<1>7. \A i \in 1 .. k : i + 1 <= k => b[i + 1] \in TargetsOf(b[i])
  <2> SUFFICES ASSUME NEW i \in 1 .. k, i + 1 <= k PROVE b[i + 1] \in TargetsOf(b[i])
    OBVIOUS
  <2>1. i \in 1 .. n /\ i + 1 <= n /\ i + 1 \in 1 .. k
    BY <1>2
  <2>2. p[i + 1] \in TargetsOf(p[i])
    BY <1>1, <2>1 DEF IsPath
  <2> QED
    BY <1>4, <2>1, <2>2
<1>8. b[1] = m
  BY <1>2, <1>4 DEF IsPath
<1> QED
  BY <1>2, <1>3, <1>4, <1>5, <1>6, <1>7, <1>8 DEF IsPath

\* A path that is taken further to a node it has not passed is one.
LEMMA FurtherIs ==
  ASSUME IsGraph, NEW m, NEW p, IsPath(p, m), NEW t \in TargetsOf(p[Len(p)]),
         \A i \in 1 .. Len(p) : p[i] # t
  PROVE  IsPath(Append(p, t), m) /\ Len(Append(p, t)) = Len(p) + 1 /\ Append(p, t)[Len(p) + 1] = t
<1>1. PICK n \in Nat : n = Len(p)
  BY DEF IsPath
<1>2. p \in Seq(NodeIds) /\ n >= 1 /\ p[1] = m
  BY <1>1 DEF IsPath
<1>3. t \in NodeIds /\ t \in TargetsOf(p[n])
  BY <1>1 DEF IsGraph
<1>4. PICK q : q = Append(p, t)
  OBVIOUS
<1>5. q \in Seq(NodeIds) /\ Len(q) = n + 1 /\ q[n + 1] = t /\ \A i \in 1 .. n : q[i] = p[i]
  BY <1>1, <1>2, <1>3, <1>4
<1>6. \A i, j \in 1 .. n : p[i] = p[j] => i = j
  BY <1>1 DEF IsPath
<1>7. \A k \in 1 .. n : k + 1 <= n => p[k + 1] \in TargetsOf(p[k])
  BY <1>1 DEF IsPath
<1>8. \A i \in 1 .. n : p[i] # t
  BY <1>1
<1>9. \A i, j \in 1 .. n + 1 : q[i] = q[j] => i = j
  <2>1. \A i \in 1 .. n + 1 : i \in 1 .. n \/ i = n + 1
    OBVIOUS
  <2> QED
    BY <1>5, <1>6, <1>8, <2>1
<1>10. \A k \in 1 .. n + 1 : k + 1 <= n + 1 => q[k + 1] \in TargetsOf(q[k])
  <2> SUFFICES ASSUME NEW k \in 1 .. n PROVE q[k + 1] \in TargetsOf(q[k])
    BY <1>1
  <2>1. CASE k = n
    BY <1>3, <1>5, <2>1, n \in 1 .. n
  <2>2. CASE k # n
    <3>1. k + 1 \in 1 .. n /\ k + 1 <= n
      BY <2>2
    <3> QED
      BY <1>5, <1>7, <3>1
  <2> QED
    BY <2>1, <2>2
<1>11. q[1] = m
  BY <1>2, <1>5
<1>12. IsPath(q, m)
  BY <1>5, <1>9, <1>10, <1>11 DEF IsPath
<1> QED
  BY <1>1, <1>4, <1>5, <1>12

\* What the search has when it has taken the paths from a node n steps further: all of that length.
PathsOf(m, n) == {p \in Seq(NodeIds) : IsPath(p, m) /\ Len(p) = n}

LEMMA OneFurtherIs ==
  ASSUME IsGraph, NEW m \in NodeIds, NEW n \in Nat, n >= 1
  PROVE  OneFurther(PathsOf(m, n)) = PathsOf(m, n + 1)
<1>1. ASSUME NEW q \in OneFurther(PathsOf(m, n)) PROVE q \in PathsOf(m, n + 1)
  <2>1. PICK p \in PathsOf(m, n) : \E t \in TargetsOf(Last(p)) \ Range(p) : q = Append(p, t)
    BY <1>1 DEF OneFurther
  <2>2. PICK t \in TargetsOf(Last(p)) \ Range(p) : q = Append(p, t)
    BY <2>1
  <2>3. IsPath(p, m) /\ Len(p) = n /\ p \in Seq(NodeIds)
    BY <2>1 DEF PathsOf
  <2>4. t \in TargetsOf(p[Len(p)]) /\ \A i \in 1 .. Len(p) : p[i] # t
    BY <2>2, <2>3 DEF Last, Range
  <2>5. IsPath(q, m) /\ Len(q) = n + 1
    BY <2>2, <2>3, <2>4, FurtherIs
  <2> QED
    BY <2>5 DEF PathsOf, IsPath
<1>2. ASSUME NEW q \in PathsOf(m, n + 1) PROVE q \in OneFurther(PathsOf(m, n))
  <2>1. IsPath(q, m) /\ Len(q) = n + 1 /\ q \in Seq(NodeIds)
    BY <1>2 DEF PathsOf
  <2>2. PICK p : p = Begin(q, n)
    OBVIOUS
  <2>3. IsPath(p, m) /\ Len(p) = n /\ p[n] = q[n]
    BY <2>1, <2>2, BeginIs
  <2>4. p \in PathsOf(m, n) /\ p \in Seq(NodeIds)
    BY <2>3 DEF PathsOf, IsPath
  <2>5. q[n + 1] \in TargetsOf(q[n])
    BY <2>1 DEF IsPath
  <2>6. \A i \in 1 .. n : p[i] = q[i] /\ q[i] # q[n + 1]
    <3> SUFFICES ASSUME NEW i \in 1 .. n PROVE p[i] = q[i] /\ q[i] # q[n + 1]
      OBVIOUS
    <3>1. i \in 1 .. n + 1 /\ n + 1 \in 1 .. n + 1 /\ i # n + 1
      OBVIOUS
    <3>2. q[i] # q[n + 1]
      BY <2>1, <3>1 DEF IsPath
    <3> QED
      BY <2>2, <3>2 DEF Begin
  <2>7. q[n + 1] \in TargetsOf(Last(p)) \ Range(p)
    <3>1. Last(p) = q[n]
      BY <2>3 DEF Last
    <3>2. DOMAIN p = 1 .. n
      BY <2>2 DEF Begin
    <3>3. q[n + 1] \notin Range(p)
      BY <2>6, <3>2 DEF Range
    <3> QED
      BY <2>5, <3>1, <3>3
  <2>8. q = Append(p, q[n + 1])
    <3>1. PICK a : a = Append(p, q[n + 1])
      OBVIOUS
    <3>2. q[n + 1] \in NodeIds
      BY <2>5 DEF IsGraph
    <3>3. a \in Seq(NodeIds) /\ Len(a) = n + 1 /\ a[n + 1] = q[n + 1] /\ \A i \in 1 .. n : a[i] = p[i]
      BY <2>3, <2>4, <3>1, <3>2
    <3>4. \A i \in 1 .. n + 1 : a[i] = q[i]
      <4>1. \A i \in 1 .. n + 1 : i \in 1 .. n \/ i = n + 1
        OBVIOUS
      <4> QED
        BY <2>6, <3>3, <4>1
    <3>5. a \in [1 .. n + 1 -> NodeIds] /\ q \in [1 .. n + 1 -> NodeIds]
      BY <2>1, <3>3
    <3>6. a = q
      BY <3>4, <3>5
    <3> QED
      BY <3>1, <3>6
  <2> QED
    BY <2>4, <2>7, <2>8 DEF OneFurther
<1> QED
  BY <1>1, <1>2

LEMMA PathsAre ==
  ASSUME IsGraph, NEW m \in NodeIds
  PROVE  \A p : p \in PathsFrom(m) <=> IsPath(p, m)
<1> DEFINE n == Cardinality(NodeIds)
           P(f) == f = [k \in 0 .. n |-> IF k = 0 THEN {<<m>>} ELSE OneFurther(f[k - 1])]
           R == CHOOSE f : P(f)
<1>1. n \in Nat
  BY FS_CardinalityType DEF IsGraph
<1>2. PathsFrom(m) = UNION {R[k] : k \in 0 .. n}
  BY DEF PathsFrom
<1> DEFINE f == [k \in 0 .. n |-> PathsOf(m, k + 1)]
<1>3. PathsOf(m, 1) = {<<m>>}
  <2>1. ASSUME NEW p \in PathsOf(m, 1) PROVE p = <<m>>
    <3>1. p \in Seq(NodeIds) /\ Len(p) = 1 /\ p[1] = m
      BY <2>1 DEF PathsOf, IsPath
    <3> QED
      BY <3>1
  <2>2. <<m>> \in PathsOf(m, 1)
    <3>1. PICK p : p = <<m>>
      OBVIOUS
    <3>2. p \in Seq(NodeIds) /\ Len(p) = 1 /\ p[1] = m
      BY <3>1
    <3> QED
      BY <3>1, <3>2 DEF PathsOf, IsPath
  <2> QED
    BY <2>1, <2>2
<1>4. ASSUME NEW h, P(h) PROVE \A k \in 0 .. n : h[k] = PathsOf(m, k + 1)
  <2> DEFINE S == {k \in Nat : k <= n => h[k] = PathsOf(m, k + 1)}
  <2>1. 0 \in S
    <3>1. h[0] = {<<m>>}
      BY <1>1, <1>4
    <3> QED
      BY <1>3, <3>1
  <2>2. ASSUME NEW k \in S PROVE k + 1 \in S
    <3>1. k \in Nat /\ k + 1 \in Nat
      OBVIOUS
    <3> SUFFICES ASSUME k + 1 <= n PROVE h[k + 1] = PathsOf(m, (k + 1) + 1)
      BY <3>1
    <3>2. h[k] = PathsOf(m, k + 1)
      BY <1>1, <3>1
    <3>3. h[k + 1] = OneFurther(h[k])
      <4>1. k + 1 \in 0 .. n /\ k + 1 # 0 /\ (k + 1) - 1 = k
        BY <1>1, <3>1
      <4> QED
        BY <1>4, <4>1
    <3>4. OneFurther(PathsOf(m, k + 1)) = PathsOf(m, (k + 1) + 1)
      BY <3>1, OneFurtherIs
    <3> QED
      BY <3>2, <3>3, <3>4
  <2>3. S = Nat
    <3> HIDE DEF S, P
    <3>1. S \in SUBSET Nat
      BY DEF S
    <3> QED
      BY <2>1, <2>2, <3>1, Induction
  <2> QED
    BY <1>1, <2>3
<1>5. \E h : P(h)
  <2>1. ASSUME NEW k \in 0 .. n
        PROVE  f[k] = IF k = 0 THEN {<<m>>} ELSE OneFurther(f[k - 1])
    <3>1. CASE k = 0
      BY <1>3, <2>1, <3>1
    <3>2. CASE k # 0
      <4>1. k - 1 \in 0 .. n /\ k \in Nat /\ k >= 1 /\ (k - 1) + 1 = k
        BY <1>1, <3>2
      <4>2. f[k - 1] = PathsOf(m, k)
        BY <4>1
      <4>3. OneFurther(PathsOf(m, k)) = PathsOf(m, k + 1)
        BY <4>1, OneFurtherIs
      <4> QED
        BY <2>1, <3>2, <4>2, <4>3
    <3> QED
      BY <3>1, <3>2
  <2>2. f = [k \in 0 .. n |-> f[k]]
    OBVIOUS
  <2> HIDE DEF f
  <2>3. f = [k \in 0 .. n |-> IF k = 0 THEN {<<m>>} ELSE OneFurther(f[k - 1])]
    BY <2>1, <2>2
  <2> QED
    BY <2>3
<1>6. PICK g : g = R
  OBVIOUS
<1>7. P(g)
  <2> HIDE DEF P
  <2> QED
    BY <1>5, <1>6, Zenon
<1>8. \A k \in 0 .. n : g[k] = PathsOf(m, k + 1)
  <2> HIDE DEF P
  <2> QED
    BY <1>4, <1>7
<1>9. PathsFrom(m) = UNION {g[k] : k \in 0 .. n}
  BY <1>2, <1>6
<1> HIDE DEF P, R, n, f
<1>10. ASSUME NEW p, p \in PathsFrom(m) PROVE IsPath(p, m)
  <2>1. PICK k \in 0 .. n : p \in g[k]
    BY <1>9, <1>10
  <2> QED
    BY <1>8, <2>1 DEF PathsOf
<1>11. ASSUME NEW p, IsPath(p, m) PROVE p \in PathsFrom(m)
  <2>1. Len(p) \in Nat /\ Len(p) <= n /\ Len(p) >= 1
    BY <1>11, PathLength DEF n, IsPath
  <2>2. PICK k \in 0 .. n : k + 1 = Len(p)
    <3>1. Len(p) - 1 \in 0 .. n /\ (Len(p) - 1) + 1 = Len(p)
      BY <1>1, <2>1
    <3> QED
      BY <3>1
  <2>3. p \in PathsOf(m, k + 1)
    BY <1>11, <2>2 DEF PathsOf, IsPath
  <2> QED
    BY <1>8, <1>9, <2>3
<1> QED
  BY <1>10, <1>11

\* What holds the nodes a node depends on, with whatever they depend on.
IsClosed(closed, m) ==
  /\ closed \in SUBSET NodeIds /\ TargetsOf(m) \subseteq closed
  /\ \A n \in closed : TargetsOf(n) \subseteq closed

LEMMA ReachesIs ==
  ASSUME NEW m, NEW n
  PROVE  Reaches(m, n) <=> \A closed : IsClosed(closed, m) => n \in closed
BY DEF Reaches, IsClosed

\* A node that a path can be taken further to is where the path has been, or another path goes.
LEMMA GoesOn ==
  ASSUME IsGraph, NEW m, NEW p, IsPath(p, m), NEW t \in TargetsOf(p[Len(p)])
  PROVE  \E q \in Seq(NodeIds) :
           IsPath(q, m) /\ q[Len(q)] = t /\ (Len(q) = 1 => t = m)
<1>1. PICK n \in Nat : n = Len(p)
  BY DEF IsPath
<1>2. CASE \E i \in 1 .. n : p[i] = t
  <2>1. PICK i \in 1 .. n : p[i] = t
    BY <1>2
  <2>2. PICK q : q = Begin(p, i)
    OBVIOUS
  <2>3. IsPath(q, m) /\ Len(q) = i /\ q[i] = t
    BY <1>1, <2>1, <2>2, BeginIs
  <2>4. q \in Seq(NodeIds) /\ q[1] = m
    BY <2>3 DEF IsPath
  <2> QED
    BY <2>3, <2>4
<1>3. CASE \A i \in 1 .. n : p[i] # t
  <2>1. PICK q : q = Append(p, t)
    OBVIOUS
  <2>2. IsPath(q, m) /\ Len(q) = n + 1 /\ q[n + 1] = t
    BY <1>1, <1>3, <2>1, FurtherIs
  <2>3. q \in Seq(NodeIds) /\ Len(q) >= 1 /\ q[1] = m
    BY <2>2 DEF IsPath
  <2> QED
    BY <2>2, <2>3
<1> QED
  BY <1>2, <1>3

LEMMA ReachesByPath ==
  ASSUME IsGraph, NEW m \in NodeIds, NEW n, Reaches(m, n)
  PROVE  \E p \in Seq(NodeIds) : IsPath(p, m) /\ p[Len(p)] = n
<1> DEFINE closed == {x \in NodeIds : \E p \in Seq(NodeIds) : IsPath(p, m) /\ p[Len(p)] = x}
<1>1. ASSUME NEW x \in closed PROVE TargetsOf(x) \subseteq closed
  <2> SUFFICES ASSUME NEW t \in TargetsOf(x) PROVE t \in closed
    OBVIOUS
  <2>1. PICK p \in Seq(NodeIds) : IsPath(p, m) /\ p[Len(p)] = x
    OBVIOUS
  <2>2. \E q \in Seq(NodeIds) : IsPath(q, m) /\ q[Len(q)] = t
    BY <2>1, GoesOn
  <2>3. t \in NodeIds
    BY DEF IsGraph
  <2> QED
    BY <2>2, <2>3
<1>2. m \in closed
  <2>1. PICK p : p = <<m>>
    OBVIOUS
  <2>2. p \in Seq(NodeIds) /\ Len(p) = 1 /\ p[1] = m
    BY <2>1
  <2>3. IsPath(p, m)
    BY <2>2 DEF IsPath
  <2> QED
    BY <2>2, <2>3
<1>3. IsClosed(closed, m)
  <2>1. closed \in SUBSET NodeIds
    OBVIOUS
  <2> HIDE DEF closed
  <2> QED
    BY <1>1, <1>2, <2>1 DEF IsClosed
<1>4. n \in closed
  <2> HIDE DEF closed
  <2> QED
    BY <1>3, ReachesIs
<1> QED
  BY <1>4

\* A node that reaches itself is the first of a path to a node that depends on it.
LEMMA ReturnsByPath ==
  ASSUME IsGraph, NEW m \in NodeIds, Reaches(m, m)
  PROVE  \E p \in Seq(NodeIds) : IsPath(p, m) /\ Len(p) >= 2 /\ m \in TargetsOf(p[Len(p)])
<1> SUFFICES ASSUME \A p \in Seq(NodeIds) : ~(IsPath(p, m) /\ Len(p) >= 2 /\ m \in TargetsOf(p[Len(p)]))
             PROVE  FALSE
  OBVIOUS
<1> DEFINE closed == {x \in NodeIds : \E p \in Seq(NodeIds) : IsPath(p, m) /\ Len(p) >= 2 /\ p[Len(p)] = x}
<1>1. ASSUME NEW p \in Seq(NodeIds), IsPath(p, m), Len(p) >= 2 \/ p[Len(p)] = m,
             NEW t \in TargetsOf(p[Len(p)])
      PROVE  t \in closed
  <2>1. t # m
    BY <1>1 DEF IsGraph
  <2>2. PICK q \in Seq(NodeIds) : IsPath(q, m) /\ q[Len(q)] = t /\ (Len(q) = 1 => t = m)
    BY <1>1, GoesOn
  <2>3. Len(q) >= 2
    <3>1. PICK l \in Nat : l = Len(q)
      BY <2>2 DEF IsPath
    <3>2. l >= 1 /\ l # 1
      BY <2>1, <2>2, <3>1 DEF IsPath
    <3> QED
      BY <3>1, <3>2
  <2>4. t \in NodeIds
    BY DEF IsGraph
  <2> QED
    BY <2>2, <2>3, <2>4
<1>2. ASSUME NEW x \in closed PROVE TargetsOf(x) \subseteq closed
  <2>1. PICK p \in Seq(NodeIds) : IsPath(p, m) /\ Len(p) >= 2 /\ p[Len(p)] = x
    OBVIOUS
  <2> HIDE DEF closed
  <2> QED
    BY <1>1, <2>1
<1>3. TargetsOf(m) \subseteq closed
  <2>1. PICK p : p = <<m>>
    OBVIOUS
  <2>2. p \in Seq(NodeIds) /\ Len(p) = 1 /\ p[1] = m
    BY <2>1
  <2>3. IsPath(p, m)
    BY <2>2 DEF IsPath
  <2> HIDE DEF closed
  <2> QED
    BY <1>1, <2>2, <2>3
<1>4. IsClosed(closed, m)
  <2>1. closed \in SUBSET NodeIds
    OBVIOUS
  <2> HIDE DEF closed
  <2> QED
    BY <1>2, <1>3, <2>1 DEF IsClosed
<1>5. m \in closed
  <2> HIDE DEF closed
  <2> QED
    BY <1>4, ReachesIs
<1>6. PICK p \in Seq(NodeIds) : IsPath(p, m) /\ Len(p) >= 2 /\ p[Len(p)] = m
  BY <1>5
<1>7. Len(p) \in Nat /\ 1 \in 1 .. Len(p) /\ Len(p) \in 1 .. Len(p) /\ p[1] = m
  BY <1>6 DEF IsPath
<1>8. Len(p) = 1
  BY <1>6, <1>7 DEF IsPath
<1> QED
  BY <1>6, <1>8

\* Whatever the last node of a path depends on, the first one reaches.
LEMMA PathReaches ==
  ASSUME IsGraph, NEW m, NEW p, IsPath(p, m), NEW n \in TargetsOf(p[Len(p)])
  PROVE  Reaches(m, n)
<1> SUFFICES ASSUME NEW closed, IsClosed(closed, m) PROVE n \in closed
  BY ReachesIs
<1>1. PICK l \in Nat : l = Len(p) /\ l >= 1 /\ p[1] = m
  BY DEF IsPath
<1> DEFINE S == {k \in Nat : k + 1 <= l => TargetsOf(p[k + 1]) \subseteq closed}
<1>2. 0 \in S
  <2>1. TargetsOf(p[1]) \subseteq closed
    BY <1>1 DEF IsClosed
  <2> QED
    BY <2>1
<1>3. ASSUME NEW k \in S PROVE k + 1 \in S
  <2>1. k \in Nat /\ k + 1 \in Nat
    OBVIOUS
  <2> SUFFICES ASSUME (k + 1) + 1 <= l PROVE TargetsOf(p[(k + 1) + 1]) \subseteq closed
    BY <2>1
  <2>2. TargetsOf(p[k + 1]) \subseteq closed
    BY <1>1, <2>1
  <2>3. p[(k + 1) + 1] \in TargetsOf(p[k + 1])
    BY <1>1, <2>1 DEF IsPath
  <2> QED
    BY <2>2, <2>3 DEF IsClosed
<1>4. S = Nat
  <2> HIDE DEF S
  <2>1. S \in SUBSET Nat
    BY DEF S
  <2> QED
    BY <1>2, <1>3, <2>1, Induction
<1>5. TargetsOf(p[l]) \subseteq closed
  <2>1. PICK k \in Nat : k + 1 = l
    <3>1. l - 1 \in Nat /\ (l - 1) + 1 = l
      BY <1>1
    <3> QED
      BY <3>1
  <2>2. k \in S
    BY <1>4
  <2> QED
    BY <2>1, <2>2
<1> QED
  BY <1>1, <1>5

\* A set of natural numbers that is not empty has its minimum.
LEMMA MinimumIs ==
  ASSUME NEW S \in SUBSET Nat, S # {}
  PROVE  Min(S) \in S /\ \A j \in S : Min(S) <= j
<1>1. \E i \in S : \A j \in S : i <= j
  <2> SUFFICES ASSUME \A i \in S : \E j \in S : ~(i <= j) PROVE FALSE
    OBVIOUS
  <2> DEFINE N == {n \in Nat : \A j \in S : n <= j}
  <2>1. 0 \in N
    OBVIOUS
  <2>2. ASSUME NEW n \in N PROVE n + 1 \in N
    <3>1. n \in Nat /\ n \notin S /\ \A j \in S : n <= j
      OBVIOUS
    <3>2. \A j \in S : n + 1 <= j
      <4> SUFFICES ASSUME NEW j \in S PROVE n + 1 <= j
        OBVIOUS
      <4>1. j \in Nat /\ j # n /\ n <= j
        BY <3>1
      <4> QED
        BY <3>1, <4>1
    <3> QED
      BY <3>1, <3>2
  <2>3. N = Nat
    <3> HIDE DEF N
    <3>1. N \in SUBSET Nat
      BY DEF N
    <3> QED
      BY <2>1, <2>2, <3>1, Induction
  <2>4. PICK j \in Nat : j \in S
    OBVIOUS
  <2>5. j + 1 \in N
    BY <2>3, j + 1 \in Nat
  <2>6. j + 1 <= j
    BY <2>4, <2>5
  <2> QED
    BY <2>6
<1>2. PICK m : m = Min(S)
  OBVIOUS
<1>3. m \in S /\ \A j \in S : m <= j
  BY <1>1, <1>2 DEF Min
<1> QED
  BY <1>2, <1>3

\* Round a circle of n: the next one, and the k-th from the l-th.
After(k, n) == IF k = n THEN 1 ELSE k + 1
Turned(k, l, n) == IF k + l <= n + 1 THEN k + l - 1 ELSE k + l - 1 - n

LEMMA RestIs ==
  ASSUME NEW n \in Nat, n >= 1, NEW x \in Nat, x < 2 * n
  PROVE  x % n = IF x < n THEN x ELSE x - n
<1>1. CASE x < n
  <2>1. x = 0 * n + x
    BY <1>1
  <2> QED
    BY <1>1
<1>2. CASE ~(x < n)
  <2>1. PICK y \in Nat : x = n + y /\ y < n
    <3>1. x - n \in Nat /\ x = n + (x - n) /\ x - n < n
      BY <1>2
    <3> QED
      BY <3>1
  <2>2. x % n = y
    BY <2>1
  <2> QED
    BY <1>2, <2>1, <2>2
<1> QED
  BY <1>1, <1>2

LEMMA CircleIs ==
  ASSUME NEW n \in Nat, n >= 1, NEW l \in 1 .. n, NEW k \in 1 .. n
  PROVE  /\ 1 + (k % n) = After(k, n) /\ 1 + ((k + l - 2) % n) = Turned(k, l, n)
         /\ After(k, n) \in 1 .. n /\ Turned(k, l, n) \in 1 .. n
         /\ Turned(After(k, n), l, n) = After(Turned(k, l, n), n)
         /\ Turned(1, l, n) = l
         /\ \A j \in 1 .. n : Turned(j, l, n) = Turned(k, l, n) => j = k
         /\ \E j \in 1 .. n : Turned(j, l, n) = k
<1>1. 1 + (k % n) = After(k, n)
  <2>1. k \in Nat /\ k < 2 * n
    OBVIOUS
  <2>2. k % n = IF k < n THEN k ELSE k - n
    BY <2>1, RestIs
  <2> QED
    BY <2>2 DEF After
<1>2. 1 + ((k + l - 2) % n) = Turned(k, l, n)
  <2>1. PICK x \in Nat : x = k + l - 2 /\ x < 2 * n
    <3>1. k + l - 2 \in Nat /\ k + l - 2 < 2 * n
      OBVIOUS
    <3> QED
      BY <3>1
  <2>2. x % n = IF x < n THEN x ELSE x - n
    BY <2>1, RestIs
  <2> QED
    BY <2>1, <2>2 DEF Turned
<1>3. After(k, n) \in 1 .. n /\ Turned(k, l, n) \in 1 .. n /\ Turned(1, l, n) = l
  BY DEF After, Turned
<1>4. Turned(After(k, n), l, n) = After(Turned(k, l, n), n)
  BY DEF After, Turned
<1>5. \A j \in 1 .. n : Turned(j, l, n) = Turned(k, l, n) => j = k
  BY DEF Turned
<1>6. \E j \in 1 .. n : Turned(j, l, n) = k
  <2>1. CASE k >= l
    <3>1. k - l + 1 \in 1 .. n /\ Turned(k - l + 1, l, n) = k
      BY <2>1 DEF Turned
    <3> QED
      BY <3>1
  <2>2. CASE ~(k >= l)
    <3>1. k - l + 1 + n \in 1 .. n /\ Turned(k - l + 1 + n, l, n) = k
      BY <2>2 DEF Turned
    <3> QED
      BY <3>1
  <2> QED
    BY <2>1, <2>2
<1> QED
  BY <1>1, <1>2, <1>3, <1>4, <1>5, <1>6

\* A path whose last node depends on the first.
IsCycle(q) == IsPath(q, q[1]) /\ Len(q) >= 2 /\ q[1] \in TargetsOf(q[Len(q)])

LEMMA CyclesAre ==
  ASSUME IsGraph
  PROVE  /\ \A q \in Seq(NodeIds) : IsCycle(q) => FromLeast(q) \in Cycles
         /\ \A c \in Cycles : \E q \in Seq(NodeIds) : IsCycle(q) /\ c = FromLeast(q)
<1> DEFINE found == UNION {PathsFrom(id) : id \in NodeIds}
<1>1. Cycles = {FromLeast(p) : p \in {q \in found : Len(q) >= 2 /\ q[1] \in TargetsOf(Last(q))}}
  BY DEF Cycles
<1>2. ASSUME NEW q \in Seq(NodeIds), IsCycle(q) PROVE FromLeast(q) \in Cycles
  <2>1. IsPath(q, q[1]) /\ Len(q) >= 2 /\ q[1] \in TargetsOf(Last(q))
    BY <1>2 DEF IsCycle, Last
  <2>2. q[1] \in NodeIds
    BY <2>1 DEF IsGraph
  <2>3. q \in PathsFrom(q[1])
    BY <2>1, <2>2, PathsAre
  <2>4. q \in found
    BY <2>2, <2>3
  <2> HIDE DEF found
  <2> QED
    BY <1>1, <2>1, <2>4
<1>3. ASSUME NEW c \in Cycles PROVE \E q \in Seq(NodeIds) : IsCycle(q) /\ c = FromLeast(q)
  <2>1. PICK q \in found : Len(q) >= 2 /\ q[1] \in TargetsOf(Last(q)) /\ c = FromLeast(q)
    <3> HIDE DEF found
    <3> QED
      BY <1>1, <1>3
  <2>2. PICK m \in NodeIds : q \in PathsFrom(m)
    BY <2>1
  <2>3. IsPath(q, m)
    BY <2>2, PathsAre
  <2>4. IsPath(q, q[1]) /\ q \in Seq(NodeIds)
    BY <2>3 DEF IsPath
  <2> QED
    BY <2>1, <2>4 DEF IsCycle, Last
<1> QED
  BY <1>2, <1>3

\* The same cycle, written from its least node.
IsTurned(c, q, l) ==
  /\ DOMAIN c = 1 .. Len(q) /\ Len(c) = Len(q) /\ l \in 1 .. Len(q)
  /\ \A k \in 1 .. Len(q) : c[k] = q[Turned(k, l, Len(q))]
  /\ q[l] = Min(Range(q))

LEMMA FromLeastIs ==
  ASSUME IsGraph, NEW q \in Seq(NodeIds), IsCycle(q), NEW c, c = FromLeast(q)
  PROVE  \E l : IsTurned(c, q, l)
<1>1. PICK n \in Nat : n = Len(q) /\ n >= 2 /\ q \in [1 .. n -> NodeIds]
  BY DEF IsCycle
<1>2. PICK range : range = Range(q)
  OBVIOUS
<1>3. range = {q[i] : i \in 1 .. n}
  BY <1>1, <1>2 DEF Range
<1>4. range \in SUBSET Nat /\ range # {}
  <2>1. \A i \in 1 .. n : q[i] \in NodeIds
    BY <1>1
  <2>2. q[1] \in range
    BY <1>1, <1>3
  <2>3. range \subseteq NodeIds
    BY <1>3, <2>1
  <2>4. NodeIds \in SUBSET Nat
    BY DEF IsGraph
  <2> QED
    BY <2>2, <2>3, <2>4
<1>5. Min(range) \in range
  BY <1>4, MinimumIs
<1>6. PICK l : l = CHOOSE i \in DOMAIN q : q[i] = Min(Range(q))
  OBVIOUS
<1>7. l \in 1 .. n /\ q[l] = Min(Range(q))
  BY <1>1, <1>2, <1>3, <1>5, <1>6
<1>8. c = [k \in 1 .. n |-> q[1 + ((k + l - 2) % n)]]
  BY <1>1, <1>6 DEF FromLeast
<1>9. \A k \in 1 .. n : 1 + ((k + l - 2) % n) = Turned(k, l, n)
  BY <1>1, <1>7, CircleIs
<1>10. \A k \in 1 .. n : c[k] = q[Turned(k, l, n)]
  BY <1>8, <1>9
<1>11. DOMAIN c = 1 .. n /\ Len(c) = n
  BY <1>1, <1>8
<1> QED
  BY <1>1, <1>7, <1>10, <1>11 DEF IsTurned

\* What is found of a cycle: of its nodes, each once, the least first, each depends on the next.
LEMMA TurnedIs ==
  ASSUME IsGraph, NEW q \in Seq(NodeIds), IsCycle(q), NEW c, NEW l, IsTurned(c, q, l)
  PROVE  /\ Range(c) \subseteq NodeIds /\ IsInjective(c) /\ c[1] = Min(Range(c))
         /\ \A k \in DOMAIN c : c[1 + (k % Len(c))] \in TargetsOf(c[k])
         /\ \E k \in DOMAIN c : c[k] = q[Len(q)] /\ c[1 + (k % Len(c))] = q[1]
<1>1. PICK n \in Nat : n = Len(q) /\ n >= 2 /\ q \in [1 .. n -> NodeIds]
  BY DEF IsCycle
<1>2. l \in 1 .. n /\ DOMAIN c = 1 .. n /\ Len(c) = n /\ q[l] = Min(Range(q))
  BY <1>1 DEF IsTurned
<1>3. \A k \in 1 .. n : c[k] = q[Turned(k, l, n)] /\ Turned(k, l, n) \in 1 .. n
  BY <1>1, <1>2, CircleIs DEF IsTurned
<1>4. Range(c) = Range(q)
  <2>1. ASSUME NEW k \in 1 .. n PROVE \E j \in 1 .. n : Turned(j, l, n) = k
    <3>1. n >= 1
      BY <1>1
    <3> QED
      BY <1>2, <3>1, CircleIs
  <2>2. Range(c) \subseteq Range(q)
    BY <1>1, <1>2, <1>3 DEF Range
  <2>3. \A k \in 1 .. n : \E j \in 1 .. n : c[j] = q[k]
    BY <1>3, <2>1
  <2>4. Range(q) \subseteq Range(c)
    BY <1>1, <1>2, <2>3 DEF Range
  <2> QED
    BY <2>2, <2>4
<1>5. Range(c) \subseteq NodeIds
  BY <1>1, <1>4 DEF Range
<1>6. IsInjective(c)
  <2>1. ASSUME NEW i \in 1 .. n, NEW j \in 1 .. n, c[i] = c[j] PROVE i = j
    <3>1. Turned(i, l, n) = Turned(j, l, n)
      BY <1>1, <1>3, <2>1 DEF IsCycle, IsPath
    <3> QED
      BY <1>1, <1>2, <3>1, CircleIs
  <2> QED
    BY <1>2, <2>1 DEF IsInjective
<1>7. c[1] = Min(Range(c))
  <2>1. Turned(1, l, n) = l /\ 1 \in 1 .. n
    BY <1>1, <1>2, CircleIs
  <2>2. c[1] = q[l]
    BY <1>3, <2>1
  <2> QED
    BY <1>2, <1>4, <2>2
<1>8. \A k \in 1 .. n : q[After(k, n)] \in TargetsOf(q[k])
  <2> SUFFICES ASSUME NEW k \in 1 .. n PROVE q[After(k, n)] \in TargetsOf(q[k])
    OBVIOUS
  <2>1. CASE k = n
    BY <1>1, <2>1 DEF After, IsCycle
  <2>2. CASE k # n
    <3>1. k + 1 <= n /\ After(k, n) = k + 1
      <4>1. k \in Int /\ n \in Int /\ k <= n /\ k # n
        <5>1. n \in Nat
          BY <1>1
        <5>2. k \in Nat /\ k <= n
          BY <5>1
        <5> QED
          BY <2>2, <5>1, <5>2
      <4>2. k + 1 <= n
        BY <4>1
      <4> QED
        BY <2>2, <4>2 DEF After
    <3>2. q[k + 1] \in TargetsOf(q[k])
      BY <1>1, <3>1 DEF IsCycle, IsPath
    <3> QED
      BY <3>1, <3>2
  <2> QED
    BY <2>1, <2>2
<1>9. ASSUME NEW k \in 1 .. n
      PROVE  /\ 1 + (k % n) = After(k, n)
             /\ c[After(k, n)] = q[After(Turned(k, l, n), n)]
  <2>1. /\ 1 + (k % n) = After(k, n) /\ After(k, n) \in 1 .. n
        /\ Turned(After(k, n), l, n) = After(Turned(k, l, n), n)
    BY <1>1, <1>2, CircleIs
  <2> QED
    BY <1>3, <2>1
<1>10. \A k \in 1 .. n : c[1 + (k % n)] \in TargetsOf(c[k])
  <2> SUFFICES ASSUME NEW k \in 1 .. n PROVE c[1 + (k % n)] \in TargetsOf(c[k])
    OBVIOUS
  <2>1. q[After(Turned(k, l, n), n)] \in TargetsOf(q[Turned(k, l, n)])
    BY <1>3, <1>8
  <2> QED
    BY <1>3, <1>9, <2>1
<1>11. \E k \in 1 .. n : c[k] = q[n] /\ c[1 + (k % n)] = q[1]
  <2>1. PICK k \in 1 .. n : Turned(k, l, n) = n
    <3>1. n >= 1 /\ n \in 1 .. n
      BY <1>1
    <3> QED
      BY <1>2, <3>1, CircleIs
  <2>2. c[k] = q[n]
    BY <1>3, <2>1
  <2>3. After(n, n) = 1
    BY DEF After
  <2>4. c[1 + (k % n)] = q[1]
    BY <1>9, <2>1, <2>3
  <2> QED
    BY <2>2, <2>4
<1>12. \A k \in DOMAIN c : c[1 + (k % Len(c))] \in TargetsOf(c[k])
  BY <1>2, <1>10, Zenon
<1>13. \E k \in DOMAIN c : c[k] = q[Len(q)] /\ c[1 + (k % Len(c))] = q[1]
  <2>1. PICK k \in 1 .. n : c[k] = q[n] /\ c[1 + (k % n)] = q[1]
    BY <1>11
  <2>2. k \in DOMAIN c /\ c[k] = q[Len(q)] /\ c[1 + (k % Len(c))] = q[1]
    BY <1>1, <1>2, <2>1, Zenon
  <2> QED
    BY <2>2
<1> QED
  BY <1>5, <1>6, <1>7, <1>12, <1>13

LEMMA CyclesExact ==
  ASSUME IsGraph
  PROVE  CyclesAreExact /\ \A p \in Cycles : Range(p) \subseteq NodeIds
<1>1. ASSUME NEW p \in Cycles
      PROVE  /\ Range(p) \subseteq NodeIds /\ IsInjective(p) /\ p[1] = Min(Range(p))
             /\ \A k \in DOMAIN p : p[1 + (k % Len(p))] \in TargetsOf(p[k])
  <2>1. PICK q \in Seq(NodeIds) : IsCycle(q) /\ p = FromLeast(q)
    BY <1>1, CyclesAre
  <2>2. PICK l : IsTurned(p, q, l)
    BY <2>1, FromLeastIs
  <2> QED
    BY <2>1, <2>2, TurnedIs
<1>2. ASSUME NEW n \in NodeIds, Reaches(n, n) PROVE Cycles # {}
  <2>1. PICK q \in Seq(NodeIds) : IsPath(q, n) /\ Len(q) >= 2 /\ n \in TargetsOf(q[Len(q)])
    BY <1>2, ReturnsByPath
  <2>2. IsCycle(q)
    BY <2>1 DEF IsCycle, IsPath
  <2> QED
    BY <2>2, CyclesAre
<1>3. ASSUME Cycles # {} PROVE \E n \in NodeIds : Reaches(n, n)
  <2>1. PICK p : p \in Cycles
    BY <1>3
  <2>2. PICK q \in Seq(NodeIds) : IsCycle(q)
    BY <2>1, CyclesAre
  <2>3. IsPath(q, q[1]) /\ q[1] \in TargetsOf(q[Len(q)])
    BY <2>2 DEF IsCycle
  <2>4. q[1] \in NodeIds
    BY <2>3 DEF IsGraph
  <2> QED
    BY <2>3, <2>4, PathReaches
<1>4. ASSUME NEW d \in Depends, Reaches(d.target, d.source)
      PROVE  \E p \in Cycles, k \in 1 .. Cardinality(NodeIds) :
               k \in DOMAIN p /\ p[k] = d.source /\ p[1 + (k % Len(p))] = d.target
  <2>1. d.target \in TargetsOf(d.source) /\ d.source # d.target
    BY DEF TargetsOf, IsGraph
  <2>2. d.target \in NodeIds
    BY <2>1 DEF IsGraph
  <2>3. PICK q \in Seq(NodeIds) : IsPath(q, d.target) /\ q[Len(q)] = d.source
    BY <1>4, <2>2, ReachesByPath
  <2>4. PICK n \in Nat : n = Len(q) /\ n >= 1 /\ q[1] = d.target /\ n <= Cardinality(NodeIds)
    BY <2>3, PathLength DEF IsPath
  <2>5. n # 1
    BY <2>1, <2>3, <2>4
  <2>6. IsCycle(q)
    BY <2>1, <2>3, <2>4, <2>5 DEF IsCycle
  <2>7. PICK p \in Cycles : p = FromLeast(q)
    BY <2>6, CyclesAre
  <2>8. PICK l : IsTurned(p, q, l)
    BY <2>6, <2>7, FromLeastIs
  <2>9. PICK k \in DOMAIN p : p[k] = q[Len(q)] /\ p[1 + (k % Len(p))] = q[1]
    BY <2>6, <2>8, TurnedIs
  <2>10. k \in 1 .. n
    BY <2>4, <2>8, <2>9 DEF IsTurned
  <2>11. k \in 1 .. Cardinality(NodeIds)
    <3>1. Cardinality(NodeIds) \in Nat
      BY FS_CardinalityType DEF IsGraph
    <3> QED
      BY <2>4, <2>10, <3>1
  <2> QED
    BY <2>3, <2>4, <2>9, <2>11
<1>5. Cycles = {} <=> \A n \in NodeIds : ~Reaches(n, n)
  BY <1>2, <1>3
<1> QED
  BY <1>1, <1>4, <1>5 DEF CyclesAreExact

\* What a node depends on is reached, and so is what that reaches.
LEMMA ReachesFurther ==
  ASSUME IsGraph, NEW m, NEW t \in TargetsOf(m)
  PROVE  Reaches(m, t) /\ \A n : Reaches(t, n) => Reaches(m, n)
<1>1. Reaches(m, t)
  BY ReachesIs DEF IsClosed
<1>2. ASSUME NEW n, Reaches(t, n) PROVE Reaches(m, n)
  <2> SUFFICES ASSUME NEW closed, IsClosed(closed, m) PROVE n \in closed
    BY ReachesIs
  <2>1. IsClosed(closed, t)
    BY DEF IsClosed
  <2> QED
    BY <1>2, <2>1, ReachesIs
<1> QED
  BY <1>1, <1>2

LEMMA OneUpIs ==
  ASSUME IsGraph, NEW found \in SUBSET NodeIds
  PROVE  found \subseteq OneUp(found) /\ OneUp(found) \in SUBSET NodeIds
<1>1. \A n : SourcesOf(n) \subseteq NodeIds
  BY DEF IsGraph
<1>2. ASSUME NEW x \in OneUp(found) PROVE x \in NodeIds
  <2>1. x \in found \/ \E n \in found : x \in SourcesOf(n)
    BY <1>2 DEF OneUp
  <2> QED
    BY <1>1, <2>1
<1> QED
  BY <1>2 DEF OneUp

\* What the nodes above one are: as many steps as there are nodes find them all.
IsAbove(found, b) ==
  /\ SourcesOf(b) \subseteq found /\ found \subseteq NodeIds
  /\ \A n \in found : SourcesOf(n) \subseteq found /\ Reaches(n, b)

LEMMA AboveIs ==
  ASSUME IsGraph, NEW b
  PROVE  IsAbove(Above(b), b)
<1> DEFINE n == Cardinality(NodeIds)
           P(f) == f = [k \in 0 .. n |-> IF k = 0 THEN SourcesOf(b) ELSE OneUp(f[k - 1])]
           R == CHOOSE f : P(f)
           all == SUBSET NodeIds
           step == [s \in all |-> OneUp(s)]
<1>1. n \in Nat /\ IsFiniteSet(NodeIds)
  BY FS_CardinalityType DEF IsGraph
<1>2. Above(b) = R[n]
  BY DEF Above
<1>3. step \in [all -> all] /\ SourcesOf(b) \in all
  <2>1. \A s \in all : OneUp(s) \in all
    BY OneUpIs
  <2>2. SourcesOf(b) \in all
    BY DEF IsGraph
  <2> QED
    BY <2>1, <2>2
<1>4. PICK f : IsIter(f, step, SourcesOf(b), n)
  BY <1>1, IterExists
<1>5. P(f)
  <2>1. f \in [0 .. n -> all]
    <3> HIDE DEF n, step, all
    <3> QED
      BY <1>1, <1>3, <1>4, IterRuns
  <2>2. f = [k \in 0 .. n |-> IterStep(f, step, SourcesOf(b), k)]
    BY <1>4 DEF IsIter
  <2>3. ASSUME NEW k \in 0 .. n
        PROVE  IterStep(f, step, SourcesOf(b), k) = IF k = 0 THEN SourcesOf(b) ELSE OneUp(f[k - 1])
    <3>1. CASE k = 0
      BY <3>1 DEF IterStep
    <3>2. CASE k # 0
      <4>1. k - 1 \in 0 .. n
        BY <1>1, <3>2
      <4>2. f[k - 1] \in all
        BY <2>1, <4>1
      <4> QED
        BY <3>2, <4>2 DEF IterStep
    <3> QED
      BY <3>1, <3>2
  <2> QED
    BY <2>2, <2>3
<1>6. PICK g : g = R
  OBVIOUS
<1>7. P(g)
  <2> HIDE DEF P
  <2> QED
    BY <1>5, <1>6, Zenon
<1>8. Above(b) = g[n]
  BY <1>2, <1>6
<1>9. g[0] = SourcesOf(b) /\ \A k \in Nat : k + 1 <= n => g[k + 1] = OneUp(g[k])
  <2>1. 0 \in 0 .. n
    BY <1>1
  <2>2. ASSUME NEW k \in Nat, k + 1 <= n PROVE g[k + 1] = OneUp(g[k])
    <3>1. k + 1 \in 0 .. n /\ k + 1 # 0 /\ (k + 1) - 1 = k
      BY <1>1, <2>2
    <3> QED
      BY <1>7, <3>1
  <2> QED
    BY <1>7, <2>1, <2>2
<1> HIDE DEF P, R, n, all, step
\* Found so far: nodes that reach it, more with each step until there are no more.
<1> DEFINE Gathered(s, k) ==
             /\ SourcesOf(b) \subseteq s /\ s \subseteq NodeIds /\ \A x \in s : Reaches(x, b)
             /\ OneUp(s) = s \/ Cardinality(s) >= k
           S == {k \in Nat : k <= n => Gathered(g[k], k)}
<1>10. \A s \in SUBSET NodeIds : IsFiniteSet(s) /\ Cardinality(s) \in Nat
  BY <1>1, FS_Subset, FS_CardinalityType
<1>11. 0 \in S
  <2>1. PICK s : s = SourcesOf(b)
    OBVIOUS
  <2>2. s \in SUBSET NodeIds
    BY <2>1 DEF IsGraph
  <2>3. \A x \in s : Reaches(x, b)
    BY <2>1, ReachesFurther DEF IsGraph
  <2>4. Cardinality(s) >= 0
    BY <1>10, <2>2
  <2>5. Gathered(s, 0)
    BY <2>1, <2>2, <2>3, <2>4
  <2> HIDE DEF Gathered
  <2> QED
    BY <1>9, <2>1, <2>5
<1>12. ASSUME NEW k \in S PROVE k + 1 \in S
  <2>1. k \in Nat /\ k + 1 \in Nat
    OBVIOUS
  <2> SUFFICES ASSUME k + 1 <= n PROVE Gathered(g[k + 1], k + 1)
    BY <2>1
  <2>2. PICK s : s = g[k]
    OBVIOUS
  <2>3. PICK t : t = g[k + 1]
    OBVIOUS
  <2>4. Gathered(s, k)
    BY <1>1, <2>1, <2>2
  <2>5. t = OneUp(s)
    BY <1>9, <2>1, <2>2, <2>3
  <2>6. s \subseteq t /\ t \subseteq NodeIds
    BY <2>4, <2>5, OneUpIs
  <2>7. \A x \in t : Reaches(x, b)
    <3> SUFFICES ASSUME NEW x \in t PROVE Reaches(x, b)
      OBVIOUS
    <3>1. x \in s \/ \E y \in s : x \in SourcesOf(y)
      BY <2>5 DEF OneUp
    <3>2. ASSUME NEW y \in s, x \in SourcesOf(y) PROVE Reaches(x, b)
      <4>1. y \in TargetsOf(x)
        BY <3>2 DEF IsGraph
      <4>2. Reaches(y, b)
        BY <2>4
      <4> QED
        BY <4>1, <4>2, ReachesFurther
    <3> QED
      BY <2>4, <3>1, <3>2
  <2>8. OneUp(t) = t \/ Cardinality(t) >= k + 1
    <3>1. CASE t = s
      BY <2>5, <3>1
    <3>2. CASE t # s
      <4>1. Cardinality(s) <= Cardinality(t) /\ Cardinality(s) # Cardinality(t)
        BY <1>10, <2>6, <3>2, FS_Subset
      <4>2. Cardinality(s) >= k
        BY <2>4, <2>5, <3>2
      <4>3. PICK a \in Nat, c \in Nat : a = Cardinality(s) /\ c = Cardinality(t)
        BY <1>10, <2>6
      <4>4. c >= k + 1
        BY <2>1, <4>1, <4>2, <4>3
      <4> QED
        BY <4>3, <4>4
    <3> QED
      BY <3>1, <3>2
  <2> QED
    BY <2>3, <2>4, <2>6, <2>7, <2>8
<1>13. Gathered(g[n], n)
  <2> HIDE DEF S
  <2>1. S \in SUBSET Nat
    BY DEF S
  <2>2. S = Nat
    BY <1>11, <1>12, <2>1, Induction
  <2> QED
    BY <1>1, <2>2 DEF S
<1>14. PICK s : s = g[n]
  OBVIOUS
<1>15. /\ SourcesOf(b) \subseteq s /\ s \subseteq NodeIds /\ (\A x \in s : Reaches(x, b))
       /\ OneUp(s) = s \/ Cardinality(s) >= n
  BY <1>13, <1>14
<1>16. OneUp(s) = s
  <2>1. CASE Cardinality(s) >= n
    <3>1. Cardinality(s) <= n /\ (Cardinality(s) = n => s = NodeIds)
      BY <1>1, <1>15, FS_Subset DEF n
    <3>2. Cardinality(s) = n
      BY <1>1, <1>10, <1>15, <2>1, <3>1
    <3>3. s = NodeIds
      BY <3>1, <3>2
    <3> QED
      BY <3>3 DEF OneUp, IsGraph
  <2> QED
    BY <1>15, <2>1
<1>17. \A x \in s : SourcesOf(x) \subseteq s
  BY <1>16 DEF OneUp
<1> QED
  BY <1>8, <1>14, <1>15, <1>17 DEF IsAbove

\* What is not above a node is closed under dependency but for the node itself.
LEMMA ReachesIsAbove ==
  ASSUME IsGraph, NEW b \in NodeIds, NEW found, IsAbove(found, b), NEW m
  PROVE  m \in found <=> m \in NodeIds /\ Reaches(m, b)
<1>1. m \in found => m \in NodeIds /\ Reaches(m, b)
  BY DEF IsAbove
<1>2. ASSUME Reaches(m, b), m \notin found PROVE FALSE
  <2>1. PICK closed : closed = NodeIds \ (found \cup {b})
    OBVIOUS
  <2>2. ASSUME NEW x, x \notin found, NEW t \in TargetsOf(x) PROVE t \in closed
    <3>1. x \in SourcesOf(t) /\ t \in NodeIds
      BY DEF IsGraph
    <3>2. t \notin found /\ t # b
      BY <2>2, <3>1 DEF IsAbove
    <3> QED
      BY <2>1, <3>1, <3>2
  <2>3. IsClosed(closed, m)
    BY <1>2, <2>1, <2>2 DEF IsClosed
  <2>4. b \in closed
    BY <1>2, <2>3, ReachesIs
  <2> QED
    BY <2>1, <2>4
<1> QED
  BY <1>1, <1>2

LEMMA ImpactExact ==
  ASSUME IsGraph
  PROVE  ImpactIsTransitive /\ Impacted \subseteq NodeIds
<1>1. PICK blocked : blocked = WithStatus({"blocked"})
  OBVIOUS
<1>2. blocked \subseteq NodeIds
  BY <1>1 DEF WithStatus, NodeIds
<1>3. ASSUME NEW b \in blocked, NEW m PROVE m \in Above(b) <=> m \in NodeIds /\ Reaches(m, b)
  BY <1>2, AboveIs, ReachesIsAbove
<1>4. Impacted = UNION {Above(id) : id \in blocked}
  BY <1>1 DEF Impacted
<1>5. Impacted = {n \in NodeIds : \E b \in blocked : Reaches(n, b)}
  BY <1>3, <1>4
<1> QED
  BY <1>1, <1>5 DEF ImpactIsTransitive

(* Hours.                                                                    *)

HoursIn(w) == w.hours

\* The hours of some work, whichever part of it, as one function.
LEMMA WorkHoursAre ==
  ASSUME NEW U, IsFiniteSet(U), \A x \in U : x.hours \in Nat
  PROVE  \E w, g : /\ w = [x \in U |-> HoursIn(x)] /\ IsSum(g, w, U)
                   /\ \A r \in SUBSET U : HoursOf(r) = g[r] /\ g[r] \in Nat
<1> DEFINE w == [x \in U |-> HoursIn(x)]
<1>1. \A x \in U : w[x] = HoursIn(x) /\ w[x] \in Nat
  BY DEF HoursIn
<1> HIDE DEF w
<1>2. PICK g : IsSum(g, w, U)
  BY SumExists
<1>3. ASSUME NEW r \in SUBSET U PROVE HoursOf(r) = g[r] /\ g[r] \in Nat
  <2> DEFINE P(z) == z = [t \in SUBSET r |-> IF t = {} THEN 0
                                             ELSE HoursIn(Picked(t)) + z[t \ {Picked(t)}]]
  <2>1. HoursOf(r) = (CHOOSE z : P(z))[r]
    BY DEF HoursOf, MapThenSumSet, MapThenFoldSet, Picked, HoursIn
  <2>2. \A t \in SUBSET r : t # {} => Picked(t) \in U
    <3> SUFFICES ASSUME NEW t \in SUBSET r, t # {} PROVE Picked(t) \in U
      OBVIOUS
    <3>1. PICK e \in t : TRUE
      OBVIOUS
    <3>2. Picked(t) \in t
      BY <3>1, Zenon DEF Picked
    <3> QED
      BY <3>2
  <2>3. ASSUME NEW z PROVE P(z) <=> IsSum(z, w, r)
    <3>1. ASSUME NEW t \in SUBSET r
          PROVE  SumStep(z, w, t) = IF t = {} THEN 0 ELSE HoursIn(Picked(t)) + z[t \ {Picked(t)}]
      BY <1>1, <2>2 DEF SumStep
    <3> QED
      BY <3>1 DEF IsSum
  <2>4. IsFiniteSet(r)
    BY FS_Subset
  <2>5. PICK h : IsSum(h, w, r)
    BY <2>4, SumExists
  <2>6. PICK z : z = CHOOSE f : P(f)
    OBVIOUS
  <2>7. P(z)
    <3>1. P(h)
      BY <2>3, <2>5
    <3> HIDE DEF P
    <3> QED
      BY <2>6, <3>1, Zenon
  <2>8. IsSum(z, w, r)
    BY <2>3, <2>7
  <2>9. z[r] = g[r] /\ z[r] \in Nat
    <3>1. \A x \in U : w[x] \in Nat
      BY <1>1
    <3> QED
      BY <1>2, <2>8, <3>1, SumsAgree
  <2> QED
    BY <2>1, <2>6, <2>9
<1>4. \A r \in SUBSET U : HoursOf(r) = g[r] /\ g[r] \in Nat
  BY <1>3
<1>5. \E f : /\ w = w /\ IsSum(f, w, U) /\ \A r \in SUBSET U : HoursOf(r) = f[r] /\ f[r] \in Nat
  BY <1>2, <1>4
<1> QED
  BY <1>5 DEF w

CapacityStep == [p \in Nat \X CapacityItems |-> p[1] + HoursIn(p[2])]

\* What is available is what has been added when the last capacity is passed.
LEMMA AvailableIs ==
  ASSUME capacities \in Seq(CapacityItems)
  PROVE  \E r : /\ r \in [0 .. Len(capacities) -> Nat] /\ r[0] = 0 /\ Available = r[Len(capacities)]
               /\ \A k \in Nat : k < Len(capacities) => r[k + 1] = r[k] + capacities[k + 1].hours
<1> DEFINE m == Len(capacities)
           P(g) == g = [u \in SUBSET (1 .. m) |->
                          IF u = {} THEN 0 ELSE g[u \ {Max(u)}] + HoursIn(capacities[Max(u)])]
<1>1. m \in Nat /\ DOMAIN capacities = 1 .. m /\ \A i \in 1 .. m : capacities[i] \in CapacityItems
  OBVIOUS
<1>2. Available = (CHOOSE g : P(g))[1 .. m]
  BY <1>1 DEF Available, FoldLeft, MapThenFoldSet, HoursIn
<1>3. /\ CapacityStep \in [Nat \X CapacityItems -> Nat]
      /\ \A n \in Nat, c \in CapacityItems : CapacityStep[<<n, c>>] = n + HoursIn(c)
  <2>1. \A n \in Nat, c \in CapacityItems : n + HoursIn(c) \in Nat
    BY ITAssumption DEF HoursIn
  <2> QED
    BY <2>1 DEF CapacityStep
<1> HIDE DEF m
<1>4. CanFold(Nat, CapacityItems, CapacityStep, 0, capacities, m)
  BY <1>1, <1>3 DEF CanFold
<1>5. \A u \in SUBSET (1 .. m) : u # {} => /\ u \ {Max(u)} \in SUBSET (1 .. m)
                                           /\ capacities[Max(u)] \in CapacityItems
  BY <1>1, GreatestPlace
<1>6. PICK f : IsFold(f, Nat, CapacityStep, 0, capacities, m)
  BY <1>4, FoldExists
<1>7. P(f)
  <2>1. \A u \in SUBSET (1 .. m) : u # {} =>
          CapacityStep[<<f[u \ {Max(u)}], capacities[Max(u)]>>]
            = f[u \ {Max(u)}] + HoursIn(capacities[Max(u)])
    BY <1>3, <1>5, <1>6 DEF IsFold
  <2> QED
    BY <1>6, <2>1 DEF IsFold, FoldStep
<1>8. PICK g : g = CHOOSE z : P(z)
  OBVIOUS
<1>9. P(g)
  <2> HIDE DEF P
  <2> QED
    BY <1>7, <1>8, Zenon
<1>10. Folds(g, CapacityStep, Nat, 0, capacities, m)
  <2>1. g = [u \in SUBSET (1 .. m) |->
               IF u = {} THEN 0 ELSE g[u \ {Max(u)}] + HoursIn(capacities[Max(u)])]
    BY <1>9
  <2> HIDE DEF P
  <2> QED
    BY <1>3, <1>5, <2>1 DEF Folds
<1>11. PICK r : IsRun(r, Nat, CapacityStep, 0, capacities, m) /\ r[m] = g[1 .. m]
  BY <1>4, <1>10, FoldRuns
<1>12. r \in [0 .. m -> Nat] /\ r[0] = 0
  BY <1>11 DEF IsRun
<1>13. ASSUME NEW k \in Nat, k < m PROVE r[k + 1] = r[k] + capacities[k + 1].hours
  <2>1. r[k + 1] = CapacityStep[<<r[k], capacities[k + 1]>>]
    BY <1>11, <1>13 DEF IsRun, Follows
  <2>2. r[k] \in Nat /\ capacities[k + 1] \in CapacityItems
    <3>1. k \in 0 .. m /\ k + 1 \in 1 .. m
      BY <1>1, <1>13
    <3> QED
      BY <1>1, <1>12, <3>1
  <2> QED
    BY <1>3, <2>1, <2>2 DEF HoursIn
<1>14. Available = r[m]
  BY <1>2, <1>8, <1>11
<1> QED
  BY <1>12, <1>13, <1>14 DEF m

\* The last capacity of a member counts.
IsLast(i) == \A j \in DOMAIN capacities : capacities[j].member = capacities[i].member => j <= i

LEMMA CapacityIs ==
  ASSUME capacities \in Seq(CapacityItems)
  PROVE  /\ \A i \in DOMAIN capacities :
              IsLast(i) => CapacityOf(capacities[i].member) = capacities[i].hours
         /\ \A m \in WithCapacity : \E i \in DOMAIN capacities : IsLast(i) /\ capacities[i].member = m
<1>1. PICK n \in Nat : n = Len(capacities) /\ DOMAIN capacities = 1 .. n
  OBVIOUS
<1>2. ASSUME NEW m \in WithCapacity, NEW of, of = {i \in DOMAIN capacities : capacities[i].member = m}
      PROVE  Max(of) \in of /\ \A j \in of : Max(of) >= j
  <2>1. of \in SUBSET (1 .. n) /\ of \in SUBSET Nat /\ of # {}
    BY <1>1, <1>2 DEF WithCapacity
  <2>2. IsFiniteSet(of)
    <3>1. IsFiniteSet(1 .. n)
      BY FS_Interval
    <3> QED
      BY <2>1, <3>1, FS_Subset
  <2> QED
    BY <2>1, <2>2, GreatestOf
<1>3. ASSUME NEW m \in WithCapacity
      PROVE  \E i \in DOMAIN capacities : IsLast(i) /\ capacities[i].member = m
  <2>1. PICK of : of = {i \in DOMAIN capacities : capacities[i].member = m}
    OBVIOUS
  <2>2. Max(of) \in of /\ \A j \in of : Max(of) >= j
    BY <1>2, <2>1
  <2>3. PICK i \in 1 .. n : i = Max(of) /\ capacities[i].member = m
    BY <1>1, <2>1, <2>2
  <2>4. \A j \in 1 .. n : capacities[j].member = m => j <= i
    BY <1>1, <2>1, <2>2, <2>3
  <2> QED
    BY <1>1, <2>3, <2>4 DEF IsLast
<1>4. ASSUME NEW i \in DOMAIN capacities, IsLast(i)
      PROVE  CapacityOf(capacities[i].member) = capacities[i].hours
  <2>1. PICK m \in WithCapacity : m = capacities[i].member
    BY DEF WithCapacity
  <2>2. PICK of : of = {j \in DOMAIN capacities : capacities[j].member = m}
    OBVIOUS
  <2>3. Max(of) \in of /\ \A j \in of : Max(of) >= j
    BY <1>2, <2>2
  <2>4. i \in of /\ Max(of) <= i /\ Max(of) >= i
    BY <1>4, <2>1, <2>2, <2>3 DEF IsLast
  <2>5. Max(of) = i
    BY <1>1, <2>2, <2>3, <2>4
  <2> QED
    BY <2>1, <2>2, <2>5 DEF CapacityOf
<1> QED
  BY <1>3, <1>4

\* The work of the members whose last capacity is among the first k.
Mine(m) == {w \in Assigned : w.member = m}
WorkUpTo(k) == {w \in Assigned : \E i \in 1 .. k : IsLast(i) /\ capacities[i].member = w.member}

LEMMA WorkUpToGrows ==
  ASSUME NEW n \in Nat, DOMAIN capacities = 1 .. n, NEW k \in Nat, k < n
  PROVE  /\ ~IsLast(k + 1) => WorkUpTo(k + 1) = WorkUpTo(k)
         /\ IsLast(k + 1) => /\ WorkUpTo(k + 1) = WorkUpTo(k) \cup Mine(capacities[k + 1].member)
                             /\ WorkUpTo(k) \cap Mine(capacities[k + 1].member) = {}
<1>1. \A i : i \in 1 .. k + 1 <=> i \in 1 .. k \/ i = k + 1
  OBVIOUS
<1>2. ASSUME ~IsLast(k + 1) PROVE WorkUpTo(k + 1) = WorkUpTo(k)
  BY <1>1, <1>2 DEF WorkUpTo
<1>3. WorkUpTo(k + 1) \subseteq WorkUpTo(k) \cup Mine(capacities[k + 1].member)
  BY <1>1 DEF WorkUpTo, Mine
<1>4. ASSUME IsLast(k + 1) PROVE WorkUpTo(k) \cup Mine(capacities[k + 1].member) \subseteq WorkUpTo(k + 1)
  BY <1>1, <1>4 DEF WorkUpTo, Mine
<1>5. WorkUpTo(k) \cap Mine(capacities[k + 1].member) = {}
  <2> SUFFICES ASSUME NEW i \in 1 .. k, IsLast(i), capacities[i].member = capacities[k + 1].member
               PROVE  FALSE
    BY DEF WorkUpTo, Mine
  <2>1. k + 1 \in DOMAIN capacities
    OBVIOUS
  <2>2. k + 1 <= i
    BY <2>1 DEF IsLast
  <2> QED
    BY <2>2
<1> QED
  BY <1>2, <1>3, <1>4, <1>5

\* As long as nobody's hours exceed the capacity the work passed is no more than the capacities
\* passed, and if everybody's do, of one capacity each, it is more by one for each of them.
LEMMA HoursCompare ==
  ASSUME ITInv
  PROVE  /\ HoursOf(Assigned) \in Nat /\ Available \in Nat
         /\ \A m : WorkOf(m) \in Nat
         /\ (/\ \A m \in WithCapacity : WorkOf(m) <= CapacityOf(m)
             /\ \A w \in Assigned : w.member \in WithCapacity)
            => HoursOf(Assigned) <= Available
         /\ (/\ \A m \in WithCapacity : WorkOf(m) > CapacityOf(m)
             /\ Len(capacities) > 0 /\ \A i \in DOMAIN capacities : IsLast(i))
            => HoursOf(Assigned) > Available
<1>1. PICK n \in Nat : /\ n = Len(capacities) /\ DOMAIN capacities = 1 .. n
                       /\ \A i \in 1 .. n : capacities[i] \in CapacityItems
  BY DEF ITInv
<1>2. PICK U : U = Assigned
  OBVIOUS
<1>3. IsFiniteSet(U) /\ \A x \in U : x.hours \in Nat
  <2>1. Assigned \subseteq items /\ Assigned \subseteq WorkItems
    BY DEF Assigned, ITInv
  <2>2. IsFiniteSet(items)
    BY DEF ITInv
  <2> QED
    BY <1>2, <2>1, <2>2, FS_Subset, ITAssumption
<1>4. PICK w, g : /\ w = [x \in U |-> HoursIn(x)] /\ IsSum(g, w, U)
                  /\ \A r \in SUBSET U : HoursOf(r) = g[r] /\ g[r] \in Nat
  BY <1>3, WorkHoursAre
<1>18. \A A, B \in SUBSET U : A \cap B = {} => g[A \cup B] = g[A] + g[B]
  <2>1. IsSum(g, w, U)
    BY <1>4
  <2>2. w = [x \in U |-> HoursIn(x)]
    BY <1>4
  <2>3. \A x \in U : x.hours \in Nat
    BY <1>3
  <2>4. \A x \in U : w[x] \in Nat
    BY <2>2, <2>3 DEF HoursIn
  <2>5. IsFiniteSet(U)
    BY <1>3
  <2> SUFFICES ASSUME NEW A \in SUBSET U, NEW B \in SUBSET U, A \cap B = {}
               PROVE  g[A \cup B] = g[A] + g[B]
    OBVIOUS
  <2> QED
    BY <2>1, <2>4, <2>5, SumOfTwo
<1>5. PICK r : /\ r \in [0 .. n -> Nat] /\ r[0] = 0 /\ Available = r[n]
               /\ \A k \in Nat : k < n => r[k + 1] = r[k] + capacities[k + 1].hours
  <2>1. capacities \in Seq(CapacityItems)
    BY DEF ITInv
  <2> QED
    BY <1>1, <2>1, AvailableIs
<1>6. \A m : Mine(m) \in SUBSET U /\ WorkOf(m) = g[Mine(m)] /\ WorkOf(m) \in Nat
  <2> SUFFICES ASSUME NEW m
               PROVE  Mine(m) \in SUBSET U /\ WorkOf(m) = g[Mine(m)] /\ WorkOf(m) \in Nat
    OBVIOUS
  <2>1. Mine(m) \in SUBSET U
    BY <1>2 DEF Mine
  <2>2. WorkOf(m) = HoursOf(Mine(m))
    BY DEF WorkOf, Mine
  <2> QED
    BY <1>4, <2>1, <2>2
<1>7. \A k \in Nat : WorkUpTo(k) \in SUBSET U /\ g[WorkUpTo(k)] \in Nat
  BY <1>2, <1>4 DEF WorkUpTo
<1>8. WorkUpTo(0) = {} /\ g[{}] = 0
  <2>1. WorkUpTo(0) = {}
    BY DEF WorkUpTo
  <2>2. {} \in SUBSET U
    OBVIOUS
  <2> QED
    BY <1>4, <2>1, <2>2 DEF IsSum, SumStep
\* A step passes one capacity, and the work of its member if it is the last one.
<1>9. ASSUME NEW k \in Nat, k < n
      PROVE  \E a, b, c \in Nat :
               /\ a = g[WorkUpTo(k)] /\ b = r[k] /\ c = capacities[k + 1].hours /\ r[k + 1] = b + c
               /\ ~IsLast(k + 1) => g[WorkUpTo(k + 1)] = a
               /\ IsLast(k + 1) =>
                    \E m \in WithCapacity :
                      CapacityOf(m) = c /\ g[WorkUpTo(k + 1)] = a + WorkOf(m)
  <2>1. k \in 0 .. n /\ k + 1 \in 1 .. n
    BY <1>9
  <2>2. PICK a \in Nat : a = g[WorkUpTo(k)]
    BY <1>7
  <2>3. PICK b \in Nat : b = r[k]
    BY <1>5, <2>1
  <2>4. PICK c \in Nat : c = capacities[k + 1].hours
    BY <1>1, <2>1, ITAssumption
  <2>5. r[k + 1] = b + c
    BY <1>5, <1>9, <2>3, <2>4
  <2>6. ~IsLast(k + 1) => g[WorkUpTo(k + 1)] = a
    BY <1>1, <1>9, <2>2, WorkUpToGrows
  <2>7. ASSUME IsLast(k + 1)
        PROVE  \E m \in WithCapacity : CapacityOf(m) = c /\ g[WorkUpTo(k + 1)] = a + WorkOf(m)
    <3>1. PICK m \in WithCapacity : m = capacities[k + 1].member
      BY <1>1, <2>1 DEF WithCapacity
    <3>2. CapacityOf(m) = c
      <4>1. capacities \in Seq(CapacityItems)
        BY DEF ITInv
      <4> QED
        BY <1>1, <2>1, <2>4, <2>7, <3>1, <4>1, CapacityIs
    <3>3. /\ WorkUpTo(k + 1) = WorkUpTo(k) \cup Mine(m)
          /\ WorkUpTo(k) \cap Mine(m) = {}
      BY <1>1, <1>9, <2>7, <3>1, WorkUpToGrows
    <3>4. PICK A \in SUBSET U, B \in SUBSET U : A = WorkUpTo(k) /\ B = Mine(m)
      BY <1>6, <1>7
    <3>5. g[A \cup B] = g[A] + g[B]
      <4>1. A \cap B = {}
        BY <3>3, <3>4
      <4>2. A \in SUBSET U /\ B \in SUBSET U
        BY <3>4
      <4> QED
        BY <1>18, <4>1, <4>2
    <3>6. g[WorkUpTo(k + 1)] = a + WorkOf(m)
      BY <1>6, <2>2, <3>3, <3>4, <3>5
    <3> QED
      BY <3>2, <3>6
  <2> QED
    BY <2>2, <2>3, <2>4, <2>5, <2>6, <2>7
<1>10. ASSUME \A m \in WithCapacity : WorkOf(m) <= CapacityOf(m)
       PROVE  g[WorkUpTo(n)] <= r[n]
  <2> DEFINE S == {k \in Nat : k <= n => g[WorkUpTo(k)] <= r[k]}
  <2>1. 0 \in S
    <3>1. g[WorkUpTo(0)] = 0
      BY <1>8
    <3>2. r[0] = 0
      BY <1>5
    <3> QED
      BY <3>1, <3>2
  <2>2. ASSUME NEW k \in S PROVE k + 1 \in S
    <3>1. k \in Nat /\ k + 1 \in Nat
      OBVIOUS
    <3> SUFFICES ASSUME k + 1 <= n PROVE g[WorkUpTo(k + 1)] <= r[k + 1]
      BY <3>1
    <3>2. k < n /\ g[WorkUpTo(k)] <= r[k]
      BY <1>1, <3>1
    <3>3. PICK a \in Nat, b \in Nat, c \in Nat :
               /\ a = g[WorkUpTo(k)] /\ b = r[k] /\ c = capacities[k + 1].hours /\ r[k + 1] = b + c
               /\ ~IsLast(k + 1) => g[WorkUpTo(k + 1)] = a
               /\ IsLast(k + 1) =>
                    \E m \in WithCapacity :
                      CapacityOf(m) = c /\ g[WorkUpTo(k + 1)] = a + WorkOf(m)
      BY <1>9, <3>1, <3>2
    <3>4. a <= b
      BY <3>2, <3>3
    <3>5. CASE ~IsLast(k + 1)
      BY <3>3, <3>4, <3>5
    <3>6. CASE IsLast(k + 1)
      <4>1. PICK m \in WithCapacity : CapacityOf(m) = c /\ g[WorkUpTo(k + 1)] = a + WorkOf(m)
        BY <3>3, <3>6
      <4>2. PICK e \in Nat : e = WorkOf(m)
        BY <1>6
      <4>3. e <= c
        BY <1>10, <4>1, <4>2
      <4>4. a + e <= b + c
        BY <3>4, <4>3
      <4> QED
        BY <3>3, <4>1, <4>2, <4>4
    <3> QED
      BY <3>5, <3>6
  <2>3. S = Nat
    <3> HIDE DEF S
    <3>1. S \in SUBSET Nat
      BY DEF S
    <3> QED
      BY <2>1, <2>2, <3>1, Induction
  <2>4. n \in S
    BY <2>3
  <2> QED
    BY <1>1, <2>4
<1>11. ASSUME \A m \in WithCapacity : WorkOf(m) > CapacityOf(m), \A i \in DOMAIN capacities : IsLast(i)
       PROVE  g[WorkUpTo(n)] >= r[n] + n
  <2> DEFINE S == {k \in Nat : k <= n => g[WorkUpTo(k)] >= r[k] + k}
  <2>1. 0 \in S
    <3>1. g[WorkUpTo(0)] = 0
      BY <1>8
    <3>2. r[0] = 0
      BY <1>5
    <3> QED
      BY <3>1, <3>2
  <2>2. ASSUME NEW k \in S PROVE k + 1 \in S
    <3>1. k \in Nat /\ k + 1 \in Nat
      OBVIOUS
    <3> SUFFICES ASSUME k + 1 <= n PROVE g[WorkUpTo(k + 1)] >= r[k + 1] + (k + 1)
      BY <3>1
    <3>2. k < n /\ g[WorkUpTo(k)] >= r[k] + k
      BY <1>1, <3>1
    <3>3. PICK a \in Nat, b \in Nat, c \in Nat :
               /\ a = g[WorkUpTo(k)] /\ b = r[k] /\ c = capacities[k + 1].hours /\ r[k + 1] = b + c
               /\ ~IsLast(k + 1) => g[WorkUpTo(k + 1)] = a
               /\ IsLast(k + 1) =>
                    \E m \in WithCapacity :
                      CapacityOf(m) = c /\ g[WorkUpTo(k + 1)] = a + WorkOf(m)
      BY <1>9, <3>1, <3>2
    <3>4. a >= b + k
      BY <3>2, <3>3
    <3>5. IsLast(k + 1)
      <4>1. k + 1 \in DOMAIN capacities
        BY <1>1, <3>1
      <4> QED
        BY <1>11, <4>1
    <3>6. PICK m \in WithCapacity : CapacityOf(m) = c /\ g[WorkUpTo(k + 1)] = a + WorkOf(m)
      BY <3>3, <3>5
    <3>7. PICK e \in Nat : e = WorkOf(m)
      BY <1>6
    <3>8. e > c
      BY <1>11, <3>6, <3>7
    <3>9. a + e >= (b + c) + (k + 1)
      BY <3>1, <3>4, <3>8
    <3> QED
      BY <3>3, <3>6, <3>7, <3>9
  <2>3. S = Nat
    <3> HIDE DEF S
    <3>1. S \in SUBSET Nat
      BY DEF S
    <3> QED
      BY <2>1, <2>2, <3>1, Induction
  <2>4. n \in S
    BY <2>3
  <2> QED
    BY <1>1, <2>4
<1>12. PICK hours \in Nat, available \in Nat :
         hours = HoursOf(Assigned) /\ hours = g[U] /\ available = Available /\ available = r[n]
  BY <1>1, <1>2, <1>4, <1>5
<1>13. PICK known \in Nat : known = g[WorkUpTo(n)]
  BY <1>1, <1>7
<1>14. known <= hours
  <2>1. PICK A \in SUBSET U, B \in SUBSET U : A = WorkUpTo(n) /\ B = U \ A
    BY <1>1, <1>7
  <2>2. A \cup B = U /\ A \cap B = {}
    BY <2>1
  <2>4. g[A \cup B] = g[A] + g[B]
    <3>1. A \in SUBSET U /\ B \in SUBSET U
      BY <2>1
    <3> QED
      BY <1>18, <2>2, <3>1
  <2>5. PICK b \in Nat : b = g[B]
    BY <1>4
  <2>6. hours = known + b
    BY <1>12, <1>13, <2>1, <2>2, <2>4, <2>5
  <2> QED
    BY <2>6
<1>15. ASSUME \A x \in Assigned : x.member \in WithCapacity PROVE known = hours
  <2>1. capacities \in Seq(CapacityItems)
    BY DEF ITInv
  <2>2. \A m \in WithCapacity : \E i \in 1 .. n : IsLast(i) /\ capacities[i].member = m
    BY <1>1, <2>1, CapacityIs
  <2>3. WorkUpTo(n) = U
    BY <1>2, <1>15, <2>2 DEF WorkUpTo
  <2> QED
    BY <1>12, <1>13, <2>3
<1>16. (/\ \A m \in WithCapacity : WorkOf(m) <= CapacityOf(m)
        /\ \A x \in Assigned : x.member \in WithCapacity) => hours <= available
  BY <1>10, <1>12, <1>13, <1>15
<1>17. (/\ \A m \in WithCapacity : WorkOf(m) > CapacityOf(m)
        /\ n > 0 /\ \A i \in DOMAIN capacities : IsLast(i)) => hours > available
  <2> SUFFICES ASSUME \A m \in WithCapacity : WorkOf(m) > CapacityOf(m), n > 0,
                      \A i \in DOMAIN capacities : IsLast(i)
               PROVE  hours > available
    OBVIOUS
  <2>1. known >= available + n
    BY <1>11, <1>12, <1>13
  <2> QED
    BY <1>14, <2>1
<1> QED
  BY <1>1, <1>6, <1>12, <1>16, <1>17

LEMMA ShortfallRight == ITInv => ShortfallIsSomebodys /\ (Shortfall > 0 <=> HoursOf(Assigned) > Available)
<1> SUFFICES ASSUME ITInv
             PROVE  ShortfallIsSomebodys /\ (Shortfall > 0 <=> HoursOf(Assigned) > Available)
  OBVIOUS
<1>1. PICK hours \in Nat, available \in Nat : hours = HoursOf(Assigned) /\ available = Available
  BY HoursCompare
<1>2. Shortfall > 0 <=> hours > available
  <2>1. PICK x \in Int : x = hours - available
    OBVIOUS
  <2>2. PICK y : y = Max({0, x})
    OBVIOUS
  <2>3. y \in {0, x} /\ y >= 0 /\ y >= x
    <3>1. \E z \in {0, x} : \A v \in {0, x} : z >= v
      OBVIOUS
    <3>2. y \in {0, x} /\ \A v \in {0, x} : y >= v
      BY <2>2, <3>1 DEF Max
    <3> QED
      BY <3>2
  <2>4. Shortfall = y
    BY <1>1, <2>1, <2>2 DEF Shortfall
  <2> QED
    BY <2>1, <2>3, <2>4
<1>3. capacities \in Seq(CapacityItems)
  BY DEF ITInv
<1>4. \A m \in WithCapacity : WorkOf(m) \in Nat /\ CapacityOf(m) \in Nat
  <2> SUFFICES ASSUME NEW m \in WithCapacity PROVE WorkOf(m) \in Nat /\ CapacityOf(m) \in Nat
    OBVIOUS
  <2>1. PICK i \in DOMAIN capacities : IsLast(i) /\ capacities[i].member = m
    BY <1>3, CapacityIs
  <2>2. CapacityOf(m) = capacities[i].hours
    BY <1>3, <2>1, CapacityIs
  <2>3. capacities[i] \in CapacityItems
    BY <1>3
  <2> QED
    BY <2>2, <2>3, HoursCompare, ITAssumption
<1>5. ASSUME Shortfall > 0 PROVE OverloadedMembers # {} \/ \E w \in Assigned : w.member \notin WithCapacity
  <2> SUFFICES ASSUME OverloadedMembers = {}, \A w \in Assigned : w.member \in WithCapacity PROVE FALSE
    OBVIOUS
  <2>1. \A m \in WithCapacity : WorkOf(m) <= CapacityOf(m)
    BY <1>4 DEF OverloadedMembers
  <2>2. hours <= available
    BY <1>1, <2>1, HoursCompare
  <2> QED
    BY <1>1, <1>2, <1>5, <2>2
<1>6. OverloadedMembers \cap UnderutilizedMembers = {}
  <2> SUFFICES ASSUME NEW m \in WithCapacity, WorkOf(m) > CapacityOf(m), 2 * WorkOf(m) < CapacityOf(m)
               PROVE  FALSE
    BY DEF OverloadedMembers, UnderutilizedMembers
  <2>1. PICK a \in Nat, b \in Nat : a = WorkOf(m) /\ b = CapacityOf(m)
    BY <1>4
  <2>2. a > b /\ 2 * a < b
    BY <2>1
  <2> QED
    BY <2>1, <2>2
<1>7. ASSUME OverloadedMembers = WithCapacity, WithCapacity # {}, Len(capacities) = Cardinality(WithCapacity)
      PROVE  Shortfall > 0
  <2>1. PICK n \in Nat : n = Len(capacities) /\ DOMAIN capacities = 1 .. n
    BY <1>3
  <2>2. PICK f : f = [i \in 1 .. n |-> capacities[i].member]
    OBVIOUS
  <2>3. f \in Surjection(1 .. n, WithCapacity)
    BY <2>1, <2>2 DEF Surjection, WithCapacity
  <2>4. IsFiniteSet(1 .. n) /\ Cardinality(1 .. n) = n
    <3>1. IsFiniteSet(1 .. n) /\ Cardinality(1 .. n) = IF 1 > n THEN 0 ELSE n - 1 + 1
      BY FS_Interval
    <3> QED
      BY <2>1, <3>1
  <2>5. f \in Injection(1 .. n, WithCapacity)
    BY <1>7, <2>1, <2>3, <2>4, FS_Surjection
  <2>6. \A i, j \in 1 .. n : capacities[i].member = capacities[j].member => i = j
    BY <2>2, <2>5 DEF Injection, IsInjective
  <2>7. \A i \in DOMAIN capacities : IsLast(i)
    BY <2>1, <2>6 DEF IsLast
  <2>8. n > 0
    <3>1. PICK i \in DOMAIN capacities : TRUE
      BY <1>7 DEF WithCapacity
    <3>2. i \in 1 .. n
      BY <2>1, <3>1
    <3> QED
      BY <2>1, <3>2
  <2>9. \A m \in WithCapacity : WorkOf(m) > CapacityOf(m)
    BY <1>7 DEF OverloadedMembers
  <2>10. hours > available
    BY <1>1, <2>1, <2>7, <2>8, <2>9, HoursCompare
  <2> QED
    BY <1>2, <2>10
<1> QED
  BY <1>1, <1>2, <1>5, <1>6, <1>7 DEF ShortfallIsSomebodys

(* Risks.                                                                    *)

\* Levels rank as they are named, and no two levels rank the same.
LEMMA LevelsRank ==
  /\ LevelRank("critical") = 4 /\ LevelRank("high") = 3
  /\ LevelRank("normal") = 2 /\ LevelRank("low") = 1
  BY DEF LevelRank

\* Of two signals one outranks the other, and whatever outranks it outranks the other too.
LEMMA OutranksIsOrder ==
  ASSUME NEW s \in RiskItems, NEW t \in RiskItems, NEW u \in RiskItems
  PROVE  /\ s.id # t.id => Outranks(s, t) \/ Outranks(t, s)
         /\ ~Outranks(s, s)
         /\ Outranks(s, t) /\ Outranks(t, u) => Outranks(s, u)
<1>1. PICK a \in Nat, b \in Nat, c \in Nat : a = s.id /\ b = t.id /\ c = u.id
  BY ITAssumption
<1>2. PICK i \in 1 .. 4, j \in 1 .. 4, k \in 1 .. 4 :
           i = LevelRank(s.level) /\ j = LevelRank(t.level) /\ k = LevelRank(u.level)
  BY LevelsRank, ITAssumption
<1>3. /\ s.level = t.level <=> i = j
      /\ t.level = u.level <=> j = k
      /\ s.level = u.level <=> i = k
  BY <1>2, LevelsRank, ITAssumption
<1>4. s.escalation \in BOOLEAN /\ t.escalation \in BOOLEAN /\ u.escalation \in BOOLEAN
  BY ITAssumption
<1>5. Outranks(s, t) <=> \/ i > j
                         \/ i = j /\ s.escalation /\ ~t.escalation
                         \/ i = j /\ s.escalation = t.escalation /\ a > b
  BY <1>1, <1>2, <1>3 DEF Outranks
<1>6. Outranks(t, s) <=> \/ j > i
                         \/ i = j /\ t.escalation /\ ~s.escalation
                         \/ i = j /\ s.escalation = t.escalation /\ b > a
  BY <1>1, <1>2, <1>3 DEF Outranks
<1>7. Outranks(t, u) <=> \/ j > k
                         \/ j = k /\ t.escalation /\ ~u.escalation
                         \/ j = k /\ t.escalation = u.escalation /\ b > c
  BY <1>1, <1>2, <1>3 DEF Outranks
<1>8. Outranks(s, u) <=> \/ i > k
                         \/ i = k /\ s.escalation /\ ~u.escalation
                         \/ i = k /\ s.escalation = u.escalation /\ a > c
  BY <1>1, <1>2, <1>3 DEF Outranks
<1>9. ~Outranks(s, s)
  BY <1>1, <1>2 DEF Outranks
<1>10. s.id # t.id => Outranks(s, t) \/ Outranks(t, s)
  BY <1>1, <1>4, <1>5, <1>6
<1>11. ASSUME Outranks(s, t), Outranks(t, u) PROVE Outranks(s, u)
  <2>1. CASE i > j \/ j > k
    BY <1>5, <1>7, <1>8, <1>11, <2>1
  <2>2. CASE i = j /\ j = k
    BY <1>4, <1>5, <1>7, <1>8, <1>11, <2>2
  <2> QED
    BY <1>5, <1>7, <1>11, <2>1, <2>2
<1> QED
  BY <1>9, <1>10, <1>11

\* The signals a signal outranks.
OutrankedBy(s) == {t \in RiskSignals : Outranks(s, t)}

\* One signal is on top, and only one: it is the one that outranks the most.
LEMMA OneIsOnTop ==
  ASSUME ITInv, RiskSignals # {}
  PROVE  \E s \in RiskSignals : TopSignal = {s}
<1>1. /\ IsFiniteSet(RiskSignals) /\ RiskSignals \subseteq RiskItems
      /\ \A s, t \in RiskSignals : s.id = t.id => s = t
  BY FS_EmptySet DEF RiskSignals, ITInv
<1>2. PICK R : R = RiskSignals
  OBVIOUS
<1>3. \A s \in R : /\ OutrankedBy(s) \in SUBSET R /\ IsFiniteSet(OutrankedBy(s))
                   /\ Cardinality(OutrankedBy(s)) \in Nat
                   /\ Cardinality(OutrankedBy(s)) <= Cardinality(R)
  BY <1>1, <1>2, FS_Subset, FS_CardinalityType DEF OutrankedBy
<1>4. PICK z \in Nat : z = Cardinality(R)
  BY <1>1, <1>2, FS_CardinalityType
<1>5. PICK counts : counts = {n \in 0 .. z : \E s \in R : n = Cardinality(OutrankedBy(s))}
  OBVIOUS
<1>6. counts \in SUBSET Nat /\ IsFiniteSet(counts) /\ counts # {}
  <2>1. counts \subseteq 0 .. z /\ IsFiniteSet(0 .. z)
    BY <1>4, <1>5, FS_Interval
  <2>2. PICK s \in R : TRUE
    BY <1>2
  <2>3. Cardinality(OutrankedBy(s)) \in counts
    BY <1>3, <1>4, <1>5
  <2>4. IsFiniteSet(counts)
    BY <2>1, FS_Subset
  <2>5. counts \subseteq Nat
    BY <1>5
  <2> QED
    BY <2>3, <2>4, <2>5
<1>7. PICK top \in R : \A s \in R : Cardinality(OutrankedBy(top)) >= Cardinality(OutrankedBy(s))
  <2>1. Max(counts) \in counts /\ \A j \in counts : Max(counts) >= j
    BY <1>6, GreatestOf
  <2>2. PICK s \in R : Max(counts) = Cardinality(OutrankedBy(s))
    BY <1>5, <2>1
  <2>3. \A t \in R : Cardinality(OutrankedBy(t)) \in counts
    BY <1>3, <1>4, <1>5
  <2> QED
    BY <2>1, <2>2, <2>3
<1>8. ASSUME NEW t \in R, t # top PROVE Outranks(top, t)
  <2> SUFFICES ASSUME ~Outranks(top, t) PROVE FALSE
    OBVIOUS
  <2>1. top \in RiskItems /\ t \in RiskItems /\ top.id # t.id
    BY <1>1, <1>2, <1>8
  <2>2. Outranks(t, top)
    BY <2>1, OutranksIsOrder
  <2>3. OutrankedBy(top) \subseteq OutrankedBy(t)
    BY <1>1, <2>1, <2>2, OutranksIsOrder DEF OutrankedBy
  <2>4. top \in OutrankedBy(t) /\ top \notin OutrankedBy(top)
    BY <1>2, <2>1, <2>2, OutranksIsOrder DEF OutrankedBy
  <2>5. Cardinality(OutrankedBy(top)) < Cardinality(OutrankedBy(t))
    BY <1>3, <2>3, <2>4, FS_Subset
  <2>6. PICK x \in Nat, y \in Nat : x = Cardinality(OutrankedBy(top)) /\ y = Cardinality(OutrankedBy(t))
    BY <1>3
  <2> QED
    BY <1>7, <2>5, <2>6
<1>9. top \in TopSignal
  BY <1>2, <1>8 DEF TopSignal
<1>10. ASSUME NEW t \in TopSignal PROVE t = top
  <2> SUFFICES ASSUME t # top PROVE FALSE
    OBVIOUS
  <2>1. t \in RiskSignals /\ Outranks(t, top)
    BY <1>2, <1>10 DEF TopSignal
  <2>2. Outranks(top, t)
    BY <1>2, <1>8, <2>1
  <2> QED
    BY <1>1, <1>2, <2>1, <2>2, OutranksIsOrder
<1> QED
  BY <1>2, <1>9, <1>10

\* The level of the top signal ranks as high as any.
LEMMA TopRanksHighest ==
  ASSUME ITInv, NEW s \in TopSignal, NEW t \in RiskSignals
  PROVE  /\ t.level = "critical" => s.level = "critical"
         /\ t.level \in {"high", "critical"} => s.level \in {"high", "critical"}
<1>1. RiskSignals \subseteq RiskItems
  BY DEF RiskSignals, ITInv
<1>2. s \in RiskSignals /\ (t # s => Outranks(s, t))
  BY DEF TopSignal
<1>3. PICK i \in 1 .. 4, j \in 1 .. 4 : i = LevelRank(s.level) /\ j = LevelRank(t.level)
  BY <1>1, <1>2, LevelsRank, ITAssumption
<1>4. t # s => i >= j
  BY <1>2, <1>3, LevelsRank, ITAssumption DEF Outranks
<1>5. s.level \in {"low", "normal", "high", "critical"}
  BY <1>1, <1>2, ITAssumption
<1> QED
  BY <1>3, <1>4, <1>5, LevelsRank

LEMMA AttentionRight == ITInv => AttentionIsDrawn
<1> SUFFICES ASSUME ITInv PROVE AttentionIsDrawn
  OBVIOUS
<1>1. ASSUME RiskSignals # {} PROVE Cardinality(TopSignal) = 1
  <2>1. PICK s \in RiskSignals : TopSignal = {s}
    BY <1>1, OneIsOnTop
  <2> QED
    BY <2>1, FS_Singleton
<1>2. ASSUME NEW t \in RecommendedRisks, t.level \in {"high", "critical"}
      PROVE  TopSignal \subseteq RecommendedRisks
  <2>1. t \in RiskSignals /\ TopSignal \subseteq RiskSignals
    BY <1>2 DEF RecommendedRisks, TopSignal
  <2>2. \A s \in TopSignal : s.level \in {"high", "critical"}
    BY <1>2, <2>1, TopRanksHighest
  <2> QED
    BY <2>1, <2>2 DEF RecommendedRisks
<1>3. ASSUME ~CriticalAttention
      PROVE  /\ \A n \in NodeIds : ~Reaches(n, n)
             /\ \A s \in TopSignal : s.level # "critical"
             /\ HoursOf(Assigned) <= Available
             /\ \A c \in Changes : c.status # "failed" \/ c.kind = "incident"
  <2>1. /\ \A s \in RiskSignals : s.level # "critical"
        /\ FailedChanges = {} /\ Cycles = {} /\ ~(Shortfall > 0)
    BY <1>3 DEF CriticalAttention
  <2>2. \A n \in NodeIds : ~Reaches(n, n)
    BY <2>1, GraphIs, CyclesExact DEF CyclesAreExact
  <2>3. \A s \in TopSignal : s.level # "critical"
    BY <2>1 DEF TopSignal
  <2>4. HoursOf(Assigned) <= Available
    <3>1. PICK x \in Nat, y \in Nat : x = HoursOf(Assigned) /\ y = Available
      BY HoursCompare
    <3>2. ~(x > y)
      BY <2>1, <3>1, ShortfallRight
    <3> QED
      BY <3>1, <3>2
  <2>5. \A c \in Changes : c.kind \in {"incident", "deployment", "release"}
    BY ITAssumption DEF Changes, ITInv
  <2>6. \A c \in Changes : c.status # "failed" \/ c.kind = "incident"
    BY <2>1, <2>5 DEF FailedChanges
  <2> QED
    BY <2>2, <2>3, <2>4, <2>6
<1> QED
  BY <1>1, <1>2, <1>3 DEF AttentionIsDrawn

\* What an analysis finds is of the portfolio.
LEMMA ITTyped == ITInv => ITTypeOK
<1> SUFFICES ASSUME ITInv PROVE ITTypeOK
  OBVIOUS
<1>1. \A p \in Cycles : Range(p) \subseteq NodeIds
  BY GraphIs, CyclesExact
<1>2. Impacted \subseteq NodeIds
  BY GraphIs, ImpactExact
<1>3. CriticalDependencies \subseteq Depends
  BY DEF CriticalDependencies
<1> QED
  BY <1>1, <1>2, <1>3 DEF ITInv, ITTypeOK

\* What the edition says is what its portfolios show.
LEMMA ITUnderstands ==
  ITInv => /\ ITTypeOK /\ CyclesAreExact /\ ImpactIsTransitive
           /\ ShortfallIsSomebodys /\ AttentionIsDrawn
  BY GraphIs, CyclesExact, ImpactExact, ShortfallRight, AttentionRight, ITTyped
=============================================================================
