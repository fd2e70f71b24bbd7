---------------------------- MODULE UserMemories ----------------------------
(***************************************************************************)
(* The memories of one user (yoma/app.py 1038-1161, memory.py) and what of *)
(* them enters a prompt (app.py 806-830, context.py).  Each SELECT and     *)
(* each transaction of a request is a step; the clock may pass an expiry   *)
(* between any two.  Ids are random and never given twice: an id of the    *)
(* model stands for a new one once its memory is deleted.                  *)
(***************************************************************************)
EXTENDS Integers, FiniteSets, SequencesExt

CONSTANTS
  Memories,      \* ids
  Editors,       \* worker threads
  Texts,         \* contents by their length, in characters
  Levels,        \* importances
  MaxMemories,   \* max_memories_per_user
  MaxContext,    \* max_memory_context
  ContextChars,  \* max_memory_context_chars
  LastTime,      \* bound: the clock
  Never,         \* expires_at IS NULL
  NoMemory       \* fetchone() returned None, or no such row

ASSUME MemoryAssumption ==
  /\ IsFiniteSet(Editors) /\ IsFiniteSet(Memories) /\ Memories # {}
  /\ Texts \subseteq Nat /\ Levels \subseteq 1 .. 5
  /\ MaxMemories \in Nat \ {0} /\ MaxContext \in Nat \ {0}
  /\ ContextChars \in Nat /\ LastTime \in Nat /\ Never \notin Nat

VARIABLES
  now,
  memory,    \* memories by id
  editing,   \* where a worker is
  edit       \* the id, the row and the changes its request holds

memVars == <<now, memory, editing, edit>>

Expiries == {LastTime, Never}
Memory == [content : Texts, importance : Levels, expires : Expiries]
Fields == {"content", "importance", "expires"}

Edit == [id : Memories, row : Memory \cup {NoMemory}, names : SUBSET Fields]

Stored == {i \in Memories : memory[i] # NoMemory}
Active(row) == row.expires = Never \/ row.expires > now

NoEdit == [id |-> CHOOSE i \in Memories : TRUE, row |-> NoMemory, names |-> {}]

MemInit ==
  /\ now = 0
  /\ memory = [i \in Memories |-> NoMemory]
  /\ editing = [w \in Editors |-> "idle"]
  /\ edit = [w \in Editors |-> NoEdit]

MemGoto(w, p) == editing' = [editing EXCEPT ![w] = p]
MemEnd(w) == MemGoto(w, "idle")

Tick == now < LastTime /\ now' = now + 1 /\ UNCHANGED <<memory, editing, edit>>

-----------------------------------------------------------------------------

MayCreate == Cardinality(Stored) < MaxMemories

\* SELECT COUNT(*): expired memories count.
CreateCount(w) ==
  /\ editing[w] = "idle"
  /\ MayCreate
  /\ MemGoto(w, "create")
  /\ UNCHANGED <<now, memory, edit>>

CreateInsert(w) ==
  /\ editing[w] = "create"
  /\ \E i \in Memories \ Stored, r \in Memory : memory' = [memory EXCEPT ![i] = r]
  /\ MemEnd(w)
  /\ UNCHANGED <<now, edit>>

\* A PATCH of the fields it names; an expired memory can be changed.
UpdateSelect(w, i, new, names) ==
  /\ editing[w] = "idle" /\ i \in Stored
  /\ edit' = [edit EXCEPT ![w] = [id |-> i, names |-> names,
       row |-> [f \in Fields |-> IF f \in names THEN new[f] ELSE memory[i][f]]]]
  /\ MemGoto(w, "update")
  /\ UNCHANGED <<now, memory>>

Assigned(w, old) == [f \in Fields |-> IF f \in edit[w].names THEN edit[w].row[f] ELSE old[f]]

\* UPDATE ... WHERE id: no row is changed when the memory was deleted meanwhile,
\* and the answer, read again, is then an internal error.
UpdateWrite(w) ==
  /\ editing[w] = "update"
  /\ LET i == edit[w].id IN
     memory' = IF i \in Stored THEN [memory EXCEPT ![i] = Assigned(w, @)] ELSE memory
  /\ MemEnd(w)
  /\ edit' = [edit EXCEPT ![w] = NoEdit]
  /\ UNCHANGED now

Delete(i) ==
  /\ i \in Stored
  /\ memory' = [memory EXCEPT ![i] = NoMemory]
  /\ UNCHANGED <<now, editing, edit>>

-----------------------------------------------------------------------------
(* search_memories() for a prompt: active ones, the most important first.    *)

Ranked(s) == \A m, n \in DOMAIN s : m < n => memory[s[m]].importance >= memory[s[n]].importance

Hits(matching) ==
  LET found == {i \in Stored \cap matching : Active(memory[i])}
      limit == IF Cardinality(found) > MaxContext THEN MaxContext ELSE Cardinality(found) IN
  {s \in UNION {SetToAllKPermutations(S) : S \in {T \in SUBSET found : Cardinality(T) = limit}} :
     Ranked(s) /\ \A i \in found, n \in DOMAIN s :
       (\A m \in DOMAIN s : s[m] # i) => memory[s[n]].importance >= memory[i].importance}

FitsWith(total, i) == total + memory[i].content <= ContextChars

\* A memory that does not fit is passed over, a later and shorter one is taken.
Bounded(s) ==
  FoldLeft(LAMBDA acc, i : IF FitsWith(acc.total, i)
                           THEN [kept |-> Append(acc.kept, i),
                                 total |-> acc.total + memory[i].content]
                           ELSE acc,
           [kept |-> <<>>, total |-> 0], s).kept

MemNext ==
  \/ Tick
  \/ \E i \in Memories : Delete(i)
  \/ \E w \in Editors :
       \/ CreateCount(w) \/ CreateInsert(w) \/ UpdateWrite(w)
       \/ \E i \in Memories, new \in Memory, name \in Fields : UpdateSelect(w, i, new, {name})

MemSpec == MemInit /\ [][MemNext]_memVars

-----------------------------------------------------------------------------

MemTypeOK ==
  /\ now \in 0 .. LastTime
  /\ memory \in [Memories -> Memory \cup {NoMemory}]
  /\ editing \in [Editors -> {"idle", "create", "update"}]
  /\ edit \in [Editors -> Edit]

\* Memories pass max_memories_per_user only by requests that had counted them at
\* the same time, each by the one it is about to insert.
MemoryOvershoot ==
  Cardinality(Stored) + Cardinality({w \in Editors : editing[w] = "create"})
    <= MaxMemories + Cardinality(Editors) - 1

\* Two changes of one memory that name different fields are both kept: a field
\* changes only by a request that names it.
OtherFieldsKept ==
  [\A i \in Memories, f \in Fields :
     i \in Stored /\ memory'[i] # NoMemory /\ memory'[i][f] # memory[i][f] =>
       \E w \in Editors : editing[w] = "update" /\ edit[w].id = i /\ f \in edit[w].names]_memVars

\* What run_assistant_query() keeps never makes assemble_context() refuse the
\* question: its limits on the number and the length of the memories hold.
ContextFits ==
  \A matching \in SUBSET Memories : \A s \in Hits(matching) :
    /\ Len(Bounded(s)) <= MaxContext
    /\ FoldLeft(LAMBDA n, i : n + memory[i].content, 0, Bounded(s)) <= ContextChars
=============================================================================
