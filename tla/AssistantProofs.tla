--------------------------- MODULE AssistantProofs ---------------------------
(***************************************************************************)
(* Theorems about the stores of the assistant, for any conversations,      *)
(* requests, users, files, credentials and limits.                         *)
(***************************************************************************)
EXTENDS MCAssistant, FiniteSetTheorems, SequenceTheorems, NaturalsInduction,
        WellFoundedInduction, TLAPS

-----------------------------------------------------------------------------
(* Conversations.                                                            *)

\* Where the question of a request is in the table, unless its conversation was deleted.
Asked == {"query", "context", "provider", "owned2", "count2", "insert2", "reread"}

\* The history of a request is a part of its conversation that ends at message n at the latest.
HistoryUpTo(r, n) ==
  \E i, j \in 0 .. n :
    /\ n <= Len(Messages(r))
    /\ question[r].history = SubSeq(Messages(r), i + 1, j)

\* What is known of a request by its place: its conversation exists or existed, its question and
\* its answer are stored, the history it holds is older than its question and within the limits.
RequestInv(r) ==
  /\ asking[r] \notin {"new", "owned", "done"} => conv[Conv(r)] # "absent"
  /\ asking[r] \in {"new", "owned"} => answered[r] = "none"
  /\ answered[r] # "none" => asking[r] = "done"
  /\ answered[r] = "200" => conv[Conv(r)] # "absent"
  /\ Live(r) /\ asking[r] = "insert" => HistoryUpTo(r, Len(Messages(r)))
  /\ Live(r) /\ asking[r] \in Asked => \E q \in QuestionsOf(r) : HistoryUpTo(r, q - 1)
  /\ Live(r) /\ asking[r] = "reread" => AnswersOf(r) # {}
  /\ Live(r) /\ answered[r] = "200" => QuestionsOf(r) # {} /\ AnswersOf(r) # {}
  /\ asking[r] \in {"provider", "owned2"} => FitsHistory(question[r].history)

ConvInv ==
  /\ ConvTypeOK
  /\ OvershootBounded
  /\ DeletedIsEmpty
  /\ \A r \in Requests : RequestInv(r)

\* The newest messages are a part of the messages that ends at the last one.
LEMMA LastOfIsPart ==
  ASSUME NEW S, NEW s \in Seq(S), NEW n \in Nat
  PROVE  /\ LastOf(s, n) \in Seq(S)
         /\ \E i \in 0 .. Len(s) : LastOf(s, n) = SubSeq(s, i + 1, Len(s))
<1> DEFINE i == IF Len(s) > n THEN Len(s) - n ELSE 0
<1>1. i \in 0 .. Len(s) /\ LastOf(s, n) = SubSeq(s, i + 1, Len(s))
  BY DEF LastOf
<1>2. \A k \in i + 1 .. Len(s) : s[k] \in S
  BY <1>1
<1>3. SubSeq(s, i + 1, Len(s)) \in Seq(S)
  BY <1>1, <1>2, SubSeqProperties
<1> QED
  BY <1>1, <1>3

\* Appending changes no part of what is there.
LEMMA PartOfAppend ==
  ASSUME NEW S, NEW s \in Seq(S), NEW e \in S, NEW i \in 0 .. Len(s), NEW j \in 0 .. Len(s)
  PROVE  SubSeq(Append(s, e), i + 1, j) = SubSeq(s, i + 1, j)
<1>1. \A k \in i + 1 .. j : s[k] \in S /\ Append(s, e)[k] = s[k]
  BY AppendProperties
<1> QED
  BY <1>1, SMTT(60)

\* Every step keeps the types.
LEMMA ConvTypeStep == ConvTypeOK /\ [ConvNext]_convVars => ConvTypeOK'
<1> USE ConversationAssumption
    DEF ConvTypeOK, AskPoints, AskOutcomes, AskAt, AskGoto, AskEnd, Question
<1> SUFFICES ASSUME ConvTypeOK, [ConvNext]_convVars PROVE ConvTypeOK'
  OBVIOUS
<1>1. ASSUME NEW c \in Convs, CreateConversation(c) PROVE ConvTypeOK'
  BY <1>1 DEF CreateConversation
<1>2. ASSUME NEW c \in Convs, DeleteConversation(c) PROVE ConvTypeOK'
  BY <1>2 DEF DeleteConversation
<1>3. ASSUME NEW r \in Requests, Ask(r) PROVE ConvTypeOK'
  <2>1. PICK n \in Lengths : question' = [question EXCEPT ![r].length = n]
    BY <1>3 DEF Ask
  <2>2. [question[r] EXCEPT !.length = n] \in Question
    OBVIOUS
  <2>3. question' \in [Requests -> Question]
    BY <2>1, <2>2
  <2> QED
    BY <1>3, <2>3 DEF Ask
<1>4. ASSUME NEW r \in Requests, AskOwned(r) PROVE ConvTypeOK'
  BY <1>4 DEF AskOwned
<1>5. ASSUME NEW r \in Requests, AskCount(r) PROVE ConvTypeOK'
  BY <1>5 DEF AskCount
<1>6. ASSUME NEW r \in Requests, AskHistory(r) PROVE ConvTypeOK'
  <2>1. Messages(r) \in Seq(Message)
    BY DEF Messages, Conv
  <2>2. LastOf(Messages(r), MaxHistory) \in Seq(Message)
    BY <2>1, LastOfIsPart
  <2> QED
    BY <1>6, <2>2 DEF AskHistory
<1>7. ASSUME NEW r \in Requests, AskInsert(r) \/ AnswerInsert(r) PROVE ConvTypeOK'
  <2>1. \A role \in {"user", "assistant"}, n \in Nat :
          Append(Messages(r), [role |-> role, length |-> n, by |-> r]) \in Seq(Message)
    BY AppendProperties DEF Messages, Conv, Message
  <2>2. question[r].length \in Nat /\ question[r].answer \in Nat /\ Conv(r) \in Convs
    BY DEF Conv
  <2>3. msgs' \in [Convs -> Seq(Message)]
    BY <1>7, <2>1, <2>2 DEF AskInsert, AnswerInsert, Add, Messages
  <2>4. asking' \in [Requests -> AskPoints] /\ answered' \in [Requests -> AskOutcomes]
    BY <1>7 DEF AskInsert, AnswerInsert, Add
  <2> QED
    BY <1>7, <2>3, <2>4 DEF AskInsert, AnswerInsert
<1>8. ASSUME NEW r \in Requests, Query(r) \/ Assemble(r) \/ Generate(r) PROVE ConvTypeOK'
  <2>1. CASE Query(r)
    BY <2>1 DEF Query
  <2>2. CASE Assemble(r)
    BY <2>2 DEF Assemble
  <2>3. CASE Generate(r)
    <3>1. CASE ~ egress
      BY <2>3, <3>1 DEF Generate
    <3>2. CASE egress
      <4>1. PICK n \in Lengths \cup {0} :
              /\ question' = [question EXCEPT ![r].answer = n]
              /\ AskGoto(r, "owned2")
        BY <2>3, <3>2 DEF Generate, Generated
      <4>2. n \in Nat /\ UNCHANGED <<conv, msgs, egress>>
        BY <2>3 DEF Generate
      <4>3. question' \in [Requests -> Question]
        BY <4>1, <4>2
      <4> QED
        BY <4>1, <4>2, <4>3
    <3> QED
      BY <3>1, <3>2
  <2> QED
    BY <1>8, <2>1, <2>2, <2>3
<1>9. ASSUME NEW r \in Requests, AnswerOwned(r) \/ AnswerCount(r) \/ Reread(r) PROVE ConvTypeOK'
  BY <1>9 DEF AnswerOwned, AnswerCount, CountedAgain, Reread
<1>10. CASE UNCHANGED convVars
  BY <1>10 DEF convVars
<1> QED
  BY <1>1, <1>2, <1>3, <1>4, <1>5, <1>6, <1>7, <1>8, <1>9, <1>10 DEF ConvNext, AskStep

\* The requests to a conversation are finite in number, and so are those that hold a count.
LEMMA HoldersFinite ==
  ASSUME NEW c \in Convs
  PROVE  LET asked == {r \in Requests : Conv(r) = c}
             held == {r \in Requests : Conv(r) = c /\ asking[r] \in Holding}
         IN  /\ IsFiniteSet(asked) /\ IsFiniteSet(held)
             /\ Cardinality(asked) \in Nat /\ Cardinality(held) \in Nat
             /\ Cardinality(held) <= Cardinality(asked)
<1> DEFINE asked == {r \in Requests : Conv(r) = c}
           held == {r \in Requests : Conv(r) = c /\ asking[r] \in Holding}
<1>1. asked \subseteq Requests /\ held \subseteq asked
  OBVIOUS
<1>2. IsFiniteSet(asked)
  BY <1>1, ConversationAssumption, FS_Subset
<1>3. IsFiniteSet(held) /\ Cardinality(held) <= Cardinality(asked)
  BY <1>1, <1>2, FS_Subset
<1> QED
  BY <1>2, <1>3, FS_CardinalityType

\* A step keeps the conversation of every request.
LEMMA ConvStays ==
  ConvTypeOK /\ [ConvNext]_convVars => \A r \in Requests : Conv(r)' = Conv(r)
<1> USE DEF ConvTypeOK, Question, Conv
<1> SUFFICES ASSUME ConvTypeOK, [ConvNext]_convVars, NEW r \in Requests PROVE Conv(r)' = Conv(r)
  OBVIOUS
<1>1. CASE \E c \in Convs : CreateConversation(c) \/ DeleteConversation(c)
  BY <1>1 DEF CreateConversation, DeleteConversation
<1>2. ASSUME NEW q \in Requests, Ask(q) PROVE Conv(r)' = Conv(r)
  <2>1. PICK n \in Lengths : question' = [question EXCEPT ![q].length = n]
    BY <1>2 DEF Ask
  <2> QED
    BY <2>1
<1>3. ASSUME NEW q \in Requests, AskHistory(q) \/ Generate(q) PROVE Conv(r)' = Conv(r)
  <2>1. CASE AskHistory(q)
    BY <2>1 DEF AskHistory
  <2>2. CASE Generate(q) /\ ~ egress
    BY <2>2 DEF Generate
  <2>3. CASE Generate(q) /\ egress
    <3>1. PICK n \in Lengths \cup {0} : question' = [question EXCEPT ![q].answer = n]
      BY <2>3 DEF Generate, Generated
    <3> QED
      BY <3>1
  <2> QED
    BY <1>3, <2>1, <2>2, <2>3
<1>4. ASSUME NEW q \in Requests, AskStep(q), ~ AskHistory(q), ~ Generate(q)
      PROVE  Conv(r)' = Conv(r)
  BY <1>4 DEF AskStep, AskOwned, AskCount, AskInsert, Query, Assemble, AnswerOwned, AnswerCount,
              AnswerInsert, Reread
<1>5. CASE UNCHANGED convVars
  BY <1>5 DEF convVars
<1> QED
  BY <1>1, <1>2, <1>3, <1>4, <1>5 DEF ConvNext

\* Every message over the limit is paid for by a request that had counted before.
LEMMA OvershootStep == ConvTypeOK /\ OvershootBounded /\ [ConvNext]_convVars => OvershootBounded'
<1> USE DEF AskPoints, AskAt, AskGoto, AskEnd
<1> SUFFICES ASSUME ConvTypeOK, OvershootBounded, [ConvNext]_convVars, NEW c \in Convs
             PROVE  (Len(msgs[c]) + Cardinality({r \in Requests : Conv(r) = c /\ asking[r] \in Holding})
                       <= MaxMessages + Cardinality({r \in Requests : Conv(r) = c}) - 1)'
  BY DEF OvershootBounded
<1> DEFINE asked == {r \in Requests : Conv(r) = c}
           held == {r \in Requests : Conv(r) = c /\ asking[r] \in Holding}
<1>1. asked' = asked
  BY ConvStays
<1>2. /\ IsFiniteSet(held) /\ IsFiniteSet(asked)
      /\ Cardinality(asked) \in Nat /\ Cardinality(held) \in Nat
  BY HoldersFinite
<1>3. held' \subseteq asked
  BY <1>1
<1>4. IsFiniteSet(held') /\ Cardinality(held') \in Nat /\ Cardinality(held') <= Cardinality(asked)
  BY <1>2, <1>3, FS_Subset, FS_CardinalityType
<1>5. Len(msgs[c]) + Cardinality(held) <= MaxMessages + Cardinality(asked) - 1
  BY DEF OvershootBounded
<1>6. Len(msgs[c]) \in Nat /\ MaxMessages \in Nat \ {0}
  BY ConversationAssumption DEF ConvTypeOK
<1> HIDE DEF asked, held
<1> SUFFICES Len(msgs'[c]) + Cardinality(held') <= MaxMessages + Cardinality(asked) - 1
  BY <1>1 DEF asked, held
<1>7. ASSUME msgs'[c] = msgs[c], held' \subseteq held
      PROVE  Len(msgs'[c]) + Cardinality(held') <= MaxMessages + Cardinality(asked) - 1
  <2>1. Cardinality(held') <= Cardinality(held)
    BY <1>2, <1>7, FS_Subset
  <2> QED
    BY <2>1, <1>2, <1>4, <1>5, <1>6, <1>7
<1>8. ASSUME Len(msgs'[c]) < MaxMessages, Len(msgs'[c]) \in Nat
      PROVE  Len(msgs'[c]) + Cardinality(held') <= MaxMessages + Cardinality(asked) - 1
  BY <1>2, <1>4, <1>6, <1>8
<1>9. ASSUME NEW d \in Convs, CreateConversation(d)
      PROVE  msgs'[c] = msgs[c] /\ held' \subseteq held
  BY <1>9, ConvStays DEF CreateConversation, held
<1>10. ASSUME NEW d \in Convs, DeleteConversation(d)
       PROVE  \/ msgs'[c] = msgs[c] /\ held' \subseteq held
              \/ Len(msgs'[c]) = 0
  BY <1>10, ConvStays DEF DeleteConversation, held, ConvTypeOK
<1>11. ASSUME NEW r \in Requests, AskCount(r) \/ AnswerCount(r)
       PROVE  \/ msgs'[c] = msgs[c] /\ held' \subseteq held
              \/ Len(msgs'[c]) < MaxMessages /\ Len(msgs'[c]) \in Nat
  <2>1. CASE Conv(r) = c /\ Len(msgs[c]) < MaxMessages
    BY <1>6, <1>11, <2>1 DEF AskCount, AnswerCount, CountedAgain
  <2>2. CASE Conv(r) = c /\ ~ (Len(msgs[c]) < MaxMessages)
    <3>1. asking' = [asking EXCEPT ![r] = "done"] /\ msgs' = msgs
      BY <1>6, <1>11, <2>2 DEF AskCount, AnswerCount, CountedAgain, Messages
    <3> QED
      BY <3>1, ConvStays DEF held, Holding, ConvTypeOK
  <2>3. CASE Conv(r) # c
    <3>1. /\ msgs' = msgs
          /\ \A q \in Requests \ {r} : asking'[q] = asking[q]
      BY <1>11 DEF AskCount, AnswerCount, CountedAgain, ConvTypeOK
    <3> QED
      BY <2>3, <3>1, ConvStays DEF held
  <2> QED
    BY <2>1, <2>2, <2>3
<1>12. ASSUME NEW r \in Requests, AskInsert(r) \/ AnswerInsert(r)
       PROVE  Len(msgs'[c]) + Cardinality(held') <= MaxMessages + Cardinality(asked) - 1
  <2>1. CASE Conv(r) = c /\ Live(r)
    <3>1. r \in held /\ held' = held \ {r}
      BY <1>12, <2>1, ConvStays DEF AskInsert, AnswerInsert, Add, held, Holding, ConvTypeOK
    <3>2. Cardinality(held') = Cardinality(held) - 1
      BY <1>2, <3>1, FS_RemoveElement
    <3>3. \E m : msgs' = [msgs EXCEPT ![c] = Append(msgs[c], m)]
      BY <1>12, <2>1 DEF AskInsert, AnswerInsert, Add
    <3>4. Len(msgs'[c]) = Len(msgs[c]) + 1
      BY <3>3 DEF ConvTypeOK
    <3> QED
      BY <1>2, <1>4, <1>5, <1>6, <3>2, <3>4
  <2>2. CASE ~ (Conv(r) = c /\ Live(r))
    <3>1. msgs'[c] = msgs[c]
      BY <1>12, <2>2 DEF AskInsert, AnswerInsert, Add, ConvTypeOK, Conv, Question
    <3>2. held' \subseteq held
      BY <1>12, ConvStays DEF AskInsert, AnswerInsert, Add, held, Holding, ConvTypeOK
    <3> QED
      BY <1>7, <3>1, <3>2
  <2> QED
    BY <2>1, <2>2
<1>13. ASSUME NEW r \in Requests, Ask(r) \/ AskOwned(r) \/ AskHistory(r) \/ Query(r)
       PROVE  msgs'[c] = msgs[c] /\ held' \subseteq held
  BY <1>13, ConvStays DEF Ask, AskOwned, AskHistory, Query, held, Holding, ConvTypeOK
<1>14. ASSUME NEW r \in Requests, Assemble(r) \/ Generate(r) \/ AnswerOwned(r) \/ Reread(r)
       PROVE  msgs'[c] = msgs[c] /\ held' \subseteq held
  BY <1>14, ConvStays
     DEF Assemble, Generate, Generated, AnswerOwned, Reread, held, Holding, ConvTypeOK
<1>15. CASE UNCHANGED convVars
  BY <1>7, <1>15 DEF convVars, held, Conv
<1>16. ASSUME Len(msgs'[c]) = 0
       PROVE  Len(msgs'[c]) + Cardinality(held') <= MaxMessages + Cardinality(asked) - 1
  BY <1>6, <1>8, <1>16
<1> QED
  BY <1>7, <1>8, <1>9, <1>10, <1>11, <1>12, <1>13, <1>14, <1>15, <1>16 DEF ConvNext, AskStep

\* Nothing is stored for a conversation that is not live.
LEMMA DeletedStep == ConvTypeOK /\ DeletedIsEmpty /\ [ConvNext]_convVars => DeletedIsEmpty'
<1> USE DEF ConvTypeOK, DeletedIsEmpty
<1> SUFFICES ASSUME ConvTypeOK, DeletedIsEmpty, [ConvNext]_convVars PROVE DeletedIsEmpty'
  OBVIOUS
<1>1. CASE \E c \in Convs : CreateConversation(c) \/ DeleteConversation(c)
  BY <1>1 DEF CreateConversation, DeleteConversation
<1>2. ASSUME NEW r \in Requests, AskInsert(r) \/ AnswerInsert(r) PROVE DeletedIsEmpty'
  BY <1>2 DEF AskInsert, AnswerInsert, Add, Live
<1>3. ASSUME NEW r \in Requests, Ask(r) \/ AskOwned(r) \/ AskCount(r) \/ AskHistory(r) \/ Query(r)
      PROVE  DeletedIsEmpty'
  BY <1>3 DEF Ask, AskOwned, AskCount, AskHistory, Query
<1>4. ASSUME NEW r \in Requests, \/ Assemble(r) \/ Generate(r)
                                 \/ AnswerOwned(r) \/ AnswerCount(r) \/ Reread(r)
      PROVE  DeletedIsEmpty'
  BY <1>4 DEF Assemble, Generate, AnswerOwned, AnswerCount, Reread
<1>5. CASE UNCHANGED convVars
  BY <1>5 DEF convVars
<1> QED
  BY <1>1, <1>2, <1>3, <1>4, <1>5 DEF ConvNext, AskStep

\* A message that is appended changes nothing of what was there.
LEMMA AppendKeeps ==
  ASSUME ConvTypeOK, NEW r \in Requests, NEW e \in Message,
         question'[r].conv = question[r].conv, question'[r].length = question[r].length,
         question'[r].history = question[r].history,
         \/ msgs' = msgs
         \/ \E c \in Convs : msgs' = [msgs EXCEPT ![c] = Append(@, e)]
  PROVE  /\ Len(Messages(r)) \in Nat /\ Len(Messages(r)') \in Nat
         /\ Len(Messages(r)) <= Len(Messages(r)')
         /\ QuestionsOf(r) \subseteq QuestionsOf(r)'
         /\ AnswersOf(r) \subseteq AnswersOf(r)'
         /\ \A n \in Nat : HistoryUpTo(r, n) => HistoryUpTo(r, n)'
<1>1. Conv(r)' = Conv(r) /\ Conv(r) \in Convs /\ Messages(r) \in Seq(Message)
  BY DEF ConvTypeOK, Conv, Question, Messages
<1>2. Messages(r)' = Messages(r) \/ Messages(r)' = Append(Messages(r), e)
  BY <1>1 DEF Messages, ConvTypeOK
<1>3. /\ Len(Messages(r)) \in Nat /\ Len(Messages(r)') \in Nat
      /\ Len(Messages(r)) <= Len(Messages(r)')
      /\ DOMAIN Messages(r) \subseteq DOMAIN Messages(r)'
      /\ \A i \in DOMAIN Messages(r) : Messages(r)'[i] = Messages(r)[i]
  BY <1>1, <1>2, AppendProperties
<1>4. QuestionsOf(r) \subseteq QuestionsOf(r)' /\ AnswersOf(r) \subseteq AnswersOf(r)'
  BY <1>3 DEF QuestionsOf, AnswersOf
<1>5. ASSUME NEW n \in Nat, HistoryUpTo(r, n) PROVE HistoryUpTo(r, n)'
  <2>1. PICK i \in 0 .. n, j \in 0 .. n :
          n <= Len(Messages(r)) /\ question[r].history = SubSeq(Messages(r), i + 1, j)
    BY <1>5 DEF HistoryUpTo
  <2>2. SubSeq(Messages(r)', i + 1, j) = SubSeq(Messages(r), i + 1, j)
    BY <1>1, <1>2, <1>3, <2>1, PartOfAppend
  <2>3. n <= Len(Messages(r)') /\ question'[r].history = SubSeq(Messages(r)', i + 1, j)
    BY <1>3, <2>1, <2>2
  <2> QED
    BY <2>1, <2>3 DEF HistoryUpTo
<1> QED
  BY <1>3, <1>4, <1>5

\* What is known of a request is kept by the steps of the other requests.
LEMMA OthersKeep ==
  ASSUME ConvTypeOK, NEW r \in Requests, RequestInv(r), NEW e \in Message,
         asking'[r] = asking[r], answered'[r] = answered[r], question'[r] = question[r],
         conv' = conv,
         \/ msgs' = msgs
         \/ \E c \in Convs : msgs' = [msgs EXCEPT ![c] = Append(@, e)]
  PROVE  RequestInv(r)'
<1>1. /\ Len(Messages(r)) \in Nat /\ Len(Messages(r)') \in Nat
      /\ Len(Messages(r)) <= Len(Messages(r)')
      /\ QuestionsOf(r) \subseteq QuestionsOf(r)'
      /\ AnswersOf(r) \subseteq AnswersOf(r)'
      /\ \A n \in Nat : HistoryUpTo(r, n) => HistoryUpTo(r, n)'
  BY AppendKeeps
<1>2. Conv(r)' = Conv(r) /\ Live(r)' = Live(r)
  BY DEF Conv, Live
<1>3. ASSUME NEW m \in Nat, NEW n \in Nat, m <= n, n <= Len(Messages(r)'), HistoryUpTo(r, m)'
      PROVE  HistoryUpTo(r, n)'
  <2>1. PICK i \in 0 .. m, j \in 0 .. m : question'[r].history = SubSeq(Messages(r)', i + 1, j)
    BY <1>3 DEF HistoryUpTo
  <2>2. i \in 0 .. n /\ j \in 0 .. n
    BY <1>3, <2>1
  <2> QED
    BY <1>3, <2>1, <2>2 DEF HistoryUpTo
<1>4. Live(r)' /\ asking'[r] = "insert" => HistoryUpTo(r, Len(Messages(r)))'
  BY <1>1, <1>2, <1>3 DEF RequestInv
<1>5. Live(r)' /\ asking'[r] \in Asked => \E q \in QuestionsOf(r)' : HistoryUpTo(r, q - 1)'
  BY <1>1, <1>2 DEF RequestInv, QuestionsOf
<1> QED
  BY <1>1, <1>2, <1>4, <1>5 DEF RequestInv

\* What a step of a request does to the other requests: nothing, or one message more.
LEMMA StepOfOne ==
  ASSUME ConvTypeOK, NEW r \in Requests, Ask(r) \/ AskStep(r)
  PROVE  /\ conv' = conv
         /\ \A q \in Requests \ {r} : /\ asking'[q] = asking[q] /\ answered'[q] = answered[q]
                                      /\ question'[q] = question[q]
         /\ \E e \in Message : \/ msgs' = msgs
                               \/ \E c \in Convs : msgs' = [msgs EXCEPT ![c] = Append(@, e)]
<1> USE DEF ConvTypeOK, AskAt, AskGoto, AskEnd
<1>1. PICK e : e \in Message /\ e = [role |-> "user", length |-> question[r].length, by |-> r]
  BY DEF Message, Question
<1>2. CASE AskInsert(r) \/ AnswerInsert(r)
  <2>1. /\ Conv(r) \in Convs
        /\ \A role \in {"user", "assistant"} :
             /\ [role |-> role, length |-> question[r].length, by |-> r] \in Message
             /\ [role |-> role, length |-> question[r].answer, by |-> r] \in Message
    BY DEF Conv, Question, Message
  <2>2. CASE AskInsert(r)
    BY <1>1, <2>1, <2>2 DEF AskInsert, Add
  <2>3. CASE AnswerInsert(r)
    BY <1>1, <2>1, <2>3 DEF AnswerInsert, Add
  <2> QED
    BY <1>2, <2>2, <2>3
<1>3. CASE Ask(r) \/ AskOwned(r) \/ AskCount(r) \/ AskHistory(r) \/ Query(r)
  BY <1>1, <1>3 DEF Ask, AskOwned, AskCount, AskHistory, Query
<1>4. CASE Assemble(r) \/ AnswerOwned(r) \/ AnswerCount(r) \/ Reread(r)
  BY <1>1, <1>4 DEF Assemble, AnswerOwned, AnswerCount, CountedAgain, Reread
<1>5. CASE Generate(r)
  BY <1>1, <1>5 DEF Generate, Generated
<1> QED
  BY <1>2, <1>3, <1>4, <1>5 DEF AskStep

\* A request keeps what is known of it by its own steps.
LEMMA OwnKeep ==
  ASSUME ConvInv, NEW r \in Requests, Ask(r) \/ AskStep(r)
  PROVE  RequestInv(r)'
<1> USE DEF ConvInv, RequestInv, Asked, AskAt, AskGoto, AskEnd
<1>1. /\ ConvTypeOK /\ RequestInv(r) /\ asking[r] \in AskPoints /\ conv' = conv
      /\ Messages(r) \in Seq(Message) /\ Conv(r) \in Convs /\ Conv(r)' = Conv(r)
  BY StepOfOne, ConvStays DEF ConvTypeOK, Messages, Conv, Question, ConvNext
<1>2. Live(r)' = Live(r)
  BY <1>1 DEF Live
<1>3. ASSUME msgs' = msgs, question' = question
      PROVE  /\ Messages(r)' = Messages(r) /\ QuestionsOf(r)' = QuestionsOf(r)
             /\ AnswersOf(r)' = AnswersOf(r)
             /\ \A n : HistoryUpTo(r, n)' = HistoryUpTo(r, n)
  BY <1>3, <1>1 DEF Messages, QuestionsOf, AnswersOf, HistoryUpTo, Conv
<1> HIDE DEF ConvInv
<1>4. CASE Ask(r)
  BY <1>1, <1>2, <1>4 DEF Ask, ConvTypeOK
<1>5. CASE AskOwned(r)
  BY <1>1, <1>2, <1>3, <1>5 DEF AskOwned, ConvTypeOK, Live
<1>6. CASE AskCount(r)
  BY <1>1, <1>2, <1>3, <1>6 DEF AskCount, ConvTypeOK
<1>7. CASE AskHistory(r)
  <2>1. /\ msgs' = msgs /\ asking'[r] = "insert" /\ answered'[r] = answered[r]
        /\ question'[r].history = LastOf(Messages(r), MaxHistory)
    BY <1>1, <1>7 DEF AskHistory, ConvTypeOK, Question
  <2>2. PICK i \in 0 .. Len(Messages(r)) :
          LastOf(Messages(r), MaxHistory) = SubSeq(Messages(r), i + 1, Len(Messages(r)))
    BY <1>1, ConversationAssumption, LastOfIsPart
  <2>3. Messages(r)' = Messages(r)
    BY <1>1, <2>1 DEF Messages
  <2>4. HistoryUpTo(r, Len(Messages(r)))'
    BY <1>1, <2>1, <2>2, <2>3 DEF HistoryUpTo
  <2> QED
    BY <1>1, <1>2, <1>7, <2>1, <2>4 DEF AskHistory
<1>8. CASE AskInsert(r)
  <2>1. CASE ~ Live(r)
    BY <1>1, <1>2, <1>8, <2>1 DEF AskInsert, Add, ConvTypeOK
  <2>2. CASE Live(r)
    <3> DEFINE e == [role |-> "user", length |-> question[r].length, by |-> r]
    <3>1. /\ asking[r] = "insert" /\ asking'[r] = "query" /\ answered' = answered
          /\ question' = question /\ msgs' = [msgs EXCEPT ![Conv(r)] = Append(@, e)]
      BY <1>1, <1>8, <2>2 DEF AskInsert, Add, ConvTypeOK
    <3>2. e \in Message
      BY DEF Message, ConvInv, ConvTypeOK, Question
    <3> HIDE DEF e
    <3>3. PICK n \in Nat : n = Len(Messages(r))
      BY <1>1
    <3>4. HistoryUpTo(r, n)'
      <4>1. HistoryUpTo(r, n)
        BY <1>1, <2>2, <3>1, <3>3
      <4> QED
        BY <4>1, <3>1, <3>2, <1>1, AppendKeeps
    <3>5. Messages(r)' = Append(Messages(r), e)
      BY <1>1, <3>1 DEF Messages, ConvTypeOK
    <3>6. n + 1 \in QuestionsOf(r)'
      <4>1. n + 1 \in DOMAIN Messages(r)' /\ Messages(r)'[n + 1] = e
        BY <1>1, <3>2, <3>3, <3>5, AppendProperties
      <4> QED
        BY <4>1, <3>1 DEF QuestionsOf, e
    <3>7. \E q \in QuestionsOf(r)' : HistoryUpTo(r, q - 1)'
      <4>1. (n + 1) - 1 = n
        BY <3>3
      <4> QED
        BY <3>4, <3>6, <4>1
    <3> QED
      BY <1>1, <1>2, <3>1, <3>7
  <2> QED
    BY <2>1, <2>2
<1>9. CASE Query(r)
  BY <1>1, <1>2, <1>3, <1>9 DEF Query, ConvTypeOK
<1>10. CASE Assemble(r)
  BY <1>1, <1>2, <1>3, <1>10 DEF Assemble, ConvTypeOK
<1>11. CASE Generate(r)
  <2>1. CASE ~ egress
    BY <1>1, <1>2, <1>3, <1>11, <2>1 DEF Generate, ConvTypeOK
  <2>2. CASE egress
    <3>1. PICK size \in Lengths \cup {0} : question' = [question EXCEPT ![r].answer = size]
      BY <1>11, <2>2 DEF Generate, Generated
    <3>2. /\ msgs' = msgs /\ asking[r] = "provider" /\ asking'[r] = "owned2"
          /\ answered' = answered
      BY <1>1, <1>11, <2>2 DEF Generate, Generated, ConvTypeOK
    <3>3. /\ question'[r].length = question[r].length
          /\ question'[r].history = question[r].history
      BY <1>1, <3>1 DEF ConvTypeOK, Question
    <3>4. /\ Messages(r)' = Messages(r) /\ QuestionsOf(r)' = QuestionsOf(r)
          /\ \A n : HistoryUpTo(r, n)' = HistoryUpTo(r, n)
      BY <1>1, <3>2, <3>3 DEF Messages, QuestionsOf, HistoryUpTo
    <3>5. FitsHistory(question[r].history)' = FitsHistory(question[r].history)
      BY <3>3
    <3> QED
      BY <1>1, <1>2, <3>2, <3>3, <3>4, <3>5
  <2> QED
    BY <2>1, <2>2
<1>12. CASE AnswerOwned(r)
  BY <1>1, <1>2, <1>3, <1>12 DEF AnswerOwned, ConvTypeOK
<1>13. CASE AnswerCount(r)
  BY <1>1, <1>2, <1>3, <1>13 DEF AnswerCount, CountedAgain, ConvTypeOK
<1>14. CASE AnswerInsert(r)
  <2>1. CASE ~ Live(r)
    BY <1>1, <1>2, <1>14, <2>1 DEF AnswerInsert, Add, ConvTypeOK
  <2>2. CASE Live(r)
    <3> DEFINE e == [role |-> "assistant", length |-> question[r].answer, by |-> r]
    <3>1. /\ asking[r] = "insert2" /\ asking'[r] = "reread" /\ answered' = answered
          /\ question' = question /\ msgs' = [msgs EXCEPT ![Conv(r)] = Append(@, e)]
      BY <1>1, <1>14, <2>2 DEF AnswerInsert, Add, ConvTypeOK
    <3>2. e \in Message
      BY DEF Message, ConvInv, ConvTypeOK, Question
    <3> HIDE DEF e
    <3>3. /\ QuestionsOf(r) \subseteq QuestionsOf(r)'
          /\ \A n \in Nat : HistoryUpTo(r, n) => HistoryUpTo(r, n)'
      BY <1>1, <3>1, <3>2, AppendKeeps
    <3>4. \E q \in QuestionsOf(r)' : HistoryUpTo(r, q - 1)'
      <4>1. PICK q \in QuestionsOf(r) : HistoryUpTo(r, q - 1)
        BY <1>1, <2>2, <3>1
      <4>2. q - 1 \in Nat
        BY <1>1 DEF QuestionsOf
      <4> QED
        BY <3>3, <4>1, <4>2
    <3>5. Len(Messages(r)') \in AnswersOf(r)'
      <4>1. Messages(r)' = Append(Messages(r), e)
        BY <1>1, <3>1 DEF Messages, ConvTypeOK
      <4>2. Len(Messages(r)') \in DOMAIN Messages(r)' /\ Messages(r)'[Len(Messages(r)')] = e
        BY <1>1, <3>2, <4>1, AppendProperties
      <4> QED
        BY <4>2 DEF AnswersOf, e
    <3> QED
      BY <1>1, <1>2, <3>1, <3>4, <3>5
  <2> QED
    BY <2>1, <2>2
<1>15. CASE Reread(r)
  BY <1>1, <1>2, <1>3, <1>15 DEF Reread, ConvTypeOK
<1> QED
  BY <1>4, <1>5, <1>6, <1>7, <1>8, <1>9, <1>10, <1>11, <1>12, <1>13, <1>14, <1>15 DEF AskStep

\* What is known of the requests is kept by every step.
LEMMA RequestStep == ConvInv /\ [ConvNext]_convVars => \A r \in Requests : RequestInv(r)'
<1> SUFFICES ASSUME ConvInv, [ConvNext]_convVars, NEW r \in Requests PROVE RequestInv(r)'
  OBVIOUS
<1>1. ConvTypeOK /\ RequestInv(r) /\ Conv(r)' = Conv(r) /\ Conv(r) \in Convs
  BY ConvStays DEF ConvInv, ConvTypeOK, Conv, Question
<1>2. ASSUME NEW q \in Requests, Ask(q) \/ AskStep(q) PROVE RequestInv(r)'
  <2>1. CASE q = r
    BY <1>2, <2>1, OwnKeep
  <2>2. CASE q # r
    BY <1>1, <1>2, <2>2, StepOfOne, OthersKeep
  <2> QED
    BY <2>1, <2>2
<1>3. ASSUME NEW c \in Convs, CreateConversation(c) \/ DeleteConversation(c)
      PROVE  RequestInv(r)'
  <2>1. /\ asking' = asking /\ answered' = answered /\ question' = question
        /\ Conv(r) # c => conv'[Conv(r)] = conv[Conv(r)] /\ msgs'[Conv(r)] = msgs[Conv(r)]
        /\ conv'[Conv(r)] = "absent" => conv[Conv(r)] = "absent"
        /\ Live(r)' /\ Conv(r) = c => conv[c] = "absent"
    BY <1>1, <1>3 DEF CreateConversation, DeleteConversation, ConvTypeOK, Live
  <2>2. CASE Conv(r) = c
    BY <1>1, <2>1, <2>2 DEF RequestInv, Asked
  <2>3. CASE Conv(r) # c
    <3>1. /\ Live(r)' = Live(r) /\ Messages(r)' = Messages(r)
          /\ conv'[Conv(r)] = conv[Conv(r)]
      BY <1>1, <2>1, <2>3 DEF Live, Messages
    <3>2. /\ QuestionsOf(r)' = QuestionsOf(r) /\ AnswersOf(r)' = AnswersOf(r)
          /\ \A n : HistoryUpTo(r, n)' = HistoryUpTo(r, n)
      BY <2>1, <3>1 DEF QuestionsOf, AnswersOf, HistoryUpTo
    <3> QED
      BY <1>1, <2>1, <3>1, <3>2 DEF RequestInv
  <2> QED
    BY <2>2, <2>3
<1>4. CASE UNCHANGED convVars
  <2>1. /\ Live(r)' = Live(r) /\ QuestionsOf(r)' = QuestionsOf(r) /\ AnswersOf(r)' = AnswersOf(r)
        /\ \A n : HistoryUpTo(r, n)' = HistoryUpTo(r, n)
        /\ Messages(r)' = Messages(r)
    BY <1>4 DEF convVars, Live, QuestionsOf, AnswersOf, HistoryUpTo, Messages, Conv
  <2> QED
    BY <1>1, <1>4, <2>1 DEF convVars, RequestInv
<1> QED
  BY <1>2, <1>3, <1>4 DEF ConvNext

\* What is known of the requests is what the properties say of them.
LEMMA ConvInvImplies ==
  ConvInv => ConvTypeOK /\ OvershootBounded /\ DeletedIsEmpty /\ LostAnswerReported
             /\ HistoryIsPast /\ PromptBounded
<1> SUFFICES ASSUME ConvInv PROVE LostAnswerReported /\ HistoryIsPast /\ PromptBounded
  BY DEF ConvInv
<1> USE DEF ConvInv
<1>1. LostAnswerReported
  BY DEF LostAnswerReported, RequestInv
<1>2. HistoryIsPast
  <2> SUFFICES ASSUME NEW r \in Requests, asking[r] \in {"query", "context", "provider"}, Live(r)
               PROVE  \E q \in QuestionsOf(r), i, j \in 0 .. Len(Messages(r)) :
                        j < q /\ question[r].history = SubSeq(Messages(r), i + 1, j)
    BY DEF HistoryIsPast
  <2>1. PICK q \in QuestionsOf(r) : HistoryUpTo(r, q - 1)
    BY DEF RequestInv, Asked
  <2>2. PICK i \in 0 .. q - 1, j \in 0 .. q - 1 :
          question[r].history = SubSeq(Messages(r), i + 1, j)
    BY <2>1 DEF HistoryUpTo
  <2>3. Messages(r) \in Seq(Message) /\ q \in 1 .. Len(Messages(r))
    BY DEF Messages, Conv, ConvTypeOK, Question, QuestionsOf
  <2>4. i \in 0 .. Len(Messages(r)) /\ j \in 0 .. Len(Messages(r)) /\ j < q
    BY <2>2, <2>3
  <2> QED
    BY <2>2, <2>4
<1>3. PromptBounded
  BY DEF PromptBounded, RequestInv, FitsHistory
<1> QED
  BY <1>1, <1>2, <1>3

\* Nothing is known to be wrong before the first request.
LEMMA ConvInitInv == ConvInit => ConvInv
<1> SUFFICES ASSUME ConvInit PROVE ConvInv
  OBVIOUS
<1>1. ConvTypeOK
  <2>1. msgs \in [Convs -> Seq(Message)]
    BY EmptySeq DEF ConvInit
  <2>2. question \in [Requests -> Question]
    <3>1. \A c \in Convs : [conv |-> c, length |-> 0, history |-> <<>>, answer |-> 0] \in Question
      BY EmptySeq DEF Question
    <3> QED
      BY <3>1 DEF ConvInit
  <2> QED
    BY <2>1, <2>2 DEF ConvInit, ConvTypeOK, AskPoints, AskOutcomes
<1>2. ASSUME NEW c \in Convs
      PROVE  Len(msgs[c]) + Cardinality({r \in Requests : Conv(r) = c /\ asking[r] \in Holding})
               <= MaxMessages + Cardinality({r \in Requests : Conv(r) = c}) - 1
  <2>1. {r \in Requests : Conv(r) = c /\ asking[r] \in Holding} = {} /\ Len(msgs[c]) = 0
    BY DEF ConvInit, Holding
  <2>2. Cardinality({r \in Requests : Conv(r) = c}) \in Nat
    BY HoldersFinite
  <2>3. Cardinality({r \in Requests : Conv(r) = c /\ asking[r] \in Holding}) = 0
    BY <2>1, FS_EmptySet
  <2> QED
    BY <2>1, <2>2, <2>3, ConversationAssumption
<1>3. DeletedIsEmpty
  BY DEF ConvInit, DeletedIsEmpty
<1>4. \A r \in Requests : RequestInv(r)
  BY DEF ConvInit, RequestInv, Asked
<1> QED
  BY <1>1, <1>2, <1>3, <1>4 DEF ConvInv, OvershootBounded

LEMMA ConvInvStep == ConvInv /\ [ConvNext]_convVars => ConvInv'
  BY ConvTypeStep, OvershootStep, DeletedStep, RequestStep DEF ConvInv

\* Two requests to one conversation: the limit is exceeded by fewer messages than requests, a
\* deleted conversation is empty, a lost answer is reported, and a prompt holds what was before
\* its question, within its bound: whatever the limits and however many conversations and
\* requests, in every interleaving of their transactions.
THEOREM ConversationsAreKept == AssistantSpec => []ConversationsKept
<1>1. AssistantInit => ConvInv
  BY ConvInitInv DEF AssistantInit
<1>2. ConvInv /\ [AssistantNext]_<<store, convVars, memVars, docVars, oauthVars, vaultVars>>
        => ConvInv'
  BY ConvInvStep DEF AssistantNext
<1>3. ConvInv => ConversationsKept
  BY ConvInvImplies DEF ConversationsKept
<1> QED
  BY <1>1, <1>2, <1>3, PTL DEF AssistantSpec

-----------------------------------------------------------------------------
(* Induction over the natural numbers, and what a prompt takes of the        *)
(* memories: the folds of Bounded(s) over a sequence of any length.          *)

\* The numbers, each below the greater ones.
Below == {ss \in Nat \X Nat : ss[1] < ss[2]}

\* A set of natural numbers that has 0 and the successor of each of its members has them all.
LEMMA Induction ==
  ASSUME NEW S \in SUBSET Nat, 0 \in S, \A n \in S : n + 1 \in S
  PROVE  S = Nat
<1> SUFFICES ASSUME Nat \ S # {} PROVE FALSE
  OBVIOUS
<1>1. IsWellFoundedOn(Below, Nat)
  BY NatLessThanWellFounded DEF OpToRel, Below
<1>2. Nat \ S \subseteq Nat
  OBVIOUS
<1>3. \E x \in Nat \ S : \A y \in Nat \ S : ~ (<<y, x>> \in Below)
  BY <1>1, WFMin, <1>2
<1>4. PICK x \in Nat \ S : \A y \in Nat \ S : ~ (y < x)
  BY <1>3 DEF Below
<1>5. x # 0 /\ x - 1 \in Nat /\ x - 1 < x
  BY <1>4
<1>6. x - 1 \in S
  BY <1>4, <1>5
<1> QED
  BY <1>5, <1>6

\* The greatest of the numbers up to n in a set.
LEMMA MaxOfUpTo ==
  ASSUME NEW n \in Nat, NEW t \in SUBSET (1 .. n), t # {}
  PROVE  Max(t) \in t /\ \A y \in t : y <= Max(t)
<1> DEFINE A == {k \in Nat : \E m \in t : k = n - m}
<1>1. A # {} /\ A \subseteq Nat
  <2>1. PICK m \in t : TRUE
    OBVIOUS
  <2>2. n - m \in Nat
    BY <2>1
  <2> QED
    BY <2>2
<1>2. IsWellFoundedOn(Below, Nat)
  BY NatLessThanWellFounded DEF OpToRel, Below
<1>3. \E x \in A : \A y \in A : ~ (<<y, x>> \in Below)
  BY <1>1, <1>2, WFMin
<1>4. PICK x \in A : \A y \in A : ~ (y < x)
  BY <1>3 DEF Below
<1>5. PICK m \in t : x = n - m
  BY <1>4
<1>6. ASSUME NEW y \in t PROVE y <= m
  <2>1. n - y \in A
    <3>1. n - y \in Nat
      OBVIOUS
    <3> QED
      BY <3>1
  <2>2. ~ (n - y < n - m)
    BY <2>1, <1>4, <1>5
  <2> QED
    BY <2>2
<1>7. \E y \in t : \A z \in t : y >= z
  BY <1>5, <1>6
<1>8. Max(t) \in t /\ \A z \in t : Max(t) >= z
  BY <1>7 DEF Max
<1> QED
  BY <1>8

\* What FoldLeft defines over the sets of places of a sequence: here, the sum of the contents.
SumStep(f, s, t) ==
  IF t = {} THEN 0 ELSE f[t \ {Max(t)}] + memory[s[Max(t)]].content

\* That function exists for a sequence of any length: by induction over its places.
LEMMA SumExists ==
  ASSUME NEW m \in Nat, NEW s
  PROVE  \E f : f = [t \in SUBSET (1 .. m) |-> SumStep(f, s, t)]
<1> DEFINE S == {n \in Nat : \E f : /\ f = [t \in SUBSET (1 .. m) |-> f[t]]
                                    /\ \A t \in SUBSET (1 .. m) :
                                         t \subseteq 1 .. n => f[t] = SumStep(f, s, t)}
<1>1. 0 \in S
  <2> DEFINE f == [t \in SUBSET (1 .. m) |-> 0]
  <2>1. \A t \in SUBSET (1 .. m) : t \subseteq 1 .. 0 => f[t] = SumStep(f, s, t)
    BY DEF SumStep
  <2> QED
    BY <2>1
<1>2. ASSUME NEW n \in S PROVE n + 1 \in S
  <2>1. PICK f : /\ f = [t \in SUBSET (1 .. m) |-> f[t]]
                 /\ \A t \in SUBSET (1 .. m) : t \subseteq 1 .. n => f[t] = SumStep(f, s, t)
    OBVIOUS
  <2> DEFINE g == [t \in SUBSET (1 .. m) |-> SumStep(f, s, t)]
  <2>2. ASSUME NEW t \in SUBSET (1 .. m), t \subseteq 1 .. n + 1 PROVE g[t] = SumStep(g, s, t)
    <3>1. CASE t = {}
      BY <3>1 DEF SumStep
    <3>2. CASE t # {}
      <4> DEFINE u == t \ {Max(t)}
      <4>1. Max(t) \in t /\ \A y \in t : y <= Max(t)
        BY <3>2, MaxOfUpTo
      <4>2. u \in SUBSET (1 .. m) /\ u \subseteq 1 .. n
        <5>1. PICK x : x = Max(t)
          OBVIOUS
        <5> HIDE DEF u
        <5>4. t \subseteq 1 .. n + 1
          BY <2>2
        <5>5. u = t \ {x}
          BY <5>1 DEF u
        <5>2. x \in 1 .. n + 1 /\ u = t \ {x} /\ \A y \in t : y <= x
          BY <4>1, <5>1, <5>4, <5>5
        <5>3. ASSUME NEW y \in u PROVE y \in 1 .. n
          <6>1. y \in 1 .. n + 1 /\ y <= x /\ y # x
            BY <5>2, <5>4
          <6> QED
            BY <6>1, <5>2, n \in Nat
        <5> QED
          BY <5>2, <5>3
      <4>3. g[u] = f[u]
        BY <4>2, <2>1
      <4> QED
        BY <4>3, <3>2 DEF SumStep
    <3> QED
      BY <3>1, <3>2
  <2> HIDE DEF g
  <2>3. g = [t \in SUBSET (1 .. m) |-> g[t]]
    BY DEF g
  <2>4. n + 1 \in Nat
    OBVIOUS
  <2> QED
    BY <2>2, <2>3, <2>4
<1>3. S = Nat
  <2> HIDE DEF S
  <2>1. S \in SUBSET Nat
    BY DEF S
  <2> QED
    BY <1>1, <1>2, <2>1, Induction
<1> QED
  <2>1. m \in S
    BY <1>3
  <2>2. PICK f : /\ f = [t \in SUBSET (1 .. m) |-> f[t]]
                 /\ \A t \in SUBSET (1 .. m) : t \subseteq 1 .. m => f[t] = SumStep(f, s, t)
    BY <2>1
  <2> QED
    BY <2>2

\* The characters of a sequence of memories.
Total(s) == FoldLeft(LAMBDA n, i : n + memory[i].content, 0, s)

\* FoldLeft is the value of that function on all the places.
LEMMA SumFold ==
  ASSUME NEW m \in Nat, NEW s, DOMAIN s = 1 .. m
  PROVE  \E f : f = [t \in SUBSET (1 .. m) |-> SumStep(f, s, t)] /\ Total(s) = f[1 .. m]
<1>1. Total(s) = (CHOOSE f : f = [t \in SUBSET (DOMAIN s) |->
                     IF t = {} THEN 0 ELSE f[t \ {Max(t)}] + memory[s[Max(t)]].content])[DOMAIN s]
  BY DEF Total, FoldLeft, MapThenFoldSet
<1>2. Total(s) = (CHOOSE f : f = [t \in SUBSET (1 .. m) |-> SumStep(f, s, t)])[1 .. m]
  BY <1>1 DEF SumStep
<1>3. PICK f : f = [t \in SUBSET (1 .. m) |-> SumStep(f, s, t)]
  BY SumExists
<1> DEFINE P(g) == g = [t \in SUBSET (1 .. m) |-> SumStep(g, s, t)]
<1>4. P(CHOOSE g : P(g))
  <2>1. P(f)
    BY <1>3
  <2> HIDE DEF P
  <2> QED
    BY <2>1
<1> QED
  BY <1>2, <1>4

\* The greatest of the places up to n + 1, and those that are left without it.
LEMMA LastOfUpTo ==
  ASSUME NEW n \in Nat
  PROVE  Max(1 .. n + 1) = n + 1 /\ (1 .. n + 1) \ {n + 1} = 1 .. n /\ 1 .. n + 1 # {}
<1>1. Max(1 .. n + 1) \in 1 .. n + 1 /\ \A y \in 1 .. n + 1 : y <= Max(1 .. n + 1)
  <2>1. 1 .. n + 1 # {} /\ n + 1 \in Nat /\ 1 .. n + 1 \in SUBSET (1 .. n + 1)
    OBVIOUS
  <2> QED
    BY <2>1, MaxOfUpTo
<1>2. PICK x : x = Max(1 .. n + 1)
  OBVIOUS
<1>3. x = n + 1
  BY <1>1, <1>2
<1> QED
  BY <1>2, <1>3

\* f is that function for the first m places.
Sums(f, s, m) == \A t \in SUBSET (1 .. m) : f[t] = SumStep(f, s, t)

\* One more memory adds its length.
LEMMA SumStepLast ==
  ASSUME NEW k \in Nat, NEW n \in Nat, n + 1 <= k, NEW s,
         NEW f, Sums(f, s, k)
  PROVE  f[1 .. n + 1] = f[1 .. n] + memory[s[n + 1]].content
<1> DEFINE u == 1 .. n + 1
<1>1. u \in SUBSET (1 .. k)
  OBVIOUS
<1>2. u # {} /\ Max(u) = n + 1 /\ u \ {Max(u)} = 1 .. n
  BY LastOfUpTo
<1> HIDE DEF u
<1>3. f[u] = SumStep(f, s, u)
  BY <1>1 DEF Sums
<1>4. SumStep(f, s, u) = f[1 .. n] + memory[s[n + 1]].content
  BY <1>2 DEF SumStep
<1> QED
  BY <1>3, <1>4 DEF u

\* A memory that is appended adds its length.
LEMMA TotalOfAppend ==
  ASSUME MemTypeOK, MemoryAssumption, NEW q \in Seq(Stored), NEW i \in Stored
  PROVE  Total(Append(q, i)) = Total(q) + memory[i].content
<1> DEFINE m == Len(q)
           p == Append(q, i)
<1>0. m \in Nat /\ DOMAIN q = 1 .. m /\ DOMAIN p = 1 .. m + 1 /\ m + 1 \in Nat
      /\ p[m + 1] = i /\ \A n \in 1 .. m : p[n] = q[n]
  OBVIOUS
<1>1. PICK f : f = [t \in SUBSET (1 .. m) |-> SumStep(f, q, t)] /\ Total(q) = f[1 .. m]
  BY <1>0, SumFold
<1>2. PICK g : g = [t \in SUBSET (1 .. m + 1) |-> SumStep(g, p, t)] /\ Total(p) = g[1 .. m + 1]
  BY <1>0, SumFold
<1>8. Sums(f, q, m) /\ Sums(g, p, m + 1)
  BY <1>1, <1>2 DEF Sums
<1> HIDE DEF p, m
<1> DEFINE S == {n \in Nat : n <= m => f[1 .. n] = g[1 .. n]}
<1>3. 0 \in S
  <2>1. 1 .. 0 = {} /\ {} \in SUBSET (1 .. m) /\ {} \in SUBSET (1 .. m + 1)
    OBVIOUS
  <2>2. f[{}] = 0 /\ g[{}] = 0
    BY <2>1, <1>1, <1>2 DEF SumStep
  <2> QED
    BY <2>1, <2>2
<1>4. ASSUME NEW n \in S PROVE n + 1 \in S
  <2> SUFFICES ASSUME n + 1 <= m PROVE f[1 .. n + 1] = g[1 .. n + 1]
    OBVIOUS
  <2>0. n \in Nat /\ n + 1 <= m /\ n + 1 <= m + 1
    BY <1>0
  <2>1. /\ 1 .. n + 1 \in SUBSET (1 .. m) /\ 1 .. n + 1 \in SUBSET (1 .. m + 1)
        /\ n + 1 \in 1 .. m /\ f[1 .. n] = g[1 .. n]
    BY <1>0
  <2>2. f[1 .. n + 1] = f[1 .. n] + memory[q[n + 1]].content
    BY <1>0, <1>8, <2>0, SumStepLast
  <2>3. g[1 .. n + 1] = g[1 .. n] + memory[p[n + 1]].content
    BY <1>0, <1>8, <2>0, SumStepLast
  <2> QED
    BY <2>1, <2>2, <2>3, <1>0
<1>5. S = Nat
  <2> HIDE DEF S
  <2>1. S \in SUBSET Nat
    BY DEF S
  <2> QED
    BY <1>3, <1>4, <2>1, Induction
<1>6. f[1 .. m] = g[1 .. m]
  BY <1>5, <1>0
<1>7. g[1 .. m + 1] = g[1 .. m] + memory[p[m + 1]].content
  <2>1. m + 1 <= m + 1
    BY <1>0
  <2> QED
    BY <2>1, <1>0, <1>8, SumStepLast
<1> QED
  BY <1>0, <1>1, <1>2, <1>6, <1>7 DEF p

\* No memory has no characters.
LEMMA TotalOfNone == Total(<<>>) = 0
<1>1. DOMAIN <<>> = 1 .. 0 /\ 1 .. 0 = {} /\ 0 \in Nat
  OBVIOUS
<1>2. PICK f : f = [t \in SUBSET (1 .. 0) |-> SumStep(f, <<>>, t)] /\ Total(<<>>) = f[1 .. 0]
  BY <1>1, SumFold
<1> QED
  BY <1>1, <1>2 DEF SumStep

\* The same for what Bounded(s) folds: the memories kept and their characters.
KeepStep(f, s, t) ==
  IF t = {} THEN [kept |-> <<>>, total |-> 0]
  ELSE LET acc == f[t \ {Max(t)}]  i == s[Max(t)] IN
       IF FitsWith(acc.total, i)
         THEN [kept |-> Append(acc.kept, i), total |-> acc.total + memory[i].content]
         ELSE acc

\* That function exists too.
LEMMA KeepExists ==
  ASSUME NEW m \in Nat, NEW s
  PROVE  \E f : f = [t \in SUBSET (1 .. m) |-> KeepStep(f, s, t)]
<1> DEFINE S == {n \in Nat : \E f : /\ f = [t \in SUBSET (1 .. m) |-> f[t]]
                                    /\ \A t \in SUBSET (1 .. m) :
                                         t \subseteq 1 .. n => f[t] = KeepStep(f, s, t)}
<1>1. 0 \in S
  <2> DEFINE f == [t \in SUBSET (1 .. m) |-> [kept |-> <<>>, total |-> 0]]
  <2>1. \A t \in SUBSET (1 .. m) : t \subseteq 1 .. 0 => f[t] = KeepStep(f, s, t)
    BY DEF KeepStep
  <2> QED
    BY <2>1
<1>2. ASSUME NEW n \in S PROVE n + 1 \in S
  <2>1. PICK f : /\ f = [t \in SUBSET (1 .. m) |-> f[t]]
                 /\ \A t \in SUBSET (1 .. m) : t \subseteq 1 .. n => f[t] = KeepStep(f, s, t)
    OBVIOUS
  <2> DEFINE g == [t \in SUBSET (1 .. m) |-> KeepStep(f, s, t)]
  <2>2. ASSUME NEW t \in SUBSET (1 .. m), t \subseteq 1 .. n + 1 PROVE g[t] = KeepStep(g, s, t)
    <3>1. CASE t = {}
      BY <3>1 DEF KeepStep
    <3>2. CASE t # {}
      <4> DEFINE u == t \ {Max(t)}
      <4>1. Max(t) \in t /\ \A y \in t : y <= Max(t)
        BY <3>2, MaxOfUpTo
      <4>2. u \in SUBSET (1 .. m) /\ u \subseteq 1 .. n
        <5>1. PICK x : x = Max(t)
          OBVIOUS
        <5> HIDE DEF u
        <5>4. t \subseteq 1 .. n + 1
          BY <2>2
        <5>5. u = t \ {x}
          BY <5>1 DEF u
        <5>2. x \in 1 .. n + 1 /\ u = t \ {x} /\ \A y \in t : y <= x
          BY <4>1, <5>1, <5>4, <5>5
        <5>3. ASSUME NEW y \in u PROVE y \in 1 .. n
          <6>1. y \in 1 .. n + 1 /\ y <= x /\ y # x
            BY <5>2, <5>4
          <6> QED
            BY <6>1, <5>2, n \in Nat
        <5> QED
          BY <5>2, <5>3
      <4>3. g[u] = f[u]
        BY <4>2, <2>1
      <4> QED
        BY <4>3, <3>2 DEF KeepStep
    <3> QED
      BY <3>1, <3>2
  <2> HIDE DEF g
  <2>3. g = [t \in SUBSET (1 .. m) |-> g[t]]
    BY DEF g
  <2>4. n + 1 \in Nat
    OBVIOUS
  <2> QED
    BY <2>2, <2>3, <2>4
<1>3. S = Nat
  <2> HIDE DEF S
  <2>1. S \in SUBSET Nat
    BY DEF S
  <2> QED
    BY <1>1, <1>2, <2>1, Induction
<1> QED
  <2>1. m \in S
    BY <1>3
  <2>2. PICK f : /\ f = [t \in SUBSET (1 .. m) |-> f[t]]
                 /\ \A t \in SUBSET (1 .. m) : t \subseteq 1 .. m => f[t] = KeepStep(f, s, t)
    BY <2>1
  <2> QED
    BY <2>2


\* Bounded(s) is what it keeps of all the places.
LEMMA KeepFold ==
  ASSUME NEW m \in Nat, NEW s, DOMAIN s = 1 .. m
  PROVE  \E f : f = [t \in SUBSET (1 .. m) |-> KeepStep(f, s, t)] /\ Bounded(s) = f[1 .. m].kept
<1>1. Bounded(s) = (CHOOSE f : f = [t \in SUBSET (DOMAIN s) |-> KeepStep(f, s, t)])[DOMAIN s].kept
  BY DEF Bounded, FoldLeft, MapThenFoldSet, KeepStep
<1>3. PICK f : f = [t \in SUBSET (1 .. m) |-> KeepStep(f, s, t)]
  BY KeepExists
<1> DEFINE P(g) == g = [t \in SUBSET (1 .. m) |-> KeepStep(g, s, t)]
<1>4. P(CHOOSE g : P(g))
  <2>1. P(f)
    BY <1>3
  <2> HIDE DEF P
  <2> QED
    BY <2>1
<1> QED
  BY <1>1, <1>4

\* f is that function for the first m places.
Keeps(f, s, m) == \A t \in SUBSET (1 .. m) : f[t] = KeepStep(f, s, t)

\* One more memory is kept when it fits.
LEMMA KeepStepLast ==
  ASSUME NEW k \in Nat, NEW n \in Nat, n + 1 <= k, NEW s,
         NEW f, Keeps(f, s, k)
  PROVE  f[1 .. n + 1] = (LET acc == f[1 .. n]  i == s[n + 1] IN
       IF FitsWith(acc.total, i)
         THEN [kept |-> Append(acc.kept, i), total |-> acc.total + memory[i].content]
         ELSE acc)
<1> DEFINE u == 1 .. n + 1
<1>1. u \in SUBSET (1 .. k)
  OBVIOUS
<1>2. u # {} /\ Max(u) = n + 1 /\ u \ {Max(u)} = 1 .. n
  BY LastOfUpTo
<1> HIDE DEF u
<1>3. f[u] = KeepStep(f, s, u)
  BY <1>1 DEF Keeps
<1>4. KeepStep(f, s, u) = (LET acc == f[1 .. n]  i == s[n + 1] IN
       IF FitsWith(acc.total, i)
         THEN [kept |-> Append(acc.kept, i), total |-> acc.total + memory[i].content]
         ELSE acc)
  BY <1>2 DEF KeepStep
<1> QED
  BY <1>3, <1>4 DEF u

\* What is kept of any sequence of stored memories is no longer, and within the limit of characters:
\* by induction over its places.
LEMMA BoundedFits ==
  ASSUME MemTypeOK, MemoryAssumption, NEW s \in Seq(Stored)
  PROVE  Bounded(s) \in Seq(Stored) /\ Len(Bounded(s)) <= Len(s) /\ Total(Bounded(s)) <= ContextChars
<1> DEFINE m == Len(s)
<1>0. m \in Nat /\ DOMAIN s = 1 .. m
  OBVIOUS
<1>1. PICK f : f = [t \in SUBSET (1 .. m) |-> KeepStep(f, s, t)] /\ Bounded(s) = f[1 .. m].kept
  BY <1>0, KeepFold
<1>2. Keeps(f, s, m)
  BY <1>1 DEF Keeps
<1> HIDE DEF m
<1> DEFINE Fits(n) == /\ f[1 .. n].kept \in Seq(Stored) /\ Len(f[1 .. n].kept) <= n
                      /\ f[1 .. n].total = Total(f[1 .. n].kept)
                      /\ f[1 .. n].total \in Nat /\ f[1 .. n].total <= ContextChars
           S == {n \in Nat : n <= m => Fits(n)}
<1>3. 0 \in S
  <2>1. 1 .. 0 = {} /\ {} \in SUBSET (1 .. m)
    OBVIOUS
  <2>2. f[{}] = [kept |-> <<>>, total |-> 0]
    BY <2>1, <1>1 DEF KeepStep
  <2>3. f[1 .. 0].kept = <<>> /\ f[1 .. 0].total = 0
    BY <2>1, <2>2
  <2>4. <<>> \in Seq(Stored) /\ Len(<<>>) = 0
    OBVIOUS
  <2>5. Fits(0)
    BY <2>3, <2>4, TotalOfNone DEF MemoryAssumption
  <2> QED
    BY <2>5
<1>4. ASSUME NEW n \in S PROVE n + 1 \in S
  <2> SUFFICES ASSUME n + 1 <= m PROVE Fits(n + 1)
    OBVIOUS
  <2>6. n \in Nat /\ n + 1 <= m
    OBVIOUS
  <2> DEFINE acc == f[1 .. n]
             i == s[n + 1]
  <2>0. /\ acc.kept \in Seq(Stored) /\ Len(acc.kept) <= n /\ acc.total = Total(acc.kept)
        /\ acc.total \in Nat /\ acc.total <= ContextChars
    BY <1>0
  <2>1. 1 .. n + 1 \in SUBSET (1 .. m) /\ n + 1 \in 1 .. m
    BY <1>0
  <2>2. i \in Stored /\ memory[i].content \in Nat
    <3>1. i \in Stored
      BY <2>1, <1>0
    <3> HIDE DEF i
    <3> QED
      BY <3>1 DEF MemTypeOK, Stored, Memory, MemoryAssumption
  <2>3. f[1 .. n + 1] = IF FitsWith(acc.total, i)
         THEN [kept |-> Append(acc.kept, i), total |-> acc.total + memory[i].content]
         ELSE acc
    BY <1>0, <1>2, <2>6, KeepStepLast
  <2> HIDE DEF acc, i
  <2>4. CASE FitsWith(acc.total, i)
    <3>1. f[1 .. n + 1].kept = Append(acc.kept, i) /\ f[1 .. n + 1].total = acc.total + memory[i].content
      BY <2>3, <2>4
    <3>2. Total(Append(acc.kept, i)) = acc.total + memory[i].content
      BY <2>0, <2>2, TotalOfAppend
    <3>3. Append(acc.kept, i) \in Seq(Stored) /\ Len(Append(acc.kept, i)) = Len(acc.kept) + 1
      BY <2>0, <2>2
    <3>4. Len(acc.kept) \in Nat
      BY <2>0
    <3> QED
      BY <3>1, <3>2, <3>3, <3>4, <2>0, <2>2, <2>4 DEF FitsWith
  <2>5. CASE ~ FitsWith(acc.total, i)
    <3>1. f[1 .. n + 1] = acc
      BY <2>3, <2>5
    <3>2. Len(acc.kept) \in Nat
      BY <2>0
    <3> QED
      BY <3>1, <3>2, <2>0
  <2> QED
    BY <2>4, <2>5
<1>5. S = Nat
  <2> HIDE DEF S
  <2>1. S \in SUBSET Nat
    BY DEF S
  <2> QED
    BY <1>3, <1>4, <2>1, Induction
<1>6. Fits(m)
  BY <1>5, <1>0
<1> QED
  BY <1>6, <1>1 DEF m

\* A search finds stored memories, and no more than the limit.
LEMMA HitsAreStored ==
  ASSUME MemTypeOK, MemoryAssumption, NEW matching \in SUBSET Memories, NEW s \in Hits(matching)
  PROVE  s \in Seq(Stored) /\ Len(s) <= MaxContext
<1> DEFINE found == {i \in Stored \cap matching : Active(memory[i])}
           limit == IF Cardinality(found) > MaxContext THEN MaxContext ELSE Cardinality(found)
<1>0. IsFiniteSet(found)
  <2>1. found \subseteq Memories
    BY DEF Stored
  <2> HIDE DEF found
  <2> QED
    BY <2>1, FS_Subset DEF MemoryAssumption
<1>1. PICK T \in SUBSET found : Cardinality(T) = limit /\ s \in SetToAllKPermutations(T)
  BY DEF Hits
<1>2. PICK u \in SUBSET T : s \in SetToSeqs(u)
  BY <1>1 DEF SetToAllKPermutations
<1>3. s \in [1 .. Cardinality(u) -> u]
  BY <1>2 DEF SetToSeqs
<1>4. limit <= MaxContext
  <2> HIDE DEF found
  <2> QED
    BY <1>0, FS_CardinalityType DEF MemoryAssumption
<1> HIDE DEF limit
<1>5. IsFiniteSet(T) /\ Cardinality(u) <= Cardinality(T) /\ Cardinality(u) \in Nat /\ Cardinality(T) \in Nat
  <2> HIDE DEF found
  <2>1. IsFiniteSet(T)
    BY <1>0, <1>1, FS_Subset
  <2> QED
    BY <2>1, <1>2, FS_Subset, FS_CardinalityType
<1>6. u \subseteq Stored
  BY <1>1, <1>2
<1>7. s \in Seq(u) /\ Len(s) = Cardinality(u)
  BY <1>3, <1>5
<1>8. s \in Seq(Stored)
  BY <1>6, <1>7
<1>9. MaxContext \in Nat
  BY DEF MemoryAssumption
<1> QED
  BY <1>8, <1>7, <1>5, <1>1, <1>4, <1>9

\* assemble_context() is never handed more than it accepts.
LEMMA ContextAlwaysFits == MemTypeOK /\ MemoryAssumption => ContextFits
<1> SUFFICES ASSUME MemTypeOK, MemoryAssumption,
                    NEW matching \in SUBSET Memories, NEW s \in Hits(matching)
             PROVE  Len(Bounded(s)) <= MaxContext /\ Total(Bounded(s)) <= ContextChars
  BY DEF ContextFits, Total
<1>1. s \in Seq(Stored) /\ Len(s) <= MaxContext
  BY HitsAreStored
<1>2. Bounded(s) \in Seq(Stored) /\ Len(Bounded(s)) <= Len(s) /\ Total(Bounded(s)) <= ContextChars
  BY <1>1, BoundedFits
<1>3. Len(Bounded(s)) \in Nat /\ Len(s) \in Nat /\ MaxContext \in Nat
  BY <1>1, <1>2 DEF MemoryAssumption
<1> QED
  BY <1>1, <1>2, <1>3

-----------------------------------------------------------------------------
(* Memories.                                                                 *)

\* An update in progress holds a whole row.
MemInv ==
  /\ MemTypeOK
  /\ MemoryOvershoot
  /\ \A w \in Editors : editing[w] = "update" => edit[w].row \in Memory

\* A function over the names of the fields whose values fit is a row.
LEMMA RowOfFields ==
  ASSUME NEW g, g = [f \in Fields |-> g[f]], g["content"] \in Texts,
         g["importance"] \in Levels, g["expires"] \in Expiries
  PROVE  g \in Memory
<1>1. g = [content |-> g["content"], importance |-> g["importance"], expires |-> g["expires"]]
  BY DEF Fields
<1> QED
  BY <1>1 DEF Memory

\* A patch of a row is a row.
LEMMA PatchedRow ==
  ASSUME NEW old \in Memory, NEW new \in Memory, NEW names
  PROVE  [f \in Fields |-> IF f \in names THEN new[f] ELSE old[f]] \in Memory
<1> DEFINE g == [f \in Fields |-> IF f \in names THEN new[f] ELSE old[f]]
<1>1. g["content"] \in Texts /\ g["importance"] \in Levels /\ g["expires"] \in Expiries
  BY DEF Memory, Fields
<1>2. g = [f \in Fields |-> g[f]]
  OBVIOUS
<1> HIDE DEF g
<1>3. g \in Memory
  BY <1>1, <1>2, RowOfFields
<1> QED
  BY <1>3 DEF g

\* Every step keeps the types, and an update that has read its row holds one.
LEMMA MemTypeStep ==
  MemInv /\ [MemNext]_memVars =>
    MemTypeOK' /\ \A w \in Editors : editing'[w] = "update" => edit'[w].row \in Memory
<1> DEFINE Good == MemTypeOK /\ \A w \in Editors : editing[w] = "update" => edit[w].row \in Memory
<1> USE MemoryAssumption DEF MemInv, MemTypeOK, MemGoto, MemEnd
<1> SUFFICES ASSUME MemInv, [MemNext]_memVars PROVE Good'
  OBVIOUS
<1>1. CASE Tick
  BY <1>1 DEF Tick
<1>2. ASSUME NEW i \in Memories, Delete(i) PROVE Good'
  BY <1>2 DEF Delete
<1>3. ASSUME NEW w \in Editors, CreateCount(w) PROVE Good'
  BY <1>3 DEF CreateCount
<1>4. ASSUME NEW w \in Editors, CreateInsert(w) PROVE Good'
  BY <1>4 DEF CreateInsert
<1>5. ASSUME NEW w \in Editors, UpdateWrite(w) PROVE Good'
  <2>1. NoEdit \in Edit
    BY DEF NoEdit, Edit
  <2>2. ASSUME NEW i \in Stored PROVE Assigned(w, memory[i]) \in Memory
    <3>1. edit[w].row \in Memory /\ memory[i] \in Memory
      BY <1>5 DEF UpdateWrite, Stored
    <3>2. \A names : [f \in Fields |-> IF f \in names THEN edit[w].row[f] ELSE memory[i][f]]
                      \in Memory
      BY <3>1, PatchedRow
    <3> QED
      BY <3>2 DEF Assigned
  <2>3. memory' \in [Memories -> Memory \cup {NoMemory}]
    BY <1>5, <2>2 DEF UpdateWrite
  <2> QED
    BY <1>5, <2>1, <2>3 DEF UpdateWrite
<1>6. ASSUME NEW w \in Editors, NEW i \in Memories, NEW new \in Memory, NEW name \in Fields,
             UpdateSelect(w, i, new, {name})
      PROVE  Good'
  <2> DEFINE row == [f \in Fields |-> IF f \in {name} THEN new[f] ELSE memory[i][f]]
  <2>1. row \in Memory
    BY <1>6, PatchedRow DEF UpdateSelect, Stored
  <2>2. [id |-> i, row |-> row, names |-> {name}] \in Edit
    BY <2>1 DEF Edit
  <2>3. edit' = [edit EXCEPT ![w] = [id |-> i, row |-> row, names |-> {name}]]
    BY <1>6 DEF UpdateSelect
  <2>4. /\ editing' = [editing EXCEPT ![w] = "update"]
        /\ memory' = memory /\ now' = now
    BY <1>6 DEF UpdateSelect
  <2> HIDE DEF row
  <2> QED
    BY <2>1, <2>2, <2>3, <2>4
<1>7. CASE UNCHANGED memVars
  BY <1>7 DEF memVars
<1> QED
  BY <1>1, <1>2, <1>3, <1>4, <1>5, <1>6, <1>7 DEF MemNext

\* Every memory over the limit is paid for by a worker that had counted before.
LEMMA MemoryOvershootStep == MemInv /\ [MemNext]_memVars => MemoryOvershoot'
<1> DEFINE creating == {w \in Editors : editing[w] = "create"}
<1> SUFFICES ASSUME MemInv, [MemNext]_memVars
             PROVE  (Cardinality(Stored) + Cardinality(creating)
                       <= MaxMemories + Cardinality(Editors) - 1)'
  BY DEF MemoryOvershoot
<1>1. /\ IsFiniteSet(Stored) /\ IsFiniteSet(Stored') /\ IsFiniteSet(creating)
      /\ IsFiniteSet(creating') /\ Cardinality(creating') <= Cardinality(Editors)
  BY MemoryAssumption, FS_Subset DEF Stored
<1>2. /\ Cardinality(Stored) \in Nat /\ Cardinality(Stored') \in Nat
      /\ Cardinality(creating) \in Nat /\ Cardinality(creating') \in Nat
      /\ Cardinality(Editors) \in Nat /\ MaxMemories \in Nat \ {0}
  BY <1>1, MemoryAssumption, FS_CardinalityType
<1>3. Cardinality(Stored) + Cardinality(creating) <= MaxMemories + Cardinality(Editors) - 1
  BY DEF MemInv, MemoryOvershoot
<1>4. ASSUME Stored' \subseteq Stored, creating' \subseteq creating
      PROVE  Cardinality(Stored') + Cardinality(creating') <= MaxMemories + Cardinality(Editors) - 1
  <2>1. Cardinality(Stored') <= Cardinality(Stored) /\ Cardinality(creating') <= Cardinality(creating)
    BY <1>1, <1>4, FS_Subset
  <2> QED
    BY <1>2, <1>3, <2>1
<1> USE DEF MemInv, MemTypeOK, MemGoto, MemEnd, Stored
<1>5. CASE Tick \/ \E i \in Memories : Delete(i)
  BY <1>4, <1>5 DEF Tick, Delete
<1>6. ASSUME NEW w \in Editors, CreateCount(w)
      PROVE  Cardinality(Stored') + Cardinality(creating') <= MaxMemories + Cardinality(Editors) - 1
  <2>1. Stored' = Stored /\ Cardinality(Stored) < MaxMemories
    BY <1>2, <1>6 DEF CreateCount, MayCreate
  <2> HIDE DEF Stored, creating
  <2> QED
    BY <1>1, <1>2, <2>1
<1>7. ASSUME NEW w \in Editors, CreateInsert(w)
      PROVE  Cardinality(Stored') + Cardinality(creating') <= MaxMemories + Cardinality(Editors) - 1
  <2>1. PICK i \in Memories \ Stored, r \in Memory : memory' = [memory EXCEPT ![i] = r]
    BY <1>7 DEF CreateInsert
  <2>2. Stored' \subseteq Stored \cup {i} /\ creating' = creating \ {w} /\ w \in creating
    BY <1>7, <2>1 DEF CreateInsert
  <2> HIDE DEF creating
  <2>3. /\ Cardinality(Stored \cup {i}) = Cardinality(Stored) + 1
        /\ IsFiniteSet(Stored \cup {i}) /\ Cardinality(creating') = Cardinality(creating) - 1
    BY <1>1, <2>1, <2>2, FS_AddElement, FS_RemoveElement
  <2>4. Cardinality(Stored') <= Cardinality(Stored) + 1
    BY <2>2, <2>3, FS_Subset
  <2> QED
    BY <1>2, <1>3, <2>3, <2>4
<1>8. ASSUME NEW w \in Editors, UpdateWrite(w)
      PROVE  Stored' \subseteq Stored /\ creating' \subseteq creating
  BY <1>8 DEF UpdateWrite
<1>9. ASSUME NEW w \in Editors, NEW i \in Memories, NEW new \in Memory, NEW name \in Fields,
             UpdateSelect(w, i, new, {name})
      PROVE  Stored' \subseteq Stored /\ creating' \subseteq creating
  BY <1>9 DEF UpdateSelect
<1>10. CASE UNCHANGED memVars
  BY <1>4, <1>10 DEF memVars
<1> QED
  BY <1>4, <1>5, <1>6, <1>7, <1>8, <1>9, <1>10 DEF MemNext

\* A field of a stored memory changes only by a request that names it.
LEMMA FieldsStep == MemInv /\ [MemNext]_memVars => OtherFieldsKept
<1> USE DEF MemInv, MemTypeOK, Stored
<1> SUFFICES ASSUME MemInv, MemNext, NEW i \in Memories, NEW f \in Fields,
                    i \in Stored, memory'[i] # NoMemory, memory'[i][f] # memory[i][f]
             PROVE  \E w \in Editors : editing[w] = "update" /\ edit[w].id = i /\ f \in edit[w].names
  BY DEF OtherFieldsKept, memVars
<1>1. ASSUME memory' = memory PROVE FALSE
  BY <1>1
<1>2. CASE Tick \/ \E j \in Memories : Delete(j)
  BY <1>2 DEF Tick, Delete
<1>3. ASSUME NEW w \in Editors, CreateCount(w) PROVE FALSE
  BY <1>1, <1>3 DEF CreateCount
<1>4. ASSUME NEW w \in Editors, CreateInsert(w) PROVE FALSE
  BY <1>4 DEF CreateInsert
<1>5. ASSUME NEW w \in Editors, NEW j \in Memories, NEW new \in Memory, NEW name \in Fields,
             UpdateSelect(w, j, new, {name})
      PROVE  FALSE
  BY <1>1, <1>5 DEF UpdateSelect
<1>6. ASSUME NEW w \in Editors, UpdateWrite(w)
      PROVE  editing[w] = "update" /\ edit[w].id = i /\ f \in edit[w].names
  <2>1. editing[w] = "update" /\ edit[w].id \in Stored
    BY <1>1, <1>6 DEF UpdateWrite
  <2>2. memory' = [memory EXCEPT ![edit[w].id] = Assigned(w, memory[edit[w].id])]
    BY <1>6, <2>1 DEF UpdateWrite
  <2>3. edit[w].id = i /\ memory'[i] = Assigned(w, memory[i])
    BY <2>1, <2>2
  <2> QED
    BY <2>1, <2>3 DEF Assigned
<1> QED
  BY <1>2, <1>3, <1>4, <1>5, <1>6 DEF MemNext

LEMMA MemInvStep == MemInv /\ [MemNext]_memVars => MemInv'
  BY MemTypeStep, MemoryOvershootStep DEF MemInv

LEMMA MemInitInv == MemInit => MemInv
<1> SUFFICES ASSUME MemInit PROVE MemInv
  OBVIOUS
<1>1. MemTypeOK /\ \A w \in Editors : editing[w] = "update" => edit[w].row \in Memory
  BY MemoryAssumption DEF MemInit, MemTypeOK, NoEdit, Edit
<1>2. Stored = {} /\ {w \in Editors : editing[w] = "create"} = {}
  BY DEF MemInit, Stored
<1>3. Cardinality(Editors) \in Nat
  BY MemoryAssumption, FS_CardinalityType
<1> QED
  BY <1>1, <1>2, <1>3, FS_EmptySet, MemoryAssumption DEF MemInv, MemoryOvershoot

-----------------------------------------------------------------------------
(* OAuth states.                                                             *)

\* A pending state was granted to its owner, is nobody else's, and was not accepted yet.
OAuthInv ==
  /\ OAuthTypeOK
  /\ pending \in [Owners -> Pending \cup {NoState}]
  /\ AcceptedWasIssued /\ AcceptedIsSpent
  /\ \A a \in accepted : a.token \in 1 .. issued
  /\ \A u \in Owners : pending[u] # NoState =>
       /\ pending[u].token <= issued
       /\ \E g \in grants : /\ g.owner = u /\ g.token = pending[u].token
                            /\ pending[u].until = g.at + Lifetime
       /\ \A v \in Owners \ {u} : pending[v] # NoState => pending[v].token # pending[u].token

LEMMA OAuthInvStep == OAuthInv /\ [OAuthNext]_oauthVars => OAuthInv'
<1> USE OAuthAssumption DEF OAuthInv, OAuthTypeOK, AcceptedWasIssued, AcceptedIsSpent, Pending
<1> SUFFICES ASSUME OAuthInv, [OAuthNext]_oauthVars PROVE OAuthInv'
  OBVIOUS
<1>1. CASE OAuthTick
  BY <1>1 DEF OAuthTick
<1>2. CASE OAuthRestart
  BY <1>2 DEF OAuthRestart
<1>3. ASSUME NEW u \in Owners, ConnectIntegration(u) PROVE OAuthInv'
  <2> DEFINE p == [token |-> issued + 1, until |-> time + Lifetime]
             g == [owner |-> u, token |-> issued + 1, at |-> time]
  <2>1. /\ issued' = issued + 1 /\ issued < MaxStates /\ pending' = [pending EXCEPT ![u] = p]
        /\ grants' = grants \cup {g} /\ time' = time /\ accepted' = accepted
    BY <1>3 DEF ConnectIntegration
  <2>2. p \in Pending /\ issued' \in 0 .. MaxStates
    BY <2>1
  <2>3. g \in grants' /\ g.owner = u /\ g.token = p.token /\ p.until = g.at + Lifetime
    BY <2>1
  <2>4. p.token = issued'
    BY <2>1
  <2> HIDE DEF p, g
  <2>5. pending'[u] = p /\ \A v \in Owners \ {u} : pending'[v] = pending[v]
    BY <2>1
  <2>6. OAuthTypeOK' /\ pending' \in [Owners -> Pending \cup {NoState}]
    BY <2>1, <2>2
  <2>7. AcceptedWasIssued' /\ AcceptedIsSpent' /\ \A a \in accepted' : a.token \in 1 .. issued'
    <3>1. \A a \in accepted : a.token \in 1 .. issued' /\ a.token # issued'
      BY <2>1
    <3>2. AcceptedIsSpent'
      BY <2>1, <2>4, <2>5, <3>1
    <3> QED
      BY <2>1, <3>1, <3>2
  <2> QED
    BY <2>1, <2>2, <2>3, <2>4, <2>5, <2>6, <2>7
<1>4. ASSUME NEW u \in Owners, DisconnectIntegration(u) PROVE OAuthInv'
  BY <1>4 DEF DisconnectIntegration
<1>5. ASSUME NEW u \in Owners, NEW t \in 1 .. issued, IntegrationCallback(u, t) PROVE OAuthInv'
  BY <1>5 DEF IntegrationCallback, Popped, Matches
<1>6. CASE UNCHANGED oauthVars
  BY <1>6 DEF oauthVars
<1> QED
  BY <1>1, <1>2, <1>3, <1>4, <1>5, <1>6 DEF OAuthNext

LEMMA OAuthInitInv == OAuthInit => OAuthInv
  BY OAuthAssumption
     DEF OAuthInit, OAuthInv, OAuthTypeOK, AcceptedWasIssued, AcceptedIsSpent, Pending

-----------------------------------------------------------------------------
(* The credential vault.                                                     *)

\* An operation under way has read what is kept, and the temporary file is that of
\* an operation about to replace the vault with it.
VaultInv ==
  /\ VaultTypeOK
  /\ VaultKeepsStored
  /\ \A w \in Busy : kept \subseteq copy[w].doc /\ copy[w].op # "none"
  /\ \A w \in Writers : stage[w] = "replace" /\ temp # NoFile =>
       \E v \in Writers : stage[v] = "replace" /\ temp = Changed(copy[v])

LEMMA VaultInvStep == VaultInv /\ [VaultNext]_vaultVars => VaultInv'
<1> USE DEF VaultInv, VaultTypeOK, VaultKeepsStored, Busy
<1> SUFFICES ASSUME VaultInv, [VaultNext]_vaultVars PROVE VaultInv'
  OBVIOUS
<1>1. CASE VaultCrash
  BY <1>1 DEF VaultCrash, NoCopy
<1>2. ASSUME NEW w \in Writers, NEW op \in {"store", "delete"}, NEW c \in Credentials,
             VaultRead(w, op, c)
      PROVE  VaultInv'
  BY <1>2 DEF VaultRead, Changed
<1>3. ASSUME NEW w \in Writers, VaultWrite(w) PROVE VaultInv'
  BY <1>3 DEF VaultWrite, Changed
<1>4. ASSUME NEW w \in Writers, VaultReplace(w) PROVE VaultInv'
  BY <1>4 DEF VaultReplace, VaultEnd, NoCopy, Changed
<1>5. CASE UNCHANGED vaultVars
  BY <1>5 DEF vaultVars, Changed
<1> QED
  BY <1>1, <1>2, <1>3, <1>4, <1>5 DEF VaultNext

LEMMA VaultInitInv == VaultInit => VaultInv
  BY DEF VaultInit, VaultInv, VaultTypeOK, VaultKeepsStored, Busy, NoCopy

-----------------------------------------------------------------------------
(* Roots and documents.                                                      *)

\* What a request holds: the text it extracted is not older than the file was when it began,
\* and the row a removal has read is that of the root it names, unless the id was given again.
HoldsInv(w) ==
  /\ serving[w] = "extract" => file[request[w].file] >= request[w].start
  /\ serving[w] = "store" => request[w].text = NoRow \/ request[w].text >= request[w].start
  /\ serving[w] = "store" => request[w].text = NoRow \/ request[w].text \in 0 .. MaxVersion
  /\ serving[w] \in {"extract", "store"} => request[w].start \in 0 .. MaxVersion
  /\ serving[w] = "remove" =>
       /\ request[w].row # NoRow /\ request[w].row.user = request[w].user
       /\ request[w].row.since <= adds
       /\ roots[request[w].root] # NoRow =>
            \/ roots[request[w].root] = request[w].row
            \/ roots[request[w].root].since > request[w].row.since

DocInv ==
  /\ DocTypeOK
  /\ DOMAIN serving = Workers
  /\ IndexAgrees /\ DocumentsHaveRoots /\ AloneIsFresh
  /\ \A i \in Ids : roots[i] # NoRow => roots[i].since <= adds
  /\ \A w \in Workers : HoldsInv(w)

\* A request that holds nothing yet is a request.
LEMMA IdleRequest ==
  ASSUME NEW u \in Users, NEW i \in Ids, NEW f \in Files
  PROVE  /\ DocIdle(u, i, f) \in DocRequest
         /\ DocIdle(u, i, f).user = u /\ DocIdle(u, i, f).root = i /\ DocIdle(u, i, f).file = f
  BY DEF DocIdle, DocRequest, NoRoots

LEMMA NoRequestTyped == NoRequest \in DocRequest
<1> DEFINE idle == {DocIdle(u, i, f) : u \in Users, i \in Ids, f \in Files}
<1>1. 1 \in Ids
  BY DocumentAssumption DEF Ids
<1>2. idle # {}
  BY <1>1, DocumentAssumption
<1>3. (CHOOSE l \in idle : TRUE) \in idle
  BY <1>2
<1>4. idle \subseteq DocRequest
  BY IdleRequest
<1> HIDE DEF idle
<1>5. (CHOOSE l \in idle : TRUE) \in DocRequest
  BY <1>3, <1>4
<1> QED
  BY <1>5 DEF idle, NoRequest

\* The greatest id of the table is not less than any of them.
LEMMA PresentIsBelow ==
  \A i \in PresentRoots : PresentRoots # {} /\ Max(PresentRoots) + 1 # i
<1> DEFINE t == PresentRoots
<1>1. t \subseteq 1 .. MaxAdds /\ MaxAdds \in Nat
  BY DocumentAssumption DEF PresentRoots, Ids
<1> HIDE DEF t
<1>2. \A i \in t : Max(t) \in t /\ i <= Max(t)
  <2> SUFFICES ASSUME t # {} PROVE Max(t) \in t /\ \A y \in t : y <= Max(t)
    OBVIOUS
  <2>1. t \in SUBSET (1 .. MaxAdds)
    BY <1>1
  <2> QED
    BY <1>1, <2>1, MaxOfUpTo
<1>3. \A i \in 1 .. MaxAdds : i \in Nat
  OBVIOUS
<1>4. ASSUME NEW i \in t PROVE t # {} /\ Max(t) + 1 # i
  <2>1. Max(t) \in Nat /\ i \in Nat /\ i <= Max(t)
    BY <1>1, <1>2, <1>3
  <2> QED
    BY <2>1
<1> QED
  BY <1>4 DEF t

LEMMA ChangeFileStep == ASSUME DocInv, NEW f \in Files, ChangeFile(f) PROVE DocInv'
<1> USE DocumentAssumption DEF DocInv
<1>1. /\ file' = [file EXCEPT ![f] = @ + 1] /\ file[f] < MaxVersion
      /\ UNCHANGED <<dirs, roots, adds, docs, index, serving, request, solo>>
  BY DEF ChangeFile
<1>2. file' \in [Files -> 0 .. MaxVersion] /\ \A g \in Files : file'[g] >= file[g]
  BY <1>1 DEF DocTypeOK
<1>3. DocTypeOK' /\ IndexAgrees' /\ DocumentsHaveRoots' /\ AloneIsFresh'
  BY <1>1, <1>2 DEF DocTypeOK, IndexAgrees, DocumentsHaveRoots, AloneIsFresh
<1>4. ASSUME NEW w \in Workers PROVE HoldsInv(w)'
  BY <1>1, <1>2 DEF HoldsInv, DocTypeOK, DocRequest
<1> QED
  BY <1>1, <1>3, <1>4

LEMMA AddRootStep ==
  ASSUME DocInv, NEW u \in Users, NEW p \in Paths, AddRoot(u, p) PROVE DocInv'
<1> USE DocumentAssumption DEF DocInv
<1> DEFINE n == NextRootId
           r == [user |-> u, path |-> p, since |-> adds + 1]
<1>1. /\ adds' = adds + 1 /\ adds < MaxAdds /\ roots' = [roots EXCEPT ![n] = r]
      /\ UNCHANGED <<dirs, file, docs, index, serving, request, solo>>
  BY DEF AddRoot
<1>2. r \in Root /\ r # NoRow /\ r.since = adds + 1 /\ adds \in Nat
  BY NoRowAssumption DEF Root, DocTypeOK
<1> HIDE DEF n, r
<1>3. /\ \A i \in Ids : roots'[i] = roots[i] \/ roots'[i] = r
      /\ roots' \in [Ids -> Root \cup {NoRow}]
  BY <1>1, <1>2 DEF DocTypeOK
<1>4. DocTypeOK'
  BY <1>1, <1>2, <1>3 DEF DocTypeOK
<1>5. IndexAgrees' /\ AloneIsFresh' /\ DocumentsHaveRoots'
  BY <1>1, <1>2, <1>3 DEF IndexAgrees, DocumentsHaveRoots, AloneIsFresh, Keys
<1>6. \A i \in Ids : roots'[i] # NoRow => roots'[i].since <= adds'
  BY <1>1, <1>2, <1>3 DEF DocTypeOK, Root
<1>7. ASSUME NEW w \in Workers PROVE HoldsInv(w)'
  <2>1. request[w].root \in Ids /\ (request[w].row # NoRow => request[w].row.since \in Nat)
    BY DEF DocTypeOK, DocRequest, Root
  <2>2. HoldsInv(w)
    OBVIOUS
  <2> QED
    BY <1>1, <1>2, <1>3, <2>1, <2>2 DEF HoldsInv
<1> QED
  BY <1>1, <1>4, <1>5, <1>6, <1>7

LEMMA RemoveStep ==
  ASSUME DocInv, NEW w \in Workers,
         RemoveDelete(w) \/ \E u \in Users, i \in Ids : RemoveSelect(w, u, i)
  PROVE  DocInv'
<1> USE DocumentAssumption DEF DocInv, DocGoto, DocGoes, DocEnds
<1>1. CASE RemoveDelete(w)
  <2>1. /\ UNCHANGED <<dirs, file, adds, solo, docs, index>>
        /\ \A i \in Ids : roots'[i] = roots[i] \/ roots'[i] = NoRow
        /\ roots' \in [Ids -> Root \cup {NoRow}]
        /\ serving' = [serving EXCEPT ![w] = "new"]
        /\ request' = [request EXCEPT ![w] = NoRequest]
    BY <1>1 DEF RemoveDelete, DeleteRoot, DocTypeOK
  <2>2. DocumentsHaveRoots'
    <3> SUFFICES ASSUME NEW k \in Keys, docs[k] # NoRow PROVE roots'[k.root] # NoRow
      BY <2>1 DEF DocumentsHaveRoots
    <3>1. roots[k.root] # NoRow /\ k.root \in Ids /\ Referenced(k.root)
      BY DEF DocumentsHaveRoots, Keys, Referenced
    <3> QED
      BY <1>1, <3>1 DEF RemoveDelete, DeleteRoot, DocTypeOK
  <2>3. DocTypeOK' /\ IndexAgrees' /\ AloneIsFresh'
    BY <2>1, NoRequestTyped DEF DocTypeOK, IndexAgrees, AloneIsFresh
  <2>4. ASSUME NEW v \in Workers PROVE HoldsInv(v)'
    <3>1. request[v].root \in Ids
      BY DEF DocTypeOK, DocRequest
    <3>2. v # w => request'[v] = request[v]
      BY <2>1 DEF DocTypeOK
    <3> QED
      BY <2>1, <3>1, <3>2 DEF HoldsInv
  <2> QED
    BY <2>1, <2>2, <2>3, <2>4
<1>2. ASSUME NEW u \in Users, NEW i \in Ids, RemoveSelect(w, u, i) PROVE DocInv'
  <2> DEFINE q == [DocIdle(u, i, request[w].file) EXCEPT !.kind = "remove", !.row = OwnedRow(u, i)]
  <2>1. /\ request' = [request EXCEPT ![w] = q] /\ UNCHANGED <<docStore, solo>>
        /\ serving' = [serving EXCEPT ![w] = "remove"] /\ OwnedRow(u, i) # NoRow
    BY <1>2 DEF RemoveSelect
  <2>2. /\ q \in DocRequest /\ q.user = u /\ q.root = i /\ q.row = OwnedRow(u, i)
    <3>1. OwnedRow(u, i) \in Root \cup {NoRow} /\ request[w].file \in Files
      BY DEF OwnedRow, DocTypeOK, DocRequest
    <3> HIDE DEF DocInv
    <3> QED
      BY <3>1 DEF DocRequest, DocIdle, NoRoots
  <2> HIDE DEF q
  <2>3. DocTypeOK' /\ IndexAgrees' /\ DocumentsHaveRoots' /\ AloneIsFresh'
    BY <2>1, <2>2 DEF DocTypeOK, docStore, IndexAgrees, DocumentsHaveRoots, AloneIsFresh
  <2>4. ASSUME NEW v \in Workers PROVE HoldsInv(v)'
    BY <2>1, <2>2 DEF HoldsInv, docStore, OwnedRow, DocTypeOK, Root
  <2> QED
    BY <2>1, <2>3, <2>4 DEF docStore
<1> QED
  BY <1>1, <1>2

LEMMA IngestSelectStep ==
  ASSUME DocInv, NEW w \in Workers, NEW u \in Users, NEW i \in Ids, NEW f \in Files,
         IngestSelect(w, u, i, f)
  PROVE  DocInv'
<1> USE DocumentAssumption DEF DocInv, DocGoto
<1> DEFINE others == Ingesting([user |-> u, root |-> i, file |-> f])
           q == [DocIdle(u, i, f) EXCEPT !.kind = "ingest", !.row = OwnedRow(u, i),
                                         !.start = file[f], !.alone = others = {}]
<1>1. /\ UNCHANGED <<docStore, solo>>
      /\ request' = [v \in Workers |-> IF v = w THEN q
                       ELSE IF v \in others THEN [request[v] EXCEPT !.alone = FALSE] ELSE request[v]]
      /\ serving' = [serving EXCEPT ![w] = "extract"]
  BY DEF IngestSelect
<1>2. q \in DocRequest /\ q.start = file[f] /\ q.file = f /\ file[f] \in 0 .. MaxVersion
  <2> DEFINE alone == others = {}
  <2>1. OwnedRow(u, i) \in Root \cup {NoRow} /\ file[f] \in 0 .. MaxVersion
    BY DEF OwnedRow, DocTypeOK
  <2>2. alone \in BOOLEAN /\ file[f] \in Nat
    BY <2>1
  <2>3. q = [DocIdle(u, i, f) EXCEPT !.kind = "ingest", !.row = OwnedRow(u, i),
                                     !.start = file[f], !.alone = alone]
    OBVIOUS
  <2> HIDE DEF DocInv, alone, q
  <2> QED
    BY <2>1, <2>2, <2>3 DEF DocRequest, DocIdle, NoRoots
<1> HIDE DEF q
<1>3. ASSUME NEW v \in Workers \ {w}
      PROVE  /\ request'[v] \in DocRequest /\ serving'[v] = serving[v]
             /\ request'[v].file = request[v].file /\ request'[v].start = request[v].start
             /\ request'[v].text = request[v].text /\ request'[v].row = request[v].row
             /\ request'[v].user = request[v].user /\ request'[v].root = request[v].root
  <2>1. request[v] \in DocRequest
    BY DEF DocTypeOK
  <2>2. request'[v] = request[v] \/ request'[v] = [request[v] EXCEPT !.alone = FALSE]
    BY <1>1
  <2>3. serving'[v] = serving[v]
    BY <1>1
  <2> HIDE DEF DocInv
  <2> QED
    BY <2>1, <2>2, <2>3 DEF DocRequest
<1>4. request' \in [Workers -> DocRequest]
  BY <1>1, <1>2, <1>3
<1>5. DocTypeOK' /\ IndexAgrees' /\ DocumentsHaveRoots' /\ AloneIsFresh'
  BY <1>1, <1>4 DEF DocTypeOK, docStore, IndexAgrees, DocumentsHaveRoots, AloneIsFresh
<1>6. ASSUME NEW v \in Workers PROVE HoldsInv(v)'
  <2>1. CASE v = w
    BY <1>1, <1>2, <2>1 DEF HoldsInv, docStore, DocTypeOK
  <2>2. CASE v # w
    BY <1>1, <1>3, <2>2 DEF HoldsInv, docStore
  <2> QED
    BY <2>1, <2>2
<1> QED
  BY <1>1, <1>5, <1>6 DEF docStore

LEMMA ExtractStep == ASSUME DocInv, NEW w \in Workers, Extract(w) PROVE DocInv'
<1> USE DocumentAssumption DEF DocInv, DocGoto
<1>1. PICK text \in {Extracted(w), NoRow} : request' = [request EXCEPT ![w].text = text]
  BY DEF Extract
<1>2. /\ serving[w] = "extract" /\ serving' = [serving EXCEPT ![w] = "store"]
      /\ UNCHANGED <<docStore, solo>>
  BY DEF Extract
<1>3. /\ request[w] \in DocRequest /\ request[w].file \in Files
      /\ Extracted(w) \in 0 .. MaxVersion
  BY DEF DocTypeOK, DocRequest, Extracted
<1>4. /\ request'[w] \in DocRequest /\ request'[w].text = text
      /\ request'[w].start = request[w].start
  <2>1. request'[w] = [request[w] EXCEPT !.text = text] /\ text \in Nat \cup {NoRow}
    BY <1>1, <1>3 DEF DocTypeOK
  <2> HIDE DEF DocInv
  <2> QED
    BY <1>3, <2>1 DEF DocRequest
<1>5. request' \in [Workers -> DocRequest]
  BY <1>1, <1>4 DEF DocTypeOK
<1>6. DocTypeOK' /\ IndexAgrees' /\ DocumentsHaveRoots' /\ AloneIsFresh'
  BY <1>2, <1>5 DEF DocTypeOK, docStore, IndexAgrees, DocumentsHaveRoots, AloneIsFresh
<1>7. ASSUME NEW v \in Workers PROVE HoldsInv(v)'
  <2>1. CASE v = w
    BY <1>1, <1>2, <1>3, <1>4, <2>1 DEF HoldsInv, docStore, Extracted
  <2>2. CASE v # w
    BY <1>1, <1>2, <2>2 DEF HoldsInv, docStore
  <2> QED
    BY <2>1, <2>2
<1> QED
  BY <1>2, <1>6, <1>7 DEF docStore

LEMMA StoreStep == ASSUME DocInv, NEW w \in Workers, Store(w) PROVE DocInv'
<1> USE DocumentAssumption, NoRequestTyped DEF DocInv, DocGoto, DocGoes, DocEnds
<1> DEFINE k == KeyOf(w)
           v == request[w].text
           bad == v = NoRow
           d == [status |-> IF bad THEN "failed" ELSE "extracted", text |-> IF bad THEN 0 ELSE v]
<1>1. CASE roots[k.root] = NoRow
  <2>1. /\ serving' = [serving EXCEPT ![w] = "new"]
        /\ request' = [request EXCEPT ![w] = NoRequest]
        /\ UNCHANGED <<dirs, file, roots, adds, docs, index, solo>>
    BY <1>1 DEF Store
  <2> QED
    BY <2>1 DEF DocTypeOK, IndexAgrees, DocumentsHaveRoots, AloneIsFresh, HoldsInv
<1>2. CASE roots[k.root] # NoRow
  <2>1. /\ docs' = [docs EXCEPT ![k] = d]
        /\ index' = [index EXCEPT ![k] = IF d.status = "extracted" THEN d.text ELSE NoRow]
        /\ solo' = [solo EXCEPT ![k] = IF request[w].alone /\ ~ bad THEN request[w].start ELSE 0]
        /\ UNCHANGED <<dirs, file, roots, adds>>
        /\ serving[w] = "store" /\ serving' = [serving EXCEPT ![w] = "new"]
        /\ request' = [request EXCEPT ![w] = NoRequest]
    BY <1>2 DEF Store, UpsertRow, IndexRow
  <2>2. /\ k \in Keys /\ (bad \/ v \in 0 .. MaxVersion) /\ (bad \/ v >= request[w].start)
        /\ request[w].start \in 0 .. MaxVersion
    BY <2>1 DEF HoldsInv, KeyOf, Keys, DocTypeOK, DocRequest
  <2>3. /\ d \in Doc /\ d # NoRow
        /\ (IF d.status = "extracted" THEN d.text ELSE NoRow) \in (0 .. MaxVersion) \cup {NoRow}
    BY <2>2, NoRowAssumption DEF Doc
  <2>4. /\ d.status = "extracted" => d.text = v /\ ~ bad
        /\ ~ bad => d.status = "extracted"
    OBVIOUS
  <2> HIDE DEF k, d, v, bad
  <2>5. DocTypeOK'
    BY <2>1, <2>2, <2>3 DEF DocTypeOK
  <2>6. IndexAgrees' /\ DocumentsHaveRoots'
    BY <1>2, <2>1, <2>2, <2>3 DEF DocTypeOK, IndexAgrees, DocumentsHaveRoots
  <2>7. AloneIsFresh'
    BY <2>1, <2>2, <2>4 DEF DocTypeOK, AloneIsFresh
  <2>8. ASSUME NEW x \in Workers PROVE HoldsInv(x)'
    BY <2>1 DEF HoldsInv, DocTypeOK
  <2> QED
    BY <2>1, <2>5, <2>6, <2>7, <2>8
<1> QED
  BY <1>1, <1>2

\* A search, a retrieval and a read hold roots and documents, and change none.
LEMMA ServeStep ==
  ASSUME DocInv, NEW w \in Workers,
         \/ LookUp(w) \/ CheckFile(w) \/ Serve(w)
         \/ \E u \in Users, kind \in {"search", "retrieve"} : SearchSelect(w, u, kind)
         \/ \E u \in Users, k \in Keys : ReadSelect(w, u, k)
  PROVE  DocInv'
<1> USE DEF DocGoto, DocGoes, DocEnds
<1> DEFINE Goes(q) == /\ q \in DocRequest /\ request' = [request EXCEPT ![w] = q]
                      /\ \E s \in {"new", "next", "check"} : serving' = [serving EXCEPT ![w] = s]
                      /\ UNCHANGED <<docStore, solo>>
<1>0. request[w] \in DocRequest /\ roots \in [Ids -> Root \cup {NoRow}]
  BY DEF DocInv, DocTypeOK
<1>1. ASSUME NEW q, Goes(q) PROVE DocInv'
  <2>1. DocTypeOK' /\ IndexAgrees' /\ DocumentsHaveRoots' /\ AloneIsFresh'
    BY <1>1 DEF DocInv, docStore, DocTypeOK, IndexAgrees, DocumentsHaveRoots, AloneIsFresh
  <2>2. ASSUME NEW v \in Workers PROVE HoldsInv(v)'
    BY <1>1 DEF DocInv, docStore, HoldsInv
  <2> QED
    BY <1>1, <2>1, <2>2 DEF DocInv, docStore
<1>2. ASSUME NEW u \in Users, NEW kind \in {"search", "retrieve"}, SearchSelect(w, u, kind)
      PROVE  DocInv'
  <2> DEFINE hits == {k \in Keys : Joined(u, k) /\ index[k] # NoRow}
             seen == IF kind = "retrieve" THEN roots ELSE NoRoots
             q == [DocIdle(u, request[w].root, request[w].file) EXCEPT
                     !.kind = kind, !.seen = seen, !.hits = hits]
  <2>1. q \in DocRequest
    <3>1. /\ request[w].root \in Ids /\ request[w].file \in Files /\ hits \subseteq Keys
          /\ seen \in [Ids -> Root \cup {NoRow}]
      BY <1>0 DEF DocRequest, NoRoots
    <3> HIDE DEF hits, seen
    <3> QED
      BY <3>1 DEF DocRequest, DocIdle, NoRoots
  <2>2. Goes(q)
    BY <1>2, <2>1 DEF SearchSelect
  <2> HIDE DEF q, Goes
  <2> QED
    BY <1>1, <2>2
<1>3. ASSUME NEW u \in Users, NEW k \in Keys, ReadSelect(w, u, k) PROVE DocInv'
  <2> DEFINE q == [DocIdle(u, k.root, k.file) EXCEPT !.row = roots[k.root]]
  <2>1. q \in DocRequest
    BY <1>0 DEF DocRequest, DocIdle, NoRoots, Keys
  <2>2. Goes(q)
    BY <1>3, <2>1 DEF ReadSelect
  <2> HIDE DEF q, Goes
  <2> QED
    BY <1>1, <2>2
<1>4. CASE LookUp(w)
  <2>1. PICK k \in request[w].hits :
          LET again == request[w].kind = "search" IN
          DocGoes(w, [request[w] EXCEPT !.root = k.root, !.file = k.file, !.hits = @ \ {k},
                                        !.row = (IF again THEN roots ELSE request[w].seen)[k.root]],
                  IF again /\ ~ Joined(request[w].user, k) THEN "next" ELSE "check")
    BY <1>4 DEF LookUp
  <2> DEFINE row == (IF request[w].kind = "search" THEN roots ELSE request[w].seen)[k.root]
             q == [request[w] EXCEPT !.root = k.root, !.file = k.file, !.hits = @ \ {k}, !.row = row]
  <2>2. k \in Keys /\ k.root \in Ids /\ k.file \in Files /\ row \in Root \cup {NoRow}
    BY <1>0 DEF DocRequest, Keys
  <2>3. q \in DocRequest
    <3> HIDE DEF row
    <3> QED
      BY <1>0, <2>2 DEF DocRequest
  <2>4. Goes(q)
    BY <1>4, <2>1, <2>3 DEF LookUp
  <2> HIDE DEF q, Goes
  <2> QED
    BY <1>1, <2>4
<1>5. CASE CheckFile(w)
  <2> DEFINE set == IF Contained(request[w].row, request[w].file)
                    THEN request[w].passed \cup {KeyOf(w)} ELSE request[w].passed
             q == [request[w] EXCEPT !.passed = set, !.row = NoRow]
  <2>1. set \subseteq Keys
    BY <1>0 DEF DocRequest, KeyOf, Keys
  <2>2. q \in DocRequest
    <3> HIDE DEF set
    <3> QED
      BY <1>0, <2>1 DEF DocRequest
  <2>3. Goes(q)
    BY <1>5, <2>2 DEF CheckFile
  <2> HIDE DEF q, Goes
  <2> QED
    BY <1>1, <2>3
<1>6. CASE Serve(w)
  <2>1. Goes(NoRequest)
    BY <1>6, NoRequestTyped DEF Serve
  <2> HIDE DEF Goes
  <2> QED
    BY <1>1, <2>1
<1> QED
  BY <1>2, <1>3, <1>4, <1>5, <1>6

LEMMA RemoveDirectoryStep == ASSUME DocInv, NEW p \in Paths, RemoveDirectory(p) PROVE DocInv'
  BY DEF RemoveDirectory, DocInv, DocTypeOK, IndexAgrees, DocumentsHaveRoots, AloneIsFresh, HoldsInv

LEMMA DocInvStep == DocInv /\ [DocNext]_docVars => DocInv'
<1>1. ASSUME DocInv, UNCHANGED docVars PROVE DocInv'
  BY <1>1 DEF docVars, DocInv, DocTypeOK, IndexAgrees, DocumentsHaveRoots, AloneIsFresh, HoldsInv
<1> QED
  BY <1>1, ChangeFileStep, AddRootStep, RemoveStep, IngestSelectStep, ExtractStep, StoreStep,
     ServeStep, RemoveDirectoryStep
     DEF DocNext

LEMMA DocInitInv == DocInit => DocInv
<1> SUFFICES ASSUME DocInit PROVE DocInv
  OBVIOUS
<1>1. DocTypeOK
  BY NoRequestTyped, DocumentAssumption DEF DocInit, DocTypeOK, NoRoots
<1> QED
  BY <1>1 DEF DocInit, DocInv, NoRoots, IndexAgrees, DocumentsHaveRoots, AloneIsFresh, HoldsInv

\* A document that is joined with its root stays so, and the root stays what it is: documents do
\* not vanish, their foreign key keeps the root, and a new root gets an id that is free.
LEMMA JoinedStays ==
  ASSUME DocInv, [DocNext]_docVars, NEW u \in Users, NEW k \in Keys, Joined(u, k)
  PROVE  Joined(u, k)' /\ roots'[k.root] = roots[k.root]
<1> USE DEF docStore, DocGoto, DocGoes, DocEnds
<1>1. /\ k.root \in Ids /\ docs[k] # NoRow /\ Referenced(k.root) /\ DocTypeOK
      /\ k.root \in PresentRoots
  BY DEF Joined, Keys, Referenced, DocInv, PresentRoots
<1>2. ASSUME docs'[k] # NoRow, roots'[k.root] = roots[k.root] PROVE Joined(u, k)'
  BY <1>2 DEF Joined
<1>3. ASSUME NEW v \in Users, NEW p \in Paths, AddRoot(v, p)
      PROVE  docs'[k] # NoRow /\ roots'[k.root] = roots[k.root]
  <2>1. NextRootId # k.root
    BY <1>1, PresentIsBelow DEF NextRootId
  <2> QED
    BY <1>1, <1>3, <2>1 DEF AddRoot, DocTypeOK
<1>4. ASSUME NEW w \in Workers, RemoveDelete(w)
      PROVE  docs'[k] # NoRow /\ roots'[k.root] = roots[k.root]
  BY <1>1, <1>4 DEF RemoveDelete, DeleteRoot, DocTypeOK
<1>5. ASSUME NEW w \in Workers, Store(w)
      PROVE  docs'[k] # NoRow /\ roots'[k.root] = roots[k.root]
  <2> DEFINE d == [status |-> IF request[w].text = NoRow THEN "failed" ELSE "extracted",
                   text |-> IF request[w].text = NoRow THEN 0 ELSE request[w].text]
  <2>1. docs' = docs \/ docs' = [docs EXCEPT ![KeyOf(w)] = d]
    BY <1>5 DEF Store, UpsertRow
  <2>2. d # NoRow
    <3>1. CASE request[w].text = NoRow
      BY <3>1, NoRowAssumption DEF Doc
    <3>2. CASE request[w].text # NoRow
      BY <3>2, NoRowAssumption, <1>1 DEF Doc, DocTypeOK, DocRequest
    <3> QED
      BY <3>1, <3>2
  <2> HIDE DEF d
  <2> QED
    BY <1>1, <1>5, <2>1, <2>2 DEF Store, DocTypeOK
<1>6. ASSUME UNCHANGED <<docs, roots>> PROVE docs'[k] # NoRow /\ roots'[k.root] = roots[k.root]
  BY <1>1, <1>6
<1>7. ASSUME NEW w \in Workers,
             \/ Extract(w) \/ LookUp(w) \/ CheckFile(w) \/ Serve(w)
             \/ \E v \in Users, i \in Ids : RemoveSelect(w, v, i)
             \/ \E v \in Users, i \in Ids, f \in Files : IngestSelect(w, v, i, f)
             \/ \E v \in Users, kind \in {"search", "retrieve"} : SearchSelect(w, v, kind)
             \/ \E v \in Users, j \in Keys : ReadSelect(w, v, j)
      PROVE  UNCHANGED <<docs, roots>>
  BY <1>7 DEF Extract, LookUp, CheckFile, Serve, RemoveSelect, IngestSelect, SearchSelect,
              ReadSelect
<1>8. CASE \/ \E f \in Files : ChangeFile(f)
           \/ \E p \in Paths : RemoveDirectory(p)
           \/ UNCHANGED docVars
  <2>1. UNCHANGED <<docs, roots>>
    BY <1>8 DEF ChangeFile, RemoveDirectory, docVars
  <2> QED
    BY <1>2, <1>6, <2>1
<1> QED
  BY <1>2, <1>3, <1>4, <1>5, <1>6, <1>7, <1>8 DEF DocNext

\* What a request has collected: its hits, the document it is about to check with the root found
\* for it, and what has passed under that root.
GatherInv(w) ==
  serving[w] \in {"next", "check"} =>
    /\ request[w].kind \in {"search", "retrieve"}
    /\ \A k \in request[w].hits :
         /\ Joined(request[w].user, k)
         /\ request[w].kind = "retrieve" => request[w].seen[k.root] = roots[k.root]
    /\ \A k \in request[w].passed :
         Joined(request[w].user, k) /\ roots[k.root].path \in In[k.file]
    /\ serving[w] = "check" =>
         /\ Joined(request[w].user, KeyOf(w))
         /\ request[w].row = roots[request[w].root]

LEMMA GatherStays ==
  ASSUME DocInv, [DocNext]_docVars, NEW w \in Workers, GatherInv(w),
         request'[w] = request[w] \/ request'[w] = [request[w] EXCEPT !.alone = FALSE],
         serving'[w] = serving[w]
  PROVE  GatherInv(w)'
<1> SUFFICES ASSUME serving[w] \in {"next", "check"} PROVE GatherInv(w)'
  BY DEF GatherInv
<1>1. request[w] \in DocRequest /\ KeyOf(w) \in Keys /\ KeyOf(w).root = request[w].root
  BY DEF DocInv, DocTypeOK, DocRequest, KeyOf, Keys
<1>2. /\ request'[w].user = request[w].user /\ request'[w].hits = request[w].hits
      /\ request'[w].passed = request[w].passed /\ request'[w].kind = request[w].kind
      /\ request'[w].seen = request[w].seen /\ request'[w].row = request[w].row
      /\ request'[w].root = request[w].root /\ request'[w].file = request[w].file
  BY <1>1 DEF DocRequest
<1>3. /\ request[w].user \in Users /\ request[w].hits \subseteq Keys
      /\ request[w].passed \subseteq Keys
  BY <1>1 DEF DocRequest
<1>4. KeyOf(w)' = KeyOf(w)
  BY <1>2 DEF KeyOf
<1>5. PICK u \in Users : u = request[w].user
  BY <1>3
<1>6. \A k \in Keys : Joined(u, k) => Joined(u, k)' /\ roots'[k.root] = roots[k.root]
  BY JoinedStays
<1> QED
  BY <1>1, <1>2, <1>3, <1>4, <1>5, <1>6 DEF GatherInv, Joined

LEMMA GatherStep ==
  ASSUME DocInv, \A w \in Workers : GatherInv(w), [DocNext]_docVars
  PROVE  \A w \in Workers : GatherInv(w)'
<1> USE DEF DocGoto, DocGoes, DocEnds
<1> SUFFICES ASSUME NEW w \in Workers PROVE GatherInv(w)'
  OBVIOUS
<1>0. request \in [Workers -> DocRequest] /\ DOMAIN serving = Workers /\ request[w] \in DocRequest
  BY DEF DocInv, DocTypeOK
<1>1. ASSUME serving' = serving, request' = request PROVE GatherInv(w)'
  BY <1>1, GatherStays
<1>2. ASSUME NEW v \in Workers, v # w, NEW q, NEW s, DocGoes(v, q, s) PROVE GatherInv(w)'
  BY <1>0, <1>2, GatherStays
<1>3. ASSUME NEW q, NEW s, DocGoes(w, q, s), s \notin {"next", "check"} PROVE GatherInv(w)'
  BY <1>0, <1>3 DEF GatherInv
<1>4. ASSUME NEW v \in Workers, NEW u \in Users, NEW i \in Ids, NEW f \in Files,
             IngestSelect(v, u, i, f)
      PROVE  GatherInv(w)'
  <2>1. CASE v = w
    BY <1>0, <1>4, <2>1 DEF IngestSelect, GatherInv
  <2>2. CASE v # w
    <3>1. request'[w] = request[w] \/ request'[w] = [request[w] EXCEPT !.alone = FALSE]
      BY <1>0, <1>4, <2>2 DEF IngestSelect
    <3>2. serving'[w] = serving[w]
      BY <1>0, <1>4, <2>2 DEF IngestSelect
    <3> QED
      BY <3>1, <3>2, GatherStays
  <2> QED
    BY <2>1, <2>2
<1>5. ASSUME NEW v \in Workers, Extract(v) PROVE GatherInv(w)'
  <2>1. CASE v = w
    BY <1>0, <1>5, <2>1 DEF Extract, GatherInv
  <2>2. CASE v # w
    BY <1>0, <1>5, <2>2, GatherStays DEF Extract
  <2> QED
    BY <2>1, <2>2
<1>6. ASSUME NEW v \in Workers,
             \/ RemoveDelete(v) \/ Store(v) \/ Serve(v)
             \/ \E u \in Users, i \in Ids : RemoveSelect(v, u, i)
      PROVE  GatherInv(w)'
  <2>1. \E q : \E s \in {"new", "remove"} : DocGoes(v, q, s)
    BY <1>6 DEF RemoveDelete, Store, Serve, RemoveSelect
  <2> QED
    BY <1>2, <1>3, <2>1
<1>7. ASSUME NEW v \in Workers, NEW u \in Users, NEW kind \in {"search", "retrieve"},
             SearchSelect(v, u, kind)
      PROVE  GatherInv(w)'
  <2> DEFINE hits == {k \in Keys : Joined(u, k) /\ index[k] # NoRow}
             seen == IF kind = "retrieve" THEN roots ELSE NoRoots
             q == [DocIdle(u, request[v].root, request[v].file) EXCEPT
                     !.kind = kind, !.seen = seen, !.hits = hits]
  <2>1. DocGoes(v, q, "next") /\ UNCHANGED <<docs, roots>>
    BY <1>7 DEF SearchSelect, docStore
  <2>2. /\ q.user = u /\ q.hits = hits /\ q.seen = seen /\ q.kind = kind /\ q.passed = {}
    BY DEF DocIdle
  <2>3. CASE v = w
    <3>1. request'[w] = q /\ serving'[w] = "next"
      BY <1>0, <2>1, <2>3
    <3> HIDE DEF q
    <3>2. ASSUME NEW k \in hits PROVE Joined(u, k)'
      BY <2>1, <3>2 DEF Joined
    <3> QED
      BY <2>1, <2>2, <3>1, <3>2 DEF GatherInv, Joined
  <2>4. CASE v # w
    <3> HIDE DEF q
    <3> QED
      BY <2>1, <2>4, <1>2
  <2> QED
    BY <2>3, <2>4
<1>8. ASSUME NEW v \in Workers, NEW u \in Users, NEW k \in Keys, ReadSelect(v, u, k)
      PROVE  GatherInv(w)'
  <2> DEFINE q == [DocIdle(u, k.root, k.file) EXCEPT !.row = roots[k.root]]
  <2>1. DocGoes(v, q, "check") /\ UNCHANGED <<docs, roots>> /\ Joined(u, k)
    BY <1>8 DEF ReadSelect, docStore
  <2>2. /\ q.user = u /\ q.hits = {} /\ q.row = roots[k.root] /\ q.root = k.root
        /\ q.file = k.file /\ q.passed = {} /\ q.kind = "search"
    BY DEF DocIdle
  <2>3. k = [user |-> u, root |-> k.root, file |-> k.file]
    BY <2>1 DEF Joined, Keys
  <2>4. CASE v = w
    <3>1. request'[w] = q /\ serving'[w] = "check"
      BY <1>0, <2>1, <2>4
    <3> HIDE DEF q
    <3>2. KeyOf(w)' = k
      BY <2>2, <2>3, <3>1 DEF KeyOf
    <3>3. Joined(u, k)'
      BY <2>1 DEF Joined
    <3> QED
      BY <2>1, <2>2, <3>1, <3>2, <3>3 DEF GatherInv, Joined
  <2>5. CASE v # w
    <3> HIDE DEF q
    <3> QED
      BY <2>1, <2>5, <1>2
  <2> QED
    BY <2>4, <2>5
<1>9. ASSUME NEW v \in Workers, LookUp(v) PROVE GatherInv(w)'
  <2>1. PICK k \in request[v].hits :
          LET again == request[v].kind = "search" IN
          DocGoes(v, [request[v] EXCEPT !.root = k.root, !.file = k.file, !.hits = @ \ {k},
                                        !.row = (IF again THEN roots ELSE request[v].seen)[k.root]],
                  IF again /\ ~ Joined(request[v].user, k) THEN "next" ELSE "check")
    BY <1>9 DEF LookUp
  <2> DEFINE again == request[v].kind = "search"
             q == [request[v] EXCEPT !.root = k.root, !.file = k.file, !.hits = @ \ {k},
                                     !.row = (IF again THEN roots ELSE request[v].seen)[k.root]]
             s == IF again /\ ~ Joined(request[v].user, k) THEN "next" ELSE "check"
  <2>2. DocGoes(v, q, s) /\ UNCHANGED <<docs, roots>> /\ serving[v] = "next"
    BY <1>9, <2>1 DEF LookUp, docStore
  <2>3. CASE v = w
    <3>0. request[w] \in DocRequest /\ k \in Keys /\ request[w].hits \subseteq Keys
      BY <1>0, <2>3 DEF DocRequest
    <3>1. /\ q.user = request[w].user /\ q.hits = request[w].hits \ {k} /\ q.root = k.root
          /\ q.file = k.file /\ q.passed = request[w].passed /\ q.kind = request[w].kind
          /\ q.seen = request[w].seen
          /\ q.row = (IF again THEN roots ELSE request[v].seen)[k.root]
      BY <3>0, <2>3 DEF DocRequest
    <3>2. Joined(request[w].user, k)
      BY <2>2, <2>3 DEF GatherInv
    <3>2a. ~ again => request[w].seen[k.root] = roots[k.root]
      BY <2>2, <2>3 DEF GatherInv
    <3>3. request'[w] = q /\ serving'[w] = "check"
      BY <1>0, <2>2, <2>3, <3>2
    <3>4. q.row = roots[k.root]
      BY <2>3, <3>1, <3>2a
    <3> HIDE DEF q, again, s
    <3>5. KeyOf(w)' = k
      BY <3>0, <3>1, <3>2, <3>3 DEF KeyOf, Joined, Keys
    <3> QED
      BY <2>2, <2>3, <3>0, <3>1, <3>2, <3>3, <3>4, <3>5 DEF GatherInv, Joined
  <2>4. CASE v # w
    <3> HIDE DEF q, s
    <3> QED
      BY <2>2, <2>4, <1>2
  <2> QED
    BY <2>3, <2>4
<1>10. ASSUME NEW v \in Workers, CheckFile(v) PROVE GatherInv(w)'
  <2> DEFINE passes == Contained(request[v].row, request[v].file)
             set == IF passes THEN request[v].passed \cup {KeyOf(v)} ELSE request[v].passed
             q == [request[v] EXCEPT !.passed = set, !.row = NoRow]
  <2>1. DocGoes(v, q, "next") /\ UNCHANGED <<docs, roots>> /\ serving[v] = "check"
    BY <1>10 DEF CheckFile, docStore
  <2>2. CASE v = w
    <3>1. /\ q.user = request[w].user /\ q.hits = request[w].hits /\ q.passed = set
          /\ q.kind = request[w].kind /\ q.seen = request[w].seen
      BY <1>0, <2>2 DEF DocRequest
    <3>2. request'[w] = q /\ serving'[w] = "next"
      BY <1>0, <2>1, <2>2
    <3>3. \A k \in set : Joined(request[w].user, k) /\ roots[k.root].path \in In[k.file]
      <4>1. /\ Joined(request[w].user, KeyOf(w)) /\ request[w].row = roots[request[w].root]
            /\ \A k \in request[w].passed :
                 Joined(request[w].user, k) /\ roots[k.root].path \in In[k.file]
        BY <2>1, <2>2 DEF GatherInv
      <4>2. passes => roots[KeyOf(w).root].path \in In[KeyOf(w).file]
        BY <2>2, <4>1 DEF Contained, KeyOf
      <4> HIDE DEF passes
      <4> QED
        BY <2>2, <4>1, <4>2
    <3> HIDE DEF set, q
    <3> QED
      BY <2>1, <2>2, <3>1, <3>2, <3>3 DEF GatherInv, Joined
  <2>3. CASE v # w
    <3> HIDE DEF q
    <3> QED
      BY <2>1, <2>3, <1>2
  <2> QED
    BY <2>2, <2>3
<1>11. CASE \/ \E f \in Files : ChangeFile(f)
            \/ \E p \in Paths : RemoveDirectory(p)
            \/ \E u \in Users, p \in Paths : AddRoot(u, p)
            \/ UNCHANGED docVars
  BY <1>1, <1>11 DEF ChangeFile, RemoveDirectory, AddRoot, docVars
<1> QED
  BY <1>4, <1>5, <1>6, <1>7, <1>8, <1>9, <1>10, <1>11 DEF DocNext

\* What is served at a step has passed under a root that is still the one its document names.
LEMMA ServedStep ==
  ASSUME DocInv, \A w \in Workers : GatherInv(w), [DocNext]_docVars
  PROVE  ServedIsApproved
<1> SUFFICES ASSUME NEW w \in Workers, serving[w] = "next", NEW k \in request[w].passed
             PROVE  Approved(k)
  BY DEF ServedIsApproved
<1>1. k \in Keys /\ Joined(request[w].user, k) /\ roots[k.root].path \in In[k.file]
  BY DEF GatherInv, DocInv, DocTypeOK, DocRequest
<1>2. k.root \in Ids
  BY <1>1 DEF Keys
<1> QED
  BY <1>1, <1>2 DEF Joined, Approved

\* A root is removed by a request that saw it, or saw an older root of its user with its id.
LEMMA RemovesStep == DocInv /\ [DocNext]_docVars => RemovesWhatItSaw
<1> SUFFICES ASSUME DocInv, DocNext, NEW i \in Ids, roots[i] # NoRow, roots'[i] = NoRow
             PROVE  \E w \in Workers : /\ serving[w] = "remove" /\ request[w].root = i
                                       /\ roots[i].user = request[w].user
                                          \/ roots[i].since > request[w].row.since
  BY DEF RemovesWhatItSaw, docVars
<1>1. ASSUME NEW w \in Workers, RemoveDelete(w)
      PROVE  /\ serving[w] = "remove" /\ request[w].root = i
             /\ roots[i].user = request[w].user \/ roots[i].since > request[w].row.since
  BY <1>1 DEF RemoveDelete, DeleteRoot, DocInv, DocTypeOK, HoldsInv
<1>2. ASSUME NEW u \in Users, NEW p \in Paths, AddRoot(u, p) PROVE FALSE
  BY <1>2, NoRowAssumption DEF AddRoot, DocInv, DocTypeOK, Root
<1>3. ASSUME roots' = roots PROVE FALSE
  BY <1>3
<1>4. ASSUME NEW w \in Workers,
             \/ Extract(w) \/ Store(w) \/ LookUp(w) \/ CheckFile(w) \/ Serve(w)
             \/ \E u \in Users, kind \in {"search", "retrieve"} : SearchSelect(w, u, kind)
             \/ \E u \in Users, k \in Keys : ReadSelect(w, u, k)
             \/ \E u \in Users, j \in Ids : RemoveSelect(w, u, j)
             \/ \E u \in Users, j \in Ids, f \in Files : IngestSelect(w, u, j, f)
      PROVE  FALSE
  BY <1>3, <1>4
     DEF Extract, Store, LookUp, CheckFile, Serve, SearchSelect, ReadSelect, RemoveSelect,
         IngestSelect, docStore
<1>5. CASE \/ \E f \in Files : ChangeFile(f)
           \/ \E p \in Paths : RemoveDirectory(p)
  BY <1>3, <1>5 DEF ChangeFile, RemoveDirectory
<1> QED
  BY <1>1, <1>2, <1>4, <1>5 DEF DocNext

-----------------------------------------------------------------------------
(* The assistant.                                                            *)

AssistantInv ==
  MemInv /\ DocInv /\ OAuthInv /\ VaultInv /\ \A w \in Workers : GatherInv(w)

LEMMA AssistantInvStep ==
  AssistantInv /\ [AssistantNext]_<<store, convVars, memVars, docVars, oauthVars, vaultVars>>
    => AssistantInv'
<1> SUFFICES ASSUME AssistantInv,
                    [AssistantNext]_<<store, convVars, memVars, docVars, oauthVars, vaultVars>>
             PROVE  AssistantInv'
  OBVIOUS
<1>1. MemInv' /\ DocInv' /\ OAuthInv' /\ VaultInv'
  BY MemInvStep, DocInvStep, OAuthInvStep, VaultInvStep DEF AssistantInv, AssistantNext
<1>2. [DocNext]_docVars
  BY DEF AssistantNext
<1>3. \A w \in Workers : GatherInv(w)'
  BY <1>2, GatherStep DEF AssistantInv
<1> QED
  BY <1>1, <1>3 DEF AssistantInv

LEMMA AssistantInvariance == AssistantSpec => []AssistantInv
<1>1. DocInit => \A w \in Workers : GatherInv(w)
  BY DEF DocInit, GatherInv
<1>2. AssistantInit => AssistantInv
  BY <1>1, MemInitInv, DocInitInv, OAuthInitInv, VaultInitInv DEF AssistantInit, AssistantInv
<1> QED
  BY <1>2, AssistantInvStep, PTL DEF AssistantSpec

\* No request changes a field of a memory that it does not name, or removes a root that is not
\* the one it saw; and every document a search, a retrieval or a read answers with is under a
\* root its owner has approved at the moment of the answer, although each was looked up and
\* checked earlier, at a time of its own: for any number of workers, users, roots and documents,
\* and however ids are given again.
THEOREM RequestsAreHonest == AssistantSpec => RequestSteps
<1>1. AssistantInv /\ [AssistantNext]_<<store, convVars, memVars, docVars, oauthVars, vaultVars>>
        => [/\ store = "memories" => OtherFieldsKept
            /\ store = "documents" => ServedIsApproved /\ RemovesWhatItSaw
           ]_<<store, convVars, memVars, docVars, oauthVars, vaultVars>>
  BY FieldsStep, ServedStep, RemovesStep DEF AssistantInv, AssistantNext
<1> QED
  BY <1>1, AssistantInvariance, PTL DEF AssistantSpec, RequestSteps

\* Memories stay within their limit but for requests at the same time, and what a prompt takes
\* of them always fits; the index says what the table says, every document has a root, an
\* ingestion alone stores what it read; an accepted OAuth state was issued and is spent; no
\* stored credential is lost but by two writers: for any number of each.
THEOREM StoresAreKept == AssistantSpec => []StoresKept
<1>1. AssistantInv => StoresKept
  BY ContextAlwaysFits, MemoryAssumption
     DEF AssistantInv, StoresKept, MemInv, DocInv, OAuthInv, VaultInv
<1> QED
  BY <1>1, AssistantInvariance, PTL
=============================================================================
