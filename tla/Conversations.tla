---------------------------- MODULE Conversations ----------------------------
(***************************************************************************)
(* Conversations of one user (yoma/app.py 874-1015): the question of a     *)
(* request is committed, the assistant is asked outside any transaction,   *)
(* and the answer is inserted by a second transaction.  Each SELECT and    *)
(* each transaction is a step, so that requests to one conversation, and   *)
(* its deletion, interleave as they do in the worker threads.  A           *)
(* conversation of another user is, to owned_conversation(), absent.       *)
(* What the documents and the memories add to the prompt is external here: *)
(* they can only make it too long (see UserMemories, WorkspaceDocuments).  *)
(***************************************************************************)
EXTENDS Integers, FiniteSets, SequencesExt

CONSTANTS
  Convs,          \* conversation ids
  Requests,       \* POST .../messages requests, each served once
  Lengths,        \* lengths of questions and answers, in characters
  MaxMessages,    \* max_messages_per_conversation
  MaxHistory,     \* max_conversation_history_messages
  HistoryChars,   \* max_conversation_history_chars
  QueryChars      \* max_query_length

ASSUME ConversationAssumption ==
  /\ IsFiniteSet(Requests)
  /\ Lengths \subseteq Nat
  /\ MaxMessages \in Nat \ {0} /\ MaxHistory \in Nat \ {0}
  /\ HistoryChars \in Nat /\ QueryChars \in Nat

VARIABLES
  conv,     \* conversations: "absent", "live" or "deleted"
  msgs,     \* messages of a conversation by id
  asking,       \* where a request is
  question,    \* its conversation, its question's length, the history and answer it holds
  answered,  \* the status a request was answered with, "none" before
  egress    \* external_ai_egress_enabled, or a provider that needs none

convVars == <<conv, msgs, asking, question, answered, egress>>

Message == [role : {"user", "assistant"}, length : Nat, by : Requests]

AskPoints == {"new", "owned", "count", "history", "insert", "query", "context", "provider",
           "owned2", "count2", "insert2", "reread", "done"}
AskOutcomes == {"none", "200", "400", "404", "413", "500", "503"}

Question == [conv : Convs, length : Nat, history : Seq(Message), answer : Nat]

ConvInit ==
  /\ conv = [c \in Convs |-> "absent"]
  /\ msgs = [c \in Convs |-> <<>>]
  /\ asking = [r \in Requests |-> "new"]
  /\ question \in [Requests ->
                   {[conv |-> c, length |-> 0, history |-> <<>>, answer |-> 0] : c \in Convs}]
  /\ answered = [r \in Requests |-> "none"]
  /\ egress \in BOOLEAN

AskAt(r, p) == asking[r] = p
AskGoto(r, p) == asking' = [asking EXCEPT ![r] = p] /\ UNCHANGED answered
AskEnd(r, status) ==
  asking' = [asking EXCEPT ![r] = "done"] /\ answered' = [answered EXCEPT ![r] = status]

Conv(r) == question[r].conv
Live(r) == conv[Conv(r)] = "live"
Messages(r) == msgs[Conv(r)]

\* SELECT content FROM messages ... ORDER BY id DESC LIMIT n, reversed
LastOf(s, n) == SubSeq(s, IF Len(s) > n THEN Len(s) - n + 1 ELSE 1, Len(s))
Chars(s) == FoldLeft(LAMBDA n, m : n + m.length, 0, s)

-----------------------------------------------------------------------------

CreateConversation(c) ==
  /\ conv[c] = "absent"
  /\ conv' = [conv EXCEPT ![c] = "live"]
  /\ UNCHANGED <<msgs, asking, question, answered, egress>>

\* The messages go with the conversation (ON DELETE CASCADE).
DeleteConversation(c) ==
  /\ conv[c] = "live"
  /\ conv' = [conv EXCEPT ![c] = "deleted"]
  /\ msgs' = [msgs EXCEPT ![c] = <<>>]
  /\ UNCHANGED <<asking, question, answered, egress>>

\* A question: an empty or an overlong one is refused before this step.
Ask(r) ==
  /\ AskAt(r, "new")
  /\ \E n \in Lengths : question' = [question EXCEPT ![r].length = n]
  /\ AskGoto(r, "owned")
  /\ UNCHANGED <<conv, msgs, egress>>

AskOwned(r) ==
  /\ AskAt(r, "owned")
  /\ IF Live(r) THEN AskGoto(r, "count") ELSE AskEnd(r, "404")
  /\ UNCHANGED <<conv, msgs, question, egress>>

AskCount(r) ==
  /\ AskAt(r, "count")
  /\ IF Len(Messages(r)) >= MaxMessages THEN AskEnd(r, "413") ELSE AskGoto(r, "history")
  /\ UNCHANGED <<conv, msgs, question, egress>>

AskHistory(r) ==
  /\ AskAt(r, "history")
  /\ question' = [question EXCEPT ![r].history = LastOf(Messages(r), MaxHistory)]
  /\ AskGoto(r, "insert")
  /\ UNCHANGED <<conv, msgs, egress>>

\* The foreign key refuses a message of a conversation deleted meanwhile.
Add(r, role, n, next) ==
  IF Live(r)
  THEN /\ msgs' = [msgs EXCEPT ![Conv(r)] = Append(@, [role |-> role, length |-> n, by |-> r])]
       /\ AskGoto(r, next)
  ELSE AskEnd(r, "500") /\ UNCHANGED msgs

AskInsert(r) ==
  /\ AskAt(r, "insert")
  /\ Add(r, "user", question[r].length, "query")
  /\ UNCHANGED <<conv, question, egress>>

-----------------------------------------------------------------------------
(* run_assistant_query: the question stays whatever it answers.              *)

\* retrieve(): a message may be longer than a query.
Query(r) ==
  /\ AskAt(r, "query")
  /\ IF question[r].length > QueryChars THEN AskEnd(r, "400") ELSE AskGoto(r, "context")
  /\ UNCHANGED <<conv, msgs, question, egress>>

FitsHistory(h) == Len(h) <= MaxHistory /\ Chars(h) <= HistoryChars

\* assemble_context(): the excerpts of the documents may be too long as well.
Assemble(r) ==
  /\ AskAt(r, "context")
  /\ \/ FitsHistory(question[r].history) /\ AskGoto(r, "provider")
     \/ AskEnd(r, "413")
  /\ UNCHANGED <<conv, msgs, question, egress>>

\* An exception of the provider is an answer too: the empty one.
RetriedUntilGenerated(r, n) ==
  question' = [question EXCEPT ![r].answer = n] /\ AskGoto(r, IF n = 0 THEN "context" ELSE "owned2")
Generated(r, n) == question' = [question EXCEPT ![r].answer = n] /\ AskGoto(r, "owned2")

Generate(r) ==
  /\ AskAt(r, "provider")
  /\ IF ~ egress THEN AskEnd(r, "503") /\ UNCHANGED question
     ELSE \E n \in Lengths \cup {0} : Generated(r, n)
  /\ UNCHANGED <<conv, msgs, egress>>

-----------------------------------------------------------------------------

AnswerOwned(r) ==
  /\ AskAt(r, "owned2")
  /\ IF Live(r) THEN AskGoto(r, "count2") ELSE AskEnd(r, "404")
  /\ UNCHANGED <<conv, msgs, question, egress>>

DroppedQuietly(r) ==
  IF Len(Messages(r)) >= MaxMessages THEN AskEnd(r, "200") ELSE AskGoto(r, "insert2")
CountedAgain(r) ==
  IF Len(Messages(r)) >= MaxMessages THEN AskEnd(r, "413") ELSE AskGoto(r, "insert2")

\* AskAt the limit the answer is thrown away.
AnswerCount(r) ==
  /\ AskAt(r, "count2")
  /\ CountedAgain(r)
  /\ UNCHANGED <<conv, msgs, question, egress>>

\* The message is committed with the first audit record.
AnswerInsert(r) ==
  /\ AskAt(r, "insert2")
  /\ Add(r, "assistant", question[r].answer, "reread")
  /\ UNCHANGED <<conv, question, egress>>

\* conversation_detail(None) raises.
Reread(r) ==
  /\ AskAt(r, "reread")
  /\ AskEnd(r, IF Live(r) THEN "200" ELSE "500")
  /\ UNCHANGED <<conv, msgs, question, egress>>

AskStep(r) ==
  \/ AskOwned(r) \/ AskCount(r) \/ AskHistory(r) \/ AskInsert(r)
  \/ Query(r) \/ Assemble(r) \/ Generate(r)
  \/ AnswerOwned(r) \/ AnswerCount(r) \/ AnswerInsert(r) \/ Reread(r)

ConvNext ==
  \/ \E c \in Convs : CreateConversation(c) \/ DeleteConversation(c)
  \/ \E r \in Requests : Ask(r) \/ AskStep(r)

\* A worker thread serves a request to its end; nothing obliges a user to ask.
ConvSpec == ConvInit /\ [][ConvNext]_convVars /\ \A r \in Requests : WF_convVars(AskStep(r))

-----------------------------------------------------------------------------

ConvTypeOK ==
  /\ conv \in [Convs -> {"absent", "live", "deleted"}]
  /\ msgs \in [Convs -> Seq(Message)]
  /\ asking \in [Requests -> AskPoints]
  /\ question \in [Requests -> Question]
  /\ answered \in [Requests -> AskOutcomes]
  /\ egress \in BOOLEAN

Holding == {"history", "insert", "insert2"}

\* The count and the insert are separate transactions: a conversation can pass
\* max_messages_per_conversation, but only by requests that were between the two
\* at the same time, each by the one message it is about to insert.
OvershootBounded ==
  \A c \in Convs :
    Len(msgs[c]) + Cardinality({r \in Requests : Conv(r) = c /\ asking[r] \in Holding})
      <= MaxMessages + Cardinality({r \in Requests : Conv(r) = c}) - 1

\* Messages outlive their conversation in no interleaving: a question or an
\* answer that arrives after the deletion is refused by the foreign key.
DeletedIsEmpty == \A c \in Convs : conv[c] # "live" => msgs[c] = <<>>

QuestionsOf(r) ==
  {i \in DOMAIN Messages(r) :
     Messages(r)[i] = [role |-> "user", length |-> question[r].length, by |-> r]}
AnswersOf(r) ==
  {i \in DOMAIN Messages(r) : Messages(r)[i].role = "assistant" /\ Messages(r)[i].by = r}

\* A question whose answer is missing from a conversation is either still being
\* served or was answered with an error: 200 is never said of a lost answer.
LostAnswerReported ==
  \A r \in Requests : Live(r) /\ answered[r] = "200" => QuestionsOf(r) # {} /\ AnswersOf(r) # {}

\* What the provider is given as history is text of the conversation from before
\* the question, in the order of the conversation, and never the question itself.
HistoryIsPast ==
  \A r \in Requests : asking[r] \in {"query", "context", "provider"} /\ Live(r) =>
    \E q \in QuestionsOf(r), i, j \in 0 .. Len(Messages(r)) :
       j < q /\ question[r].history = SubSeq(Messages(r), i + 1, j)

\* Nothing longer than the configured history reaches the provider.
PromptBounded ==
  \A r \in Requests : asking[r] \in {"provider", "owned2"} =>
    Chars(question[r].history) <= HistoryChars /\ Len(question[r].history) <= MaxHistory

\* Every request ends with an answer or an error, whatever else is deleted,
\* rejected or failed meanwhile.
RequestsEnd == \A r \in Requests : asking[r] = "owned" ~> answered[r] # "none"
=============================================================================
