----------------------------- MODULE MCAssistant -----------------------------
(***************************************************************************)
(* The stores of the assistant, on small instances.  They share no state:  *)
(* an initial state selects the one that is explored.                      *)
(***************************************************************************)
EXTENDS Conversations, UserMemories, WorkspaceDocuments, AssistantCredentials

CONSTANTS c1, r1, r2, m1, m2, e1, e2, u1, u2, p1, p2, f1, w1, w2, k1, k2

VARIABLE store

\* f1 is under p1 only.
MCIn == [f \in Files |-> {p1}]

AssistantInit ==
  /\ store \in {"conversations", "memories", "documents", "oauth", "vault"}
  /\ ConvInit /\ MemInit /\ DocInit /\ OAuthInit /\ VaultInit
  /\ store # "conversations" => egress

AssistantNext ==
  /\ UNCHANGED store
  /\ \/ /\ store = "conversations" /\ ConvNext
        /\ UNCHANGED <<memVars, docVars, oauthVars, vaultVars>>
     \/ /\ store = "memories" /\ MemNext
        /\ UNCHANGED <<convVars, docVars, oauthVars, vaultVars>>
     \/ /\ store = "documents" /\ DocNext
        /\ UNCHANGED <<convVars, memVars, oauthVars, vaultVars>>
     \/ /\ store = "oauth" /\ OAuthNext
        /\ UNCHANGED <<convVars, memVars, docVars, vaultVars>>
     \/ /\ store = "vault" /\ VaultNext
        /\ UNCHANGED <<convVars, memVars, docVars, oauthVars>>

AssistantSpec ==
  /\ AssistantInit
  /\ [][AssistantNext]_<<store, convVars, memVars, docVars, oauthVars, vaultVars>>
  /\ \A r \in Requests : WF_convVars(store = "conversations" /\ AskStep(r))

\* Two requests to one conversation: the limit is exceeded by fewer messages than requests, a
\* deleted conversation is empty, a lost answer is reported, and a prompt holds what was before
\* its question, within its bound.
ConversationsKept ==
  store = "conversations" =>
    /\ ConvTypeOK /\ OvershootBounded /\ DeletedIsEmpty /\ LostAnswerReported
    /\ HistoryIsPast /\ PromptBounded

\* Memories and documents: the limit, what a prompt takes of them, an index that says what the
\* table says, documents with roots, an ingestion alone that stores what it read.
\* Credentials: an accepted state was issued and is spent, and no stored credential is lost
\* but by two writers at a time.
StoresKept ==
  /\ store = "memories" => MemTypeOK /\ MemoryOvershoot /\ ContextFits
  /\ store = "documents" => DocTypeOK /\ IndexAgrees /\ DocumentsHaveRoots /\ AloneIsFresh
  /\ store = "oauth" => OAuthTypeOK /\ AcceptedWasIssued /\ AcceptedIsSpent
  /\ store = "vault" => VaultTypeOK /\ VaultKeepsStored

\* What no request does: change a field it does not name, serve what was not approved at that
\* moment, remove a root that is not the one it saw.
RequestSteps ==
  [][/\ store = "memories" => OtherFieldsKept
     /\ store = "documents" => ServedIsApproved /\ RemovesWhatItSaw
    ]_<<store, convVars, memVars, docVars, oauthVars, vaultVars>>
=============================================================================
