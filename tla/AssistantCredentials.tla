------------------------ MODULE AssistantCredentials ------------------------
(***************************************************************************)
(* How the assistant gets and keeps credentials: the states of its         *)
(* authorizations, and the file of its vault.                              *)
(***************************************************************************)
EXTENDS Integers, FiniteSets

-----------------------------------------------------------------------------
(***************************************************************************)
(* The OAuth states of the assistant's integrations (yoma/app.py 549-660). *)
(* A state is issued by connect, kept in a dictionary of the process, and  *)
(* used up by the callback that brings it back.                            *)
(***************************************************************************)

CONSTANTS
  Owners,     \* users
  Lifetime,   \* 600 seconds
  MaxStates,  \* bound: states issued
  EndTime,    \* bound: the clock
  NoState     \* pop() returned None

ASSUME OAuthAssumption == Lifetime \in Nat \ {0} /\ MaxStates \in Nat /\ EndTime \in Nat

VARIABLES
  time, issued,
  pending,   \* pending_oauth_states
  grants,    \* history: the states connect issued, with their owner and time
  accepted   \* history: the callbacks that passed the check

oauthVars == <<time, issued, pending, grants, accepted>>

Pending == [token : 1 .. MaxStates, until : 0 .. EndTime + Lifetime]

OAuthInit ==
  /\ time = 0 /\ issued = 0
  /\ pending = [u \in Owners |-> NoState]
  /\ grants = {} /\ accepted = {}

OAuthTick == time < EndTime /\ time' = time + 1 /\ UNCHANGED <<issued, pending, grants, accepted>>

\* A later connect replaces the state of an earlier one.
ConnectIntegration(u) ==
  /\ issued < MaxStates
  /\ issued' = issued + 1
  /\ pending' = [pending EXCEPT ![u] = [token |-> issued', until |-> time + Lifetime]]
  /\ grants' = grants \cup {[owner |-> u, token |-> issued', at |-> time]}
  /\ UNCHANGED <<time, accepted>>

Popped(u) == [pending EXCEPT ![u] = NoState]

Matches(u, t) == pending[u].token = t /\ pending[u].until >= time

\* The state is used up by a callback that fails the check, too; the token that
\* the exchange then yields is not stored.
IntegrationCallback(u, t) ==
  /\ pending[u] # NoState
  /\ pending' = Popped(u)
  /\ accepted' = IF Matches(u, t) THEN accepted \cup {[owner |-> u, token |-> t, at |-> time]}
                 ELSE accepted
  /\ UNCHANGED <<time, issued, grants>>

DisconnectIntegration(u) ==
  /\ pending[u] # NoState
  /\ pending' = [pending EXCEPT ![u] = NoState]
  /\ UNCHANGED <<time, issued, grants, accepted>>

OAuthRestart ==
  /\ pending' = [u \in Owners |-> NoState]
  /\ UNCHANGED <<time, issued, grants, accepted>>

OAuthNext ==
  \/ OAuthTick \/ OAuthRestart
  \/ \E u \in Owners : \/ ConnectIntegration(u) \/ DisconnectIntegration(u)
                       \/ \E t \in 1 .. issued : IntegrationCallback(u, t)

OAuthSpec == OAuthInit /\ [][OAuthNext]_oauthVars

-----------------------------------------------------------------------------

OAuthTypeOK ==
  /\ time \in 0 .. EndTime /\ issued \in 0 .. MaxStates
  /\ \A u \in Owners : pending[u] = NoState \/ pending[u] \in Pending

\* A callback passes only with a state that was issued to the same user, no longer
\* ago than its lifetime.
AcceptedWasIssued ==
  \A a \in accepted : \E g \in grants :
    g.owner = a.owner /\ g.token = a.token /\ a.at <= g.at + Lifetime

\* A state that a callback has passed with is spent: no second one can.
AcceptedIsSpent ==
  \A a \in accepted, u \in Owners : pending[u] # NoState => pending[u].token # a.token

-----------------------------------------------------------------------------
(***************************************************************************)
(* The file of the credential vault (yoma/credential_vault.py).  A store   *)
(* or a delete reads the whole file, changes its copy, writes a temporary  *)
(* file (the same for every operation) and renames it.  Nothing locks it,  *)
(* and the process may end between any two of these steps.  The temporary  *)
(* file is written in one step: it is far smaller than a write buffer.     *)
(***************************************************************************)

CONSTANTS
  Writers,      \* threads that use the vault
  Credentials,  \* credential ids
  NoFile        \* the temporary file does not exist

VARIABLES
  vault,     \* the credentials in the file
  temp,      \* the temporary file
  stage,     \* where an operation is
  copy,      \* the operation and the document it has read
  kept       \* history: stored, and no older copy was held then or since

vaultVars == <<vault, temp, stage, copy, kept>>

NoCopy == [op |-> "none", id |-> {}, doc |-> {}]

VaultInit ==
  /\ vault = {} /\ temp = NoFile
  /\ stage = [w \in Writers |-> "idle"]
  /\ copy = [w \in Writers |-> NoCopy]
  /\ kept = {}

\* delete() of a credential the file does not have raises.
VaultRead(w, op, c) ==
  /\ stage[w] = "idle"
  /\ op = "delete" => c \in vault
  /\ copy' = [copy EXCEPT ![w] = [op |-> op, id |-> {c}, doc |-> vault]]
  /\ stage' = [stage EXCEPT ![w] = "write"]
  /\ UNCHANGED <<vault, temp, kept>>

Changed(l) == IF l.op = "store" THEN l.doc \cup l.id ELSE l.doc \ l.id

VaultWrite(w) ==
  /\ stage[w] = "write"
  /\ temp' = Changed(copy[w])
  /\ stage' = [stage EXCEPT ![w] = "replace"]
  /\ UNCHANGED <<vault, copy, kept>>

Busy == {w \in Writers : stage[w] # "idle"}
VaultEnd(w) == stage' = [stage EXCEPT ![w] = "idle"] /\ copy' = [copy EXCEPT ![w] = NoCopy]

\* os.replace(): of two operations the second finds no temporary file and raises.
VaultReplace(w) ==
  /\ stage[w] = "replace"
  /\ IF temp = NoFile THEN UNCHANGED <<vault, temp, kept>>
     ELSE /\ vault' = temp /\ temp' = NoFile
          /\ kept' = IF Busy # {w} THEN {}
                     ELSE IF copy[w].op = "store" THEN kept \cup copy[w].id ELSE kept \ copy[w].id
  /\ VaultEnd(w)

\* The process ends: the copies are gone, the files stay.
VaultCrash ==
  /\ Busy # {}
  /\ stage' = [w \in Writers |-> "idle"] /\ copy' = [w \in Writers |-> NoCopy]
  /\ UNCHANGED <<vault, temp, kept>>

VaultNext ==
  \/ VaultCrash
  \/ \E w \in Writers :
       \/ VaultWrite(w) \/ VaultReplace(w)
       \/ \E op \in {"store", "delete"}, c \in Credentials : VaultRead(w, op, c)

VaultSpec == VaultInit /\ [][VaultNext]_vaultVars

-----------------------------------------------------------------------------

VaultTypeOK ==
  /\ vault \subseteq Credentials /\ (temp = NoFile \/ temp \subseteq Credentials)
  /\ stage \in [Writers -> {"idle", "write", "replace"}]
  /\ copy \in [Writers -> [op : {"none", "store", "delete"}, id : SUBSET Credentials,
                           doc : SUBSET Credentials]]
  /\ kept \subseteq Credentials

\* A credential that store() has written, while no other operation was under way,
\* stays until it is deleted or until two operations overlap: no crash and no
\* operation on another credential loses it.
VaultKeepsStored == kept \subseteq vault
=============================================================================
