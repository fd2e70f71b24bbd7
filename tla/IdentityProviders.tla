-------------------------- MODULE IdentityProviders --------------------------
(***************************************************************************)
(* office/identity_mapping.py: external identities of a provider mapped to *)
(* identities of YOMA, in the two caches of a mapper and in a table that   *)
(* several mappers may share.  A new identity is a uuid; here the next     *)
(* number never used.                                                      *)
(*                                                                         *)
(* office/security/provisioning.py: the administrator imports the OAuth    *)
(* credentials of the organization, authorizes them and tests the          *)
(* connection.  Progress is kept in memory and in two files, the           *)
(* credentials and the state, written one after the other: a write that    *)
(* fails leaves the earlier ones, and a restart reads them.                *)
(***************************************************************************)
EXTENDS Integers, FiniteSets

CONSTANTS Mappers, Externals, MaxIdentities, Unmapped, NotSaving

VARIABLES externalToInternal,   \* per mapper: external identity to identity
          internalToExternal,   \* per mapper: identity to external identity
          stored,               \* the table, one row per external identity
          saving,               \* per mapper: the row map() is about to save
          issued                \* identities drawn so far

mappingVars == <<externalToInternal, internalToExternal, stored, saving, issued>>

Identities == 1..MaxIdentities

\* What is not mapped and what is not saved is marked by values of their own.
ASSUME MappingAssumption ==
  /\ MaxIdentities \in Nat /\ Unmapped \notin Identities /\ Unmapped \notin Externals
  /\ NotSaving \notin [external : Externals, identity : Identities]

MappingInit ==
  /\ externalToInternal = [m \in Mappers |-> [e \in Externals |-> Unmapped]]
  /\ internalToExternal = [m \in Mappers |-> [i \in Identities |-> Unmapped]]
  /\ stored = [e \in Externals |-> Unmapped]
  /\ saving = [m \in Mappers |-> NotSaving]
  /\ issued = 0

\* Both caches are written together.
Cached(m, e, i) ==
  /\ externalToInternal' = [externalToInternal EXCEPT ![m][e] = i]
  /\ internalToExternal' = [internalToExternal EXCEPT ![m][i] = e]

NewIdentity == issued + 1

\* map(): what the cache knows is answered; then the table is asked, and an identity
\* neither knows is drawn and cached before it is saved.
MapStored(m, e) ==
  /\ saving[m] = NotSaving
  /\ externalToInternal[m][e] = Unmapped /\ stored[e] # Unmapped
  /\ Cached(m, e, stored[e])
  /\ UNCHANGED <<stored, saving, issued>>

MapNew(m, e) ==
  /\ saving[m] = NotSaving
  /\ externalToInternal[m][e] = Unmapped /\ stored[e] = Unmapped
  /\ issued < MaxIdentities
  /\ issued' = issued + 1
  /\ Cached(m, e, NewIdentity)
  /\ saving' = [saving EXCEPT ![m] = [external |-> e, identity |-> NewIdentity]]
  /\ UNCHANGED stored

\* save() replaces the identity of a row another mapper inserted meanwhile.
Save(m) ==
  /\ saving[m] # NotSaving
  /\ stored' = [stored EXCEPT ![saving[m].external] = saving[m].identity]
  /\ saving' = [saving EXCEPT ![m] = NotSaving]
  /\ UNCHANGED <<externalToInternal, internalToExternal, issued>>

\* A save that raises leaves the caches: the identity is answered and never saved.
SaveFails(m) ==
  /\ saving[m] # NotSaving
  /\ saving' = [saving EXCEPT ![m] = NotSaving]
  /\ UNCHANGED <<externalToInternal, internalToExternal, stored, issued>>

\* get_external_identity() of an identity the mapper does not know.
GetExternal(m, i) ==
  /\ saving[m] = NotSaving
  /\ internalToExternal[m][i] = Unmapped
  /\ \E e \in Externals : stored[e] = i /\ Cached(m, e, i)
  /\ UNCHANGED <<stored, saving, issued>>

RestartMapper(m) ==
  /\ externalToInternal' = [externalToInternal EXCEPT ![m] = [e \in Externals |-> Unmapped]]
  /\ internalToExternal' = [internalToExternal EXCEPT ![m] = [i \in Identities |-> Unmapped]]
  /\ saving' = [saving EXCEPT ![m] = NotSaving]
  /\ UNCHANGED <<stored, issued>>

MappingNext ==
  \E m \in Mappers :
    \/ \E e \in Externals : MapStored(m, e) \/ MapNew(m, e)
    \/ Save(m)
    \/ SaveFails(m)
    \/ \E i \in Identities : GetExternal(m, i)
    \/ RestartMapper(m)

----------------------------------------------------------------------------
MappingTypeOK ==
  /\ \A m \in Mappers, e \in Externals :
       externalToInternal[m][e] \in 1..issued \cup {Unmapped}
  /\ \A m \in Mappers, i \in Identities :
       internalToExternal[m][i] \in Externals \cup {Unmapped}
  /\ \A e \in Externals : stored[e] \in 1..issued \cup {Unmapped}
  /\ \A m \in Mappers :
       saving[m] = NotSaving
         \/ saving[m] \in [external : Externals, identity : 1..issued]

\* Every identity known to e, by the table or by any mapper.
KnownAs(e) ==
  {i \in Identities : stored[e] = i \/ \E m \in Mappers :
     externalToInternal[m][e] = i \/ internalToExternal[m][i] = e}

\* One identity never stands for two external ones, across races of the mappers,
\* saves that fail and restarts, and the two caches of a mapper agree.
OneExternalEach ==
  /\ \A e, f \in Externals : e # f => KnownAs(e) \cap KnownAs(f) = {}
  /\ \A m \in Mappers, e \in Externals :
       externalToInternal[m][e] # Unmapped
         => internalToExternal[m][externalToInternal[m][e]] = e

\* What a mapper answers for an external identity it knows changes only with its
\* restart or when it looks up an identity another mapper has stored in between.
AnswersAreStable ==
  [\A m \in Mappers, e \in Externals :
     /\ externalToInternal[m][e] # Unmapped
     /\ externalToInternal'[m][e] # externalToInternal[m][e]
     => \/ externalToInternal'[m][e] = Unmapped
        \/ externalToInternal'[m][e] = stored[e]]_mappingVars

-----------------------------------------------------------------------------
(* Provisioning.                                                           *)

CONSTANTS CredentialFiles, NoCredentials

ASSUME ProvisioningAssumption == NoCredentials \notin CredentialFiles

VARIABLES validated, authorized, connectionTested,   \* GoogleProvisioningManager
          credentials,                               \* google_oauth.secure.json
          setupState                                 \* setup_state.json

provisioningVars == <<validated, authorized, connectionTested, credentials, setupState>>

ProvisioningState == {"not_configured", "validated", "authorization_pending", "authorized",
                      "connection_tested", "active", "error"}
RestoredStates == {"authorized", "connection_tested", "active"}

ProvisioningInit ==
  /\ validated = FALSE /\ authorized = FALSE /\ connectionTested = FALSE
  /\ credentials = NoCredentials /\ setupState = "not_configured"

\* A write of the state that may fail, and what comes before it stays done.
SaveState(state) == setupState' \in {setupState, state}

\* import_oauth_json(): an invalid file replaces nothing, the state becomes "error".
ImportInvalid ==
  /\ SaveState("error")
  /\ UNCHANGED <<validated, authorized, connectionTested, credentials>>

ImportOAuth(file) ==
  /\ credentials' = file
  /\ validated' = TRUE
  /\ SaveState("validated")
  /\ UNCHANGED <<authorized, connectionTested>>

\* begin_authorization() and mark_authorized() need credentials validated by this
\* process or authorized before it started.
MayAuthorize == validated /\ credentials # NoCredentials

BeginAuthorization ==
  /\ MayAuthorize
  /\ SaveState("authorization_pending")
  /\ UNCHANGED <<validated, authorized, connectionTested, credentials>>

Authorized == authorized' = TRUE /\ SaveState("authorized")

MarkAuthorized ==
  /\ MayAuthorize
  /\ Authorized
  /\ UNCHANGED <<validated, connectionTested, credentials>>

MarkConnectionTested(success) ==
  /\ authorized
  /\ connectionTested' = success
  /\ SaveState(IF success THEN "active" ELSE "error")
  /\ UNCHANGED <<validated, authorized, credentials>>

\* A new process: what was authorized is, whatever less is started over.
RestartProvisioning ==
  /\ validated' = (setupState \in RestoredStates)
  /\ authorized' = (setupState \in RestoredStates)
  /\ connectionTested' = FALSE
  /\ UNCHANGED <<credentials, setupState>>

ProvisioningNext ==
  \/ ImportInvalid
  \/ \E file \in CredentialFiles : ImportOAuth(file)
  \/ BeginAuthorization
  \/ MarkAuthorized
  \/ \E success \in BOOLEAN : MarkConnectionTested(success)
  \/ RestartProvisioning

----------------------------------------------------------------------------
\* status(): the step of the wizard follows the file, the rest memory and file.
SetupStep ==
  CASE setupState = "active" -> "complete"
    [] setupState \in {"authorized", "connection_tested"} -> "connection_test"
    [] setupState \in {"authorization_pending", "validated"} -> "authorization"
    [] OTHER -> "welcome"
JsonValidated ==
  validated \/ setupState \in {"validated", "authorization_pending", "authorized", "active"}

----------------------------------------------------------------------------
ProvisioningTypeOK ==
  /\ {validated, authorized, connectionTested} \subseteq BOOLEAN
  /\ credentials \in CredentialFiles \cup {NoCredentials}
  /\ setupState \in ProvisioningState

\* The wizard never shows a step the process does not have: the state file is
\* behind the memory and the credentials, whatever writes failed and however
\* often the process was restarted, so a finished setup is an authorized one.
ProgressIsBacked ==
  /\ SetupStep # "welcome" => credentials # NoCredentials /\ JsonValidated
  /\ SetupStep \in {"connection_test", "complete"} => authorized
  /\ authorized => validated
  /\ connectionTested => authorized

\* Once credentials are stored no failing step, import or restart removes them, and
\* within a process an authorization is never taken back: only an unfinished setup
\* is started over.
NothingIsTakenBack ==
  [/\ credentials # NoCredentials => credentials' # NoCredentials
   /\ setupState \in {"authorized", "active"} /\ setupState' = setupState
      => authorized']_provisioningVars
=============================================================================
