--------------------------- MODULE PlatformProofs ---------------------------
(***************************************************************************)
(* What the platform keeps, for every number of licenses, settings,        *)
(* mappers, identities, events, nodes, sources and so on: the invariants   *)
(* of the parts, each proved from the steps of its part alone, and what no *)
(* step does.  A part that is not explored stands still, so that the       *)
(* invariant of every part holds in every state.  The invariants of the    *)
(* services, predictions and background cycles are in ServicesProofs,      *)
(* those of the analyses of an organization in IntelligenceProofs.         *)
(***************************************************************************)
EXTENDS MCPlatform, ServicesProofs, IntelligenceProofs

(* Licenses.                                                                 *)

\* A process that has just started has no activation.
LicenseInv ==
  /\ LicenseTypeOK /\ FileFollowsMemory
  /\ ~inProcess => memory = Inactive

LEMMA LicenseInitInv == LicenseInit => LicenseInv
<1> SUFFICES ASSUME LicenseInit PROVE LicenseInv
  OBVIOUS
<1>1. Inactive \in Activation /\ Inactive.status = "inactive" /\ 0 \in 0 .. LastDay
  BY LicenseAssumption DEF Inactive, Activation, ActivationStatus
<1>2. Loaded = memory
  BY DEF LicenseInit, Loaded
<1> QED
  BY <1>1, <1>2 DEF LicenseInit, LicenseInv, LicenseTypeOK, FileFollowsMemory

LEMMA LicenseInvStep == LicenseInv /\ [LicenseNext]_licenseVars => LicenseInv'
<1> SUFFICES ASSUME LicenseInv, [LicenseNext]_licenseVars PROVE LicenseInv'
  OBVIOUS
<1> USE LicenseAssumption, NoActivation
<1>1. /\ day \in 0 .. LastDay /\ revoked \subseteq Licenses /\ memory \in Activation
      /\ licenseFile \in {NoFile, Unreadable} \cup Activation
      /\ inProcess \in BOOLEAN /\ lostSave \in BOOLEAN
  BY DEF LicenseInv, LicenseTypeOK
<1>2. Inactive \in Activation
  BY DEF Inactive, Activation, ActivationStatus
<1>3. ASSUME NEW raised \in BOOLEAN, NEW content, UNCHANGED <<day, revoked>>, memory' \in Activation,
             SaveFile(content, raised), content = memory' \/ (content = NoFile /\ memory' = Inactive)
      PROVE  LicenseInv'
  <2>1. licenseFile' \in {NoFile, Unreadable} \cup Activation
    BY <1>1, <1>3 DEF SaveFile
  <2>2. LicenseTypeOK'
    BY <1>1, <1>3, <2>1 DEF LicenseTypeOK, SaveFile
  <2>3. ~lostSave' => Loaded' = memory'
    BY <1>3 DEF SaveFile, Loaded
  <2> QED
    BY <1>3, <2>2, <2>3 DEF LicenseInv, FileFollowsMemory, SaveFile
<1>4. ASSUME NEW l \in Licenses, ActivateLicense(l) PROVE LicenseInv'
  <2>1. memory' \in Activation
    BY <1>1, <1>4 DEF ActivateLicense, NewActivation, Activation, ActivationStatus
  <2> QED
    BY <1>3, <1>4, <2>1 DEF ActivateLicense
<1>5. CASE DeactivateLicense
  <2>1. memory' = Deactivated(memory) /\ 0 \in 0 .. LastDay
    BY <1>5 DEF DeactivateLicense
  <2>2. memory' \in Activation
    BY <1>1, <2>1 DEF Deactivated, Activation, ActivationStatus
  <2> QED
    BY <1>3, <1>5, <2>2 DEF DeactivateLicense, SavedDeactivation
<1>6. CASE ResetLicensing
  BY <1>2, <1>3, <1>6 DEF ResetLicensing
<1>7. CASE LicenseRestart
  <2>1. memory' = Inactive /\ Inactive.status = "inactive"
    BY <1>7 DEF LicenseRestart, Inactive
  <2> QED
    BY <1>1, <1>2, <1>7, <2>1 DEF LicenseRestart, LicenseInv, LicenseTypeOK, FileFollowsMemory
<1>8. CASE DayPasses \/ (\E l \in Licenses : Revoke(l)) \/ UNCHANGED licenseVars
  <2>1. /\ UNCHANGED <<memory, licenseFile, inProcess, lostSave>> /\ day' \in 0 .. LastDay
        /\ revoked' \subseteq Licenses
    BY <1>1, <1>8 DEF DayPasses, Revoke, licenseVars
  <2> QED
    BY <1>1, <2>1 DEF LicenseInv, LicenseTypeOK, FileFollowsMemory, Loaded
<1>9. CASE FileDamaged
  BY <1>1, <1>9 DEF FileDamaged, LicenseInv, LicenseTypeOK, FileFollowsMemory
<1> QED
  BY <1>4, <1>5, <1>6, <1>7, <1>8, <1>9 DEF LicenseNext

LEMMA LicenseInvImplies == LicenseInv => LicenseTypeOK /\ FileFollowsMemory /\ AssessmentAgrees
<1> SUFFICES ASSUME LicenseInv PROVE AssessmentAgrees
  BY DEF LicenseInv
<1>1. ASSUME inProcess, ~lostSave, licenseFile # Unreadable, memory.status = "active",
             NEW l \in Licenses
      PROVE  HardenedSafe(l) = (l = memory.license /\ ValidLicense(l))
  <2>1. Loaded = memory /\ memory # Inactive
    BY <1>1 DEF LicenseInv, FileFollowsMemory, Inactive
  <2>2. Mismatch(l) <=> l # memory.license
    BY <2>1 DEF Mismatch
  <2>3. HardenedSafe(l) <=> (ValidLicense(l) /\ ~Mismatch(l))
    BY DEF HardenedSafe, HardeningFailures
  <2>4. HardenedSafe(l) \in BOOLEAN /\ ValidLicense(l) \in BOOLEAN
    BY DEF HardenedSafe, ValidLicense
  <2> QED
    BY <2>2, <2>3, <2>4
<1>2. ASSUME NEW l \in Entitled, HardenedSafe(l) PROVE AccessAllowed(l)
  BY <1>2 DEF HardenedSafe, HardeningFailures, AccessAllowed
<1> QED
  BY <1>1, <1>2 DEF AssessmentAgrees

\* A file that outlived its process is rewritten by an activation or a reset only.
LEMMA LicenseFileStep == LicenseInv /\ [LicenseNext]_licenseVars => StaleFileStays
<1> SUFFICES ASSUME LicenseInv, LicenseNext, ~inProcess, licenseFile' # licenseFile
             PROVE  licenseFile' = Unreadable \/ licenseFile' = NoFile
                      \/ (licenseFile'.status = "active" /\ licenseFile' = memory')
  BY DEF StaleFileStays, licenseVars
<1>1. memory.status = "inactive"
  BY DEF LicenseInv, Inactive
<1> QED
  BY <1>1 DEF LicenseNext, DeactivateLicense, ActiveInMemory, ResetLicensing, LicenseRestart, DayPasses,
              FileDamaged, ActivateLicense, NewActivation, Revoke, SaveFile

LEMMA ActivationDayStep == [LicenseNext]_licenseVars => ActivationKeepsItsDay
<1> SUFFICES ASSUME LicenseNext, memory.status = "active", memory'.status = "active", memory' # memory
             PROVE  memory'.license # memory.license
  BY DEF ActivationKeepsItsDay, licenseVars
<1>1. CASE ResetLicensing \/ LicenseRestart \/ DayPasses \/ FileDamaged
           \/ \E l \in Licenses : Revoke(l)
  <2>1. memory' = Inactive \/ memory' = memory
    BY <1>1 DEF ResetLicensing, LicenseRestart, DayPasses, FileDamaged, Revoke
  <2> QED
    BY <2>1 DEF Inactive
<1>3. CASE DeactivateLicense
  <2>1. memory' = Deactivated(memory)
    BY <1>3 DEF DeactivateLicense
  <2> QED
    BY <2>1 DEF Deactivated
<1>2. ASSUME NEW l \in Licenses, ActivateLicense(l) PROVE memory'.license # memory.license
  BY <1>2 DEF ActivateLicense, MayActivate, IsActive, NewActivation
<1> QED
  BY <1>1, <1>2, <1>3 DEF LicenseNext

(* Integrations.                                                             *)

\* An adapter that the manager owns is that of a registered integration, and one that is not
\* registered has neither a configuration nor a connection.
AdapterIsWhose ==
  /\ owned => Registered /\ adapter.registered
  /\ ~adapter.registered => adapter.connected = FALSE /\ adapter.config = Unset

IntegrationInv ==
  /\ IntegrationTypeOK /\ RowIsCurrent /\ QuietIsConsistent /\ ConnectedIsEnabled
  /\ AdapterIsWhose

LEMMA IntegrationInitInv == IntegrationInit => IntegrationInv
<1> SUFFICES ASSUME IntegrationInit PROVE IntegrationInv
  OBVIOUS
<1>1. /\ FreshAdapter \in Adapter /\ FreshAdapter.registered = FALSE
      /\ FreshAdapter.connected = FALSE /\ FreshAdapter.config = Unset
  BY DEF FreshAdapter, Adapter, Configuration
<1>2. /\ integration = NoIntegration /\ owned = FALSE /\ adapter = FreshAdapter
      /\ row = NoIntegration /\ restored = FALSE /\ troubles = 0 /\ unsaved = FALSE
  BY DEF IntegrationInit
<1>4. 0 \in 0 .. MaxTroubles
  BY IntegrationAssumption
<1>3. IntegrationTypeOK
  BY <1>1, <1>2, <1>4, Zenon DEF IntegrationTypeOK
<1> QED
  BY <1>1, <1>2, <1>3 DEF IntegrationInv, RowIsCurrent, QuietIsConsistent,
                    ConnectedIsEnabled, AdapterIsWhose, Registered

\* A row that is saved is that of the integration.
LEMMA SavedRowIsCurrent ==
  ASSUME IntegrationTypeOK, integration' \in Integration, NEW raised \in BOOLEAN,
         PersistRow(integration', raised)
  PROVE  /\ row' = NoIntegration \/ row' \in Row
         /\ unsaved' \in BOOLEAN /\ RowIsCurrent' /\ Registered'
<1>1. Registered'
  BY NoRecord DEF Registered
<1>2. CASE raised
  BY <1>1, <1>2 DEF PersistRow, RowIsCurrent, IntegrationTypeOK
<1>3. CASE ~raised
  <2>1. row' = RowOf(integration') /\ RowOf(integration') \in Row /\ ~unsaved' /\ unsaved' \in BOOLEAN
    BY <1>3 DEF PersistRow, RowOf, Row, Integration
  <2>2. row' # NoIntegration
    BY <2>1, NoRecord
  <2>3. row'.enabled = integration'.enabled /\ row'.config = integration'.config
        /\ row'.status = integration'.health
    BY <2>1 DEF RowOf
  <2> QED
    BY <1>1, <2>1, <2>2, <2>3 DEF RowIsCurrent
<1> QED
  BY <1>2, <1>3

\* A step that counts a trouble leaves nothing to be quiet.
LEMMA Noted ==
  ASSUME troubles \in 0 .. MaxTroubles, NEW trouble \in BOOLEAN, May(trouble), Note(trouble)
  PROVE  /\ troubles' \in 0 .. MaxTroubles
         /\ troubles' = 0 => troubles = 0 /\ ~trouble
  BY IntegrationAssumption DEF May, Note

LEMMA IntegrationInvStep == IntegrationInv /\ [IntegrationNext]_integrationVars => IntegrationInv'
<1> SUFFICES ASSUME IntegrationInv, [IntegrationNext]_integrationVars PROVE IntegrationInv'
  OBVIOUS
<1>1. /\ IntegrationTypeOK /\ RowIsCurrent /\ QuietIsConsistent /\ ConnectedIsEnabled
      /\ AdapterIsWhose
  BY DEF IntegrationInv
<1>2. /\ integration = NoIntegration \/ integration \in Integration
      /\ row = NoIntegration \/ row \in Row
      /\ adapter \in Adapter /\ owned \in BOOLEAN /\ restored \in BOOLEAN
      /\ troubles \in 0 .. MaxTroubles /\ unsaved \in BOOLEAN
  BY <1>1 DEF IntegrationTypeOK
<1>3. Registered => integration \in Integration
  BY <1>2 DEF Registered
\* What is left to show of a step that saves the integration.
<1>4. ASSUME integration' \in Integration, NEW raised \in BOOLEAN, PersistRow(integration', raised),
             NEW trouble \in BOOLEAN, May(trouble), Note(trouble), adapter' \in Adapter,
             UNCHANGED <<owned, restored>>, Registered, AdapterIsWhose',
             (troubles = 0 /\ ~trouble) => adapter'.connected = integration'.connected
               /\ (owned => adapter'.config = integration'.config),
             integration'.connected => MayConnect(integration') /\ adapter'.registered
      PROVE  IntegrationInv'
  <2>1. /\ row' = NoIntegration \/ row' \in Row
        /\ unsaved' \in BOOLEAN /\ RowIsCurrent' /\ Registered'
    BY <1>1, <1>4, SavedRowIsCurrent
  <2>2. troubles' \in 0 .. MaxTroubles /\ (troubles' = 0 => troubles = 0 /\ ~trouble)
    BY <1>2, <1>4, Noted
  <2>3. IntegrationTypeOK'
    BY <1>2, <1>4, <2>1, <2>2 DEF IntegrationTypeOK
  <2>4. integration'.connected \in BOOLEAN /\ adapter'.connected \in BOOLEAN
    BY <1>4 DEF Integration, Adapter
  <2>5. ASSUME troubles' = 0
        PROVE  /\ adapter'.connected = (Registered' /\ integration'.connected)
               /\ owned' => adapter'.registered /\ adapter'.config = integration'.config
    <3>1. /\ adapter'.connected = integration'.connected
          /\ owned => adapter'.config = integration'.config
      BY <1>4, <2>2, <2>5
    <3>2. owned' => adapter'.registered
      BY <1>4 DEF AdapterIsWhose
    <3> QED
      BY <1>4, <2>1, <2>4, <3>1, <3>2
  <2>6. QuietIsConsistent'
    BY <2>1, <2>5 DEF QuietIsConsistent
  <2> QED
    BY <1>4, <2>1, <2>3, <2>6, <1>4 DEF IntegrationInv, ConnectedIsEnabled, MayConnect
<1>5. ASSUME Registered
      PROVE  /\ integration \in Integration /\ integration.connected \in BOOLEAN
             /\ integration.enabled \in BOOLEAN /\ integration.config \in Configuration
             /\ integration.health \in Health
  BY <1>3, <1>5 DEF Integration
<1>6. /\ adapter.connected \in BOOLEAN /\ adapter.config \in Configuration
      /\ adapter.registered \in BOOLEAN
  BY <1>2 DEF Adapter
<1>7. ASSUME troubles = 0, Registered
      PROVE  /\ adapter.connected = integration.connected
             /\ owned => adapter.config = integration.config
  BY <1>1, <1>5, <1>6, <1>7 DEF QuietIsConsistent
<1>10. CASE Register
  <2> PICK raised \in BOOLEAN :
         /\ ~Registered /\ May(raised \/ adapter.registered)
         /\ integration' = Fresh
         /\ IF adapter.registered
            THEN UNCHANGED <<owned, adapter, row>> /\ unsaved' = TRUE
            ELSE /\ owned' = TRUE /\ adapter' = [adapter EXCEPT !.registered = TRUE]
                 /\ PersistRow(Fresh, raised)
         /\ Note(raised \/ adapter.registered)
         /\ UNCHANGED restored
    BY <1>10 DEF Register
  <2>8. Fresh \in Integration /\ Fresh.connected = FALSE /\ Fresh.config = Unset
    BY DEF Fresh, Integration, Configuration, Health
  <2>1. /\ Fresh.connected = FALSE /\ Fresh.config = Unset
        /\ integration' \in Integration /\ Registered'
    BY <2>8, NoRecord DEF Registered
  <2>2. /\ troubles' \in 0 .. MaxTroubles
        /\ troubles' = 0 => troubles = 0 /\ ~raised /\ ~adapter.registered
    BY <1>2, <1>6, Noted
  <2>3. /\ row' = NoIntegration \/ row' \in Row
        /\ unsaved' \in BOOLEAN /\ RowIsCurrent'
    BY <1>1, <1>2, <2>1, SavedRowIsCurrent DEF RowIsCurrent
  <2>4. /\ adapter' \in Adapter /\ owned' \in BOOLEAN /\ adapter'.connected = adapter.connected
        /\ adapter'.config = adapter.config /\ adapter'.registered = TRUE
    BY <1>2, <1>6 DEF Adapter
  <2>5. ASSUME troubles' = 0 PROVE adapter'.connected = FALSE /\ adapter'.config = Unset
    BY <1>1, <2>2, <2>4, <2>5 DEF AdapterIsWhose
  <2>6. AdapterIsWhose' /\ IntegrationTypeOK' /\ ConnectedIsEnabled'
    BY <1>1, <1>2, <2>1, <2>2, <2>3, <2>4 DEF AdapterIsWhose, IntegrationTypeOK, ConnectedIsEnabled
  <2>7. QuietIsConsistent'
    BY <2>1, <2>4, <2>5 DEF QuietIsConsistent
  <2> QED
    BY <2>3, <2>6, <2>7 DEF IntegrationInv
<1>11. CASE RegisterAdapter
  <2>1. /\ adapter' \in Adapter /\ adapter'.connected = adapter.connected
        /\ adapter'.config = adapter.config /\ adapter'.registered = TRUE /\ ~owned
    BY <1>1, <1>2, <1>6, <1>11 DEF RegisterAdapter, Adapter, AdapterIsWhose
  <2> QED
    BY <1>1, <1>2, <1>11, <2>1
       DEF RegisterAdapter, IntegrationInv, IntegrationTypeOK, RowIsCurrent, QuietIsConsistent,
           ConnectedIsEnabled, MayConnect, AdapterIsWhose, Registered
<1>12. CASE Configure
  <2> PICK c \in Settings, refused \in BOOLEAN, raised \in BOOLEAN :
         /\ Registered /\ owned /\ May(refused \/ raised)
         /\ integration' = Configured(integration, c)
         /\ adapter' = IF refused THEN adapter ELSE [adapter EXCEPT !.config = c]
         /\ PersistRow(integration', refused \/ raised) /\ Note(refused \/ raised)
         /\ UNCHANGED <<owned, restored>>
    BY <1>12 DEF Configure
  <2>1. /\ integration' \in Integration /\ integration'.connected = integration.connected
        /\ integration'.config = c /\ integration'.enabled = integration.enabled
    BY <1>5 DEF Configured, Integration, Configuration, Health
  <2>2. /\ adapter' \in Adapter /\ adapter'.connected = adapter.connected
        /\ adapter'.registered = adapter.registered /\ (~refused => adapter'.config = c)
    BY <1>2, <1>6 DEF Adapter, Configuration
  <2>3. AdapterIsWhose' /\ c # Unset
    BY <1>1, <2>1, <2>2, NoRecord DEF AdapterIsWhose, Registered
  <2>4. (troubles = 0 /\ ~(refused \/ raised)) => adapter'.connected = integration'.connected
          /\ (owned => adapter'.config = integration'.config)
    BY <1>7, <2>1, <2>2
  <2>5. integration'.connected => MayConnect(integration') /\ adapter'.registered
    BY <1>1, <2>1, <2>2, <2>3 DEF ConnectedIsEnabled, MayConnect
  <2> QED
    BY <1>4, <2>1, <2>2, <2>3, <2>4, <2>5
<1>13. CASE Enable
  <2> PICK raised \in BOOLEAN :
         /\ Registered /\ May(raised)
         /\ integration' = [integration EXCEPT !.enabled = TRUE]
         /\ PersistRow(integration', raised) /\ Note(raised)
         /\ UNCHANGED <<owned, adapter, restored>>
    BY <1>13 DEF Enable
  <2>1. /\ integration' \in Integration /\ integration'.connected = integration.connected
        /\ integration'.config = integration.config /\ integration'.enabled = TRUE
    BY <1>5 DEF Integration
  <2>2. AdapterIsWhose'
    BY <1>1, <2>1, NoRecord DEF AdapterIsWhose, Registered
  <2>3. integration'.connected => MayConnect(integration') /\ adapter'.registered
    BY <1>1, <2>1 DEF ConnectedIsEnabled, MayConnect
  <2> QED
    BY <1>2, <1>4, <1>7, <2>1, <2>2, <2>3
<1>14. CASE Disable
  <2> PICK refused \in BOOLEAN, raised \in BOOLEAN :
         /\ Registered /\ May(refused \/ raised)
         /\ refused => integration.connected
         /\ IF refused
            THEN /\ integration' = SetConnected(integration, FALSE, "disconnected")
                 /\ UNCHANGED adapter
            ELSE /\ integration' = Disabled(integration)
                 /\ adapter' = AdapterDisabled(adapter, integration)
         /\ PersistRow(integration', refused \/ raised) /\ Note(refused \/ raised)
         /\ UNCHANGED <<owned, restored>>
    BY <1>14 DEF Disable
  <2>1. /\ integration' \in Integration /\ integration'.connected = FALSE
        /\ integration'.config = integration.config
    BY <1>5 DEF SetConnected, Disabled, Integration, Health
  <2>2. /\ adapter' \in Adapter /\ adapter'.config = adapter.config
        /\ adapter'.registered = adapter.registered
        /\ (adapter'.connected = adapter.connected \/ adapter'.connected = FALSE)
        /\ (integration.connected /\ ~refused => adapter'.connected = FALSE)
        /\ (~integration.connected => adapter' = adapter)
    BY <1>2, <1>6 DEF AdapterDisabled, Adapter
  <2>3. AdapterIsWhose'
    BY <1>1, <2>1, <2>2, NoRecord DEF AdapterIsWhose, Registered
  <2>4. (troubles = 0 /\ ~(refused \/ raised)) => adapter'.connected = integration'.connected
          /\ (owned => adapter'.config = integration'.config)
    BY <1>5, <1>6, <1>7, <2>1, <2>2
  <2> QED
    BY <1>4, <2>1, <2>2, <2>3, <2>4
<1>15. CASE Connect
  <2> PICK reply \in {"connected", "unhealthy", "failed"}, raised \in BOOLEAN, on \in BOOLEAN :
         /\ Registered /\ MayConnect(integration) /\ adapter.registered
         /\ May(raised \/ reply # "connected")
         /\ reply = "connected" => on
         /\ integration' = SetConnected(integration, reply = "connected", reply)
         /\ \E c \in {adapter.config, integration.config} :
              /\ reply # "failed" => c = integration.config
              /\ adapter' = [adapter EXCEPT !.config = c, !.connected = on]
         /\ PersistRow(integration', raised) /\ Note(raised \/ reply # "connected")
         /\ UNCHANGED <<owned, restored>>
    BY <1>15 DEF Connect
  <2>1. /\ integration' \in Integration /\ integration'.connected = (reply = "connected")
        /\ integration'.config = integration.config /\ integration'.enabled = integration.enabled
    BY <1>5 DEF SetConnected, Integration, Health
  <2>2. PICK c \in {adapter.config, integration.config} :
          /\ reply # "failed" => c = integration.config
          /\ adapter' = [adapter EXCEPT !.config = c, !.connected = on]
    OBVIOUS
  <2>3. /\ adapter' \in Adapter /\ adapter'.config = c /\ adapter'.connected = on
        /\ adapter'.registered = adapter.registered
    BY <1>2, <1>5, <1>6, <2>2 DEF Adapter
  <2>4. AdapterIsWhose'
    BY <1>1, <2>1, <2>3, NoRecord DEF AdapterIsWhose, Registered
  <2>5. (troubles = 0 /\ ~(raised \/ reply # "connected")) =>
          adapter'.connected = integration'.connected
            /\ (owned => adapter'.config = integration'.config)
    BY <2>1, <2>2, <2>3
  <2>6. integration'.connected => MayConnect(integration') /\ adapter'.registered
    BY <2>1, <2>3 DEF MayConnect
  <2> QED
    BY <1>4, <2>1, <2>3, <2>4, <2>5, <2>6
<1>16. CASE Disconnect
  <2> PICK refused \in BOOLEAN, raised \in BOOLEAN :
         /\ Registered /\ May(refused \/ raised) /\ May(refused \/ ~adapter.registered)
         /\ adapter' = IF refused \/ ~adapter.registered THEN adapter
                       ELSE [adapter EXCEPT !.connected = FALSE]
         /\ integration' = SetConnected(integration, FALSE, "disconnected")
         /\ PersistRow(integration', raised)
         /\ Note((refused \/ ~adapter.registered) \/ raised)
         /\ UNCHANGED <<owned, restored>>
    BY <1>16 DEF Disconnect
  <2>1. /\ integration' \in Integration /\ integration'.connected = FALSE
        /\ integration'.config = integration.config
    BY <1>5 DEF SetConnected, Integration, Health
  <2>2. /\ adapter' \in Adapter /\ adapter'.config = adapter.config
        /\ adapter'.registered = adapter.registered
        /\ (adapter'.connected = adapter.connected \/ adapter'.connected = FALSE)
        /\ (~(refused \/ ~adapter.registered) => adapter'.connected = FALSE)
    BY <1>2, <1>6 DEF Adapter
  <2>3. AdapterIsWhose'
    BY <1>1, <2>1, <2>2, NoRecord DEF AdapterIsWhose, Registered
  <2>4. (troubles = 0 /\ ~((refused \/ ~adapter.registered) \/ raised)) =>
          adapter'.connected = integration'.connected
            /\ (owned => adapter'.config = integration'.config)
    BY <1>7, <2>1, <2>2
  <2>5. May((refused \/ ~adapter.registered) \/ raised)
    BY DEF May
  <2> QED
    BY <1>4, <1>6, <2>1, <2>2, <2>3, <2>4, <2>5
<1>17. CASE CheckHealth
  <2> PICK refused \in BOOLEAN, raised \in BOOLEAN :
         /\ Registered /\ May(refused \/ ~adapter.registered)
         /\ raised => refused \/ ~adapter.registered
         /\ integration' =
              IF refused \/ ~adapter.registered THEN SetConnected(integration, FALSE, "error")
              ELSE SetConnected(integration, integration.connected,
                                IF adapter.connected THEN "connected" ELSE "disconnected")
         /\ PersistRow(integration', raised)
         /\ Note(refused \/ ~adapter.registered)
         /\ UNCHANGED <<owned, adapter, restored>>
    BY <1>17 DEF CheckHealth
  <2>1. /\ integration' \in Integration
        /\ (integration'.connected = integration.connected \/ integration'.connected = FALSE)
        /\ integration'.config = integration.config /\ integration'.enabled = integration.enabled
        /\ (~(refused \/ ~adapter.registered) =>
               integration'.connected = integration.connected)
    BY <1>5 DEF SetConnected, Integration, Health
  <2>2. AdapterIsWhose'
    BY <1>1, <2>1, NoRecord DEF AdapterIsWhose, Registered
  <2>3. (troubles = 0 /\ ~((refused \/ ~adapter.registered) \/ raised)) =>
          adapter'.connected = integration'.connected
            /\ (owned => adapter'.config = integration'.config)
    BY <1>7, <2>1
  <2>4. integration'.connected => MayConnect(integration') /\ adapter'.registered
    BY <1>1, <2>1 DEF ConnectedIsEnabled, MayConnect
  <2>5. /\ ((refused \/ ~adapter.registered) \/ raised) <=> (refused \/ ~adapter.registered)
        /\ May((refused \/ ~adapter.registered) \/ raised)
        /\ Note((refused \/ ~adapter.registered) \/ raised)
    BY DEF May, Note
  <2> QED
    BY <1>2, <1>4, <1>6, <2>1, <2>2, <2>3, <2>4, <2>5
<1>18. CASE CollectIntegration
  <2> PICK on \in BOOLEAN :
         /\ Registered /\ integration.connected /\ May(TRUE)
         /\ adapter' = [adapter EXCEPT !.connected = on] /\ Note(TRUE)
         /\ UNCHANGED <<integration, owned, row, restored, unsaved>>
    BY <1>18 DEF CollectIntegration
  <2>1. /\ adapter' \in Adapter /\ adapter'.config = adapter.config
        /\ adapter'.registered = adapter.registered /\ adapter.registered
    BY <1>1, <1>2, <1>6 DEF Adapter, ConnectedIsEnabled
  <2>2. troubles' \in 0 .. MaxTroubles /\ troubles' # 0
    BY <1>2, Noted
  <2> QED
    BY <1>1, <1>2, <2>1, <2>2
       DEF IntegrationInv, IntegrationTypeOK, RowIsCurrent, QuietIsConsistent,
           ConnectedIsEnabled, MayConnect, AdapterIsWhose, Registered
<1>19. CASE Unregister
  <2> PICK refused \in BOOLEAN, raised \in BOOLEAN :
         /\ Registered /\ May(refused \/ raised)
         /\ integration' = NoIntegration /\ owned' = FALSE /\ adapter' = FreshAdapter
         /\ row' = IF raised THEN row ELSE NoIntegration
         /\ unsaved' = raised /\ Note(refused \/ raised)
         /\ UNCHANGED restored
    BY <1>19 DEF Unregister
  <2>1. /\ FreshAdapter \in Adapter /\ FreshAdapter.registered = FALSE
        /\ FreshAdapter.connected = FALSE /\ FreshAdapter.config = Unset
    BY DEF FreshAdapter, Adapter, Configuration
  <2>2. troubles' \in 0 .. MaxTroubles /\ (troubles' = 0 => ~raised)
    BY <1>2, Noted
  <2>3. IntegrationTypeOK'
    BY <1>2, <2>1, <2>2 DEF IntegrationTypeOK
  <2> QED
    BY <2>1, <2>2, <2>3
       DEF IntegrationInv, RowIsCurrent, QuietIsConsistent, ConnectedIsEnabled, AdapterIsWhose,
           Registered
<1>20. CASE Restore
  <2>1. CASE Registered \/ row = NoIntegration
    BY <1>1, <1>2, <1>20, <2>1
       DEF Restore, IntegrationInv, IntegrationTypeOK, RowIsCurrent, QuietIsConsistent,
           ConnectedIsEnabled, MayConnect, AdapterIsWhose, Registered
  <2>2. CASE ~(Registered \/ row = NoIntegration)
    <3>1. integration' = FromRow(row) /\ unsaved' = FALSE /\ restored' = TRUE
          /\ UNCHANGED <<owned, adapter, row, troubles>>
      BY <1>20, <2>2 DEF Restore
    <3>2. /\ integration' \in Integration /\ integration'.connected = FALSE
          /\ integration'.enabled = row.enabled /\ integration'.config = row.config
      BY <1>2, <2>2, <3>1 DEF FromRow, Integration, Row, Health
    <3>3. Registered' /\ ~owned /\ ~Registered
      BY <1>1, <2>2, <3>2, NoRecord DEF Registered, AdapterIsWhose
    <3>4. IntegrationTypeOK'
      BY <1>2, <3>1, <3>2 DEF IntegrationTypeOK
    <3>5. RowIsCurrent' /\ ConnectedIsEnabled' /\ AdapterIsWhose'
      BY <1>1, <2>2, <3>1, <3>2, <3>3 DEF RowIsCurrent, ConnectedIsEnabled, AdapterIsWhose
    <3>6. QuietIsConsistent'
      BY <1>1, <3>1, <3>2, <3>3 DEF QuietIsConsistent
    <3> QED
      BY <3>4, <3>5, <3>6 DEF IntegrationInv
  <2> QED
    BY <2>1, <2>2
<1>21. CASE ProcessEnds
  <2>1. /\ FreshAdapter \in Adapter /\ FreshAdapter.registered = FALSE
        /\ FreshAdapter.connected = FALSE /\ FreshAdapter.config = Unset
    BY DEF FreshAdapter, Adapter, Configuration
  <2>2. IntegrationTypeOK'
    BY <1>2, <1>21, <2>1 DEF ProcessEnds, IntegrationTypeOK
  <2> QED
    BY <1>21, <2>1, <2>2
       DEF ProcessEnds, IntegrationInv, RowIsCurrent, QuietIsConsistent, ConnectedIsEnabled,
           AdapterIsWhose, Registered
<1>22. CASE UNCHANGED integrationVars
  BY <1>1, <1>22
     DEF integrationVars, IntegrationInv, IntegrationTypeOK, RowIsCurrent, QuietIsConsistent,
         ConnectedIsEnabled, MayConnect, AdapterIsWhose, Registered
<1> QED
  BY <1>10, <1>11, <1>12, <1>13, <1>14, <1>15, <1>16, <1>17, <1>18, <1>19, <1>20, <1>21, <1>22
     DEF IntegrationNext

\* A restart connects nothing, and what was restored keeps its configuration.
LEMMA IntegrationStepFrozen == IntegrationInv /\ [IntegrationNext]_integrationVars => RestoredIsFrozen
<1> SUFFICES ASSUME IntegrationInv, IntegrationNext
             PROVE  /\ Registered /\ ~owned /\ integration' # NoIntegration =>
                         integration'.config = integration.config
                    /\ ~Registered /\ integration' # NoIntegration => ~integration'.connected
                    /\ Registered /\ integration' = NoIntegration /\ row' # NoIntegration =>
                         unsaved' \/ ~restored'
  BY DEF RestoredIsFrozen, integrationVars
<1>1. integration = NoIntegration \/ integration \in Integration
  BY DEF IntegrationInv, IntegrationTypeOK
<1>2. CASE Register \/ Restore
  <2>1. ~Registered \/ integration' = integration
    BY <1>2 DEF Register, Restore
  <2>2. integration' = integration \/ integration' = Fresh \/ integration' = FromRow(row)
    BY <1>2 DEF Register, Restore
  <2>3. Fresh.connected = FALSE /\ FromRow(row).connected = FALSE
    BY DEF Fresh, FromRow
  <2> QED
    BY <2>1, <2>2, <2>3 DEF Registered
<1>3. CASE RegisterAdapter \/ CollectIntegration
  BY <1>3 DEF RegisterAdapter, CollectIntegration, Registered
<1>4. CASE Enable \/ Disable \/ Connect \/ Disconnect \/ CheckHealth \/ Configure
  <2>1. Registered /\ integration \in Integration
    BY <1>1, <1>4 DEF Enable, Disable, Connect, Disconnect, CheckHealth, Configure, Registered
  <2>3. ASSUME ~owned PROVE integration'.config = integration.config
    <3>1. CASE Enable
      BY <2>1, <3>1 DEF Enable, Integration
    <3>2. CASE Disable
      BY <2>1, <3>2 DEF Disable, Disabled, SetConnected, Integration
    <3>3. CASE Connect \/ Disconnect
      BY <2>1, <3>3 DEF Connect, Disconnect, SetConnected, Integration
    <3>4. CASE CheckHealth
      BY <2>1, <3>4 DEF CheckHealth, SetConnected, Integration
    <3> QED
      BY <1>4, <2>3, <3>1, <3>2, <3>3, <3>4 DEF Configure
  <2>2. ASSUME integration' = NoIntegration PROVE FALSE
    <3>1. integration' \in Integration
      <4>1. CASE Enable
        BY <2>1, <4>1 DEF Enable, Integration
      <4>2. CASE Disable
        BY <2>1, <4>2 DEF Disable, Disabled, SetConnected, Integration, Health
      <4>3. CASE Connect \/ Disconnect
        BY <2>1, <4>3 DEF Connect, Disconnect, SetConnected, Integration, Health
      <4>4. CASE CheckHealth
        BY <2>1, <4>4 DEF CheckHealth, SetConnected, Integration, Health
      <4>5. CASE Configure
        BY <2>1, <4>5 DEF Configure, Configured, Integration, Configuration, Health
      <4> QED
        BY <1>4, <4>1, <4>2, <4>3, <4>4, <4>5
    <3> QED
      BY <2>2, <3>1, NoRecord
  <2> QED
    BY <2>1, <2>2, <2>3
<1>5. CASE Unregister
  BY <1>1, <1>5 DEF Unregister, Registered
<1>6. CASE ProcessEnds
  BY <1>6 DEF ProcessEnds, Registered
<1> QED
  BY <1>2, <1>3, <1>4, <1>5, <1>6 DEF IntegrationNext

(* Identities.                                                               *)

\* Every identity that was drawn has one external identity it was drawn for; the table, both
\* caches of every mapper and what is being saved know it as that one only.
Drawn(owner) ==
  /\ owner \in [1 .. issued -> Externals]
  /\ \A e \in Externals : stored[e] # Unmapped => owner[stored[e]] = e
  /\ \A m \in Mappers, e \in Externals :
       externalToInternal[m][e] # Unmapped =>
         /\ owner[externalToInternal[m][e]] = e
         /\ internalToExternal[m][externalToInternal[m][e]] = e
  /\ \A m \in Mappers, i \in Identities :
       internalToExternal[m][i] # Unmapped => i <= issued /\ owner[i] = internalToExternal[m][i]
  /\ \A m \in Mappers : saving[m] # NotSaving => owner[saving[m].identity] = saving[m].external

\* The tables with their domains.
TablesTyped ==
  /\ issued \in 0 .. MaxIdentities
  /\ externalToInternal \in [Mappers -> [Externals -> (1 .. issued) \cup {Unmapped}]]
  /\ internalToExternal \in [Mappers -> [Identities -> Externals \cup {Unmapped}]]
  /\ stored \in [Externals -> (1 .. issued) \cup {Unmapped}]
  /\ saving \in [Mappers -> [external : Externals, identity : 1 .. issued] \cup {NotSaving}]

MappingInv == TablesTyped /\ \E owner \in [1 .. issued -> Externals] : Drawn(owner)

LEMMA MappingInitInv == MappingInit => MappingInv
<1> SUFFICES ASSUME MappingInit PROVE MappingInv
  OBVIOUS
<1>1. TablesTyped
  BY MappingAssumption DEF MappingInit, TablesTyped
<1>2. Drawn([i \in 1 .. issued |-> CHOOSE e \in Externals : TRUE])
  BY DEF MappingInit, Drawn
<1> QED
  BY <1>1, <1>2 DEF MappingInv, Drawn

\* An identity of e that is cached.
LEMMA CachedKeeps ==
  ASSUME NEW owner, TablesTyped, Drawn(owner), NEW m \in Mappers, NEW e \in Externals,
         NEW i \in 1 .. issued, owner[i] = e, Cached(m, e, i), UNCHANGED <<stored, saving, issued>>
  PROVE  TablesTyped' /\ Drawn(owner)'
<1> USE MappingAssumption DEF Identities
<1>1. TablesTyped'
  BY DEF TablesTyped, Cached
<1>2. ASSUME NEW n \in Mappers, NEW f \in Externals, externalToInternal'[n][f] # Unmapped
      PROVE  /\ owner[externalToInternal'[n][f]] = f
             /\ internalToExternal'[n][externalToInternal'[n][f]] = f
  <2>1. CASE n = m /\ f = e
    BY <2>1 DEF TablesTyped, Cached
  <2>2. CASE ~(n = m /\ f = e)
    <3>1. externalToInternal'[n][f] = externalToInternal[n][f]
      BY <2>2 DEF TablesTyped, Cached
    <3>2. /\ owner[externalToInternal[n][f]] = f /\ externalToInternal[n][f] \in 1 .. issued
          /\ internalToExternal[n][externalToInternal[n][f]] = f
      BY <1>2, <3>1 DEF Drawn, TablesTyped
    <3>3. n # m \/ externalToInternal[n][f] # i
      BY <2>2, <3>2
    <3>4. internalToExternal'[n][externalToInternal[n][f]] =
            internalToExternal[n][externalToInternal[n][f]]
      BY <3>2, <3>3 DEF TablesTyped, Cached
    <3> QED
      BY <3>1, <3>2, <3>4
  <2> QED
    BY <2>1, <2>2
<1>3. ASSUME NEW n \in Mappers, NEW j \in Identities, internalToExternal'[n][j] # Unmapped
      PROVE  j <= issued' /\ owner[j] = internalToExternal'[n][j]
  <2>1. CASE n = m /\ j = i
    BY <2>1 DEF TablesTyped, Cached
  <2>2. CASE ~(n = m /\ j = i)
    <3>1. internalToExternal'[n][j] = internalToExternal[n][j]
      BY <2>2 DEF TablesTyped, Cached
    <3> QED
      BY <1>3, <3>1 DEF Drawn
  <2> QED
    BY <2>1, <2>2
<1> QED
  BY <1>1, <1>2, <1>3 DEF Drawn

LEMMA MappingInvStep == MappingInv /\ [MappingNext]_mappingVars => MappingInv'
<1> SUFFICES ASSUME MappingInv, [MappingNext]_mappingVars PROVE MappingInv'
  OBVIOUS
<1> USE MappingAssumption DEF Identities
<1>1. TablesTyped
  BY DEF MappingInv
<1>2. PICK owner : Drawn(owner)
  BY DEF MappingInv
<1>3. ASSUME TablesTyped', Drawn(owner)' PROVE MappingInv'
  BY <1>3 DEF MappingInv, Drawn
<1>4. CASE UNCHANGED mappingVars
  BY <1>1, <1>2, <1>3, <1>4 DEF mappingVars, TablesTyped, Drawn
<1>5. ASSUME NEW m \in Mappers, NEW e \in Externals, MapStored(m, e) PROVE MappingInv'
  <2>1. stored[e] \in 1 .. issued /\ owner[stored[e]] = e
    BY <1>1, <1>2, <1>5 DEF MapStored, TablesTyped, Drawn
  <2> QED
    BY <1>1, <1>2, <1>3, <1>5, <2>1, CachedKeeps DEF MapStored
<1>6. ASSUME NEW m \in Mappers, NEW i \in Identities, GetExternal(m, i) PROVE MappingInv'
  <2>1. PICK e \in Externals : stored[e] = i /\ Cached(m, e, i)
    BY <1>6 DEF GetExternal
  <2>2. i \in 1 .. issued /\ owner[i] = e
    BY <1>1, <1>2, <2>1 DEF TablesTyped, Drawn
  <2> QED
    BY <1>1, <1>2, <1>3, <1>6, <2>1, <2>2, CachedKeeps DEF GetExternal
<1>7. ASSUME NEW m \in Mappers, Save(m) PROVE MappingInv'
  <2>1. /\ saving[m].external \in Externals /\ saving[m].identity \in 1 .. issued
        /\ owner[saving[m].identity] = saving[m].external
    BY <1>1, <1>2, <1>7 DEF TablesTyped, Drawn, Save
  <2>2. TablesTyped'
    BY <1>1, <1>7, <2>1 DEF TablesTyped, Save
  <2>3. \A e \in Externals : stored'[e] # Unmapped => owner[stored'[e]] = e
    BY <1>1, <1>2, <1>7, <2>1 DEF TablesTyped, Drawn, Save
  <2>4. \A n \in Mappers : saving'[n] # NotSaving => saving'[n] = saving[n]
    BY <1>1, <1>7 DEF TablesTyped, Save
  <2>5. Drawn(owner)'
    BY <1>2, <1>7, <2>3, <2>4 DEF Drawn, Save
  <2> QED
    BY <1>3, <2>2, <2>5
<1>8. ASSUME NEW m \in Mappers, SaveFails(m) PROVE MappingInv'
  <2>1. TablesTyped'
    BY <1>1, <1>8 DEF TablesTyped, SaveFails
  <2>2. \A n \in Mappers : saving'[n] # NotSaving => saving'[n] = saving[n]
    BY <1>1, <1>8 DEF TablesTyped, SaveFails
  <2>3. Drawn(owner)'
    BY <1>2, <1>8, <2>2 DEF Drawn, SaveFails
  <2> QED
    BY <1>3, <2>1, <2>3
<1>9. ASSUME NEW m \in Mappers, RestartMapper(m) PROVE MappingInv'
  <2>1. TablesTyped'
    BY <1>1, <1>9 DEF TablesTyped, RestartMapper
  <2>2. /\ \A n \in Mappers : saving'[n] # NotSaving => saving'[n] = saving[n]
        /\ \A n \in Mappers, e \in Externals : externalToInternal'[n][e] # Unmapped =>
             n # m /\ externalToInternal'[n] = externalToInternal[n]
        /\ \A n \in Mappers, i \in Identities : internalToExternal'[n][i] # Unmapped =>
             n # m /\ internalToExternal'[n] = internalToExternal[n]
        /\ \A n \in Mappers : n # m => internalToExternal'[n] = internalToExternal[n]
    BY <1>1, <1>9 DEF TablesTyped, RestartMapper
  <2>3. Drawn(owner)'
    BY <1>2, <1>9, <2>2 DEF Drawn, RestartMapper
  <2> QED
    BY <1>3, <2>1, <2>3
<1>10. ASSUME NEW m \in Mappers, NEW e \in Externals, MapNew(m, e) PROVE MappingInv'
  <2> PICK mine : mine = [i \in 1 .. issued' |-> IF i = issued' THEN e ELSE owner[i]]
    OBVIOUS
  <2>1. /\ issued \in Nat /\ issued' = issued + 1 /\ issued' \in 0 .. MaxIdentities
        /\ issued' \in 1 .. issued' /\ 1 .. issued \subseteq 1 .. issued'
        /\ issued' \notin 1 .. issued /\ NewIdentity = issued'
    BY <1>1, <1>10 DEF MapNew, TablesTyped, NewIdentity
  <2>2. /\ Cached(m, e, issued') /\ stored' = stored
        /\ saving' = [saving EXCEPT ![m] = [external |-> e, identity |-> issued']]
    BY <1>10, <2>1 DEF MapNew
  <2>3. /\ \A i \in 1 .. issued : mine[i] = owner[i] /\ owner[i] \in Externals
        /\ mine[issued'] = e /\ mine \in [1 .. issued' -> Externals]
    BY <1>2, <2>1 DEF Drawn
  <2>4. TablesTyped'
    <3>1. /\ externalToInternal' \in [Mappers -> [Externals -> (1 .. issued') \cup {Unmapped}]]
          /\ internalToExternal' \in [Mappers -> [Identities -> Externals \cup {Unmapped}]]
      BY <1>1, <2>1, <2>2 DEF TablesTyped, Cached
    <3>2. /\ stored' \in [Externals -> (1 .. issued') \cup {Unmapped}]
      BY <1>1, <2>1, <2>2 DEF TablesTyped
    <3>3. saving' \in [Mappers -> [external : Externals, identity : 1 .. issued'] \cup {NotSaving}]
      BY <1>1, <2>1, <2>2 DEF TablesTyped
    <3> QED
      BY <2>1, <3>1, <3>2, <3>3 DEF TablesTyped
  <2>5. \A f \in Externals : stored'[f] # Unmapped => mine[stored'[f]] = f
    BY <1>1, <1>2, <2>2, <2>3 DEF TablesTyped, Drawn
  <2>6. ASSUME NEW n \in Mappers, NEW f \in Externals, externalToInternal'[n][f] # Unmapped
        PROVE  /\ mine[externalToInternal'[n][f]] = f
               /\ internalToExternal'[n][externalToInternal'[n][f]] = f
    <3>1. CASE n = m /\ f = e
      BY <1>1, <2>1, <2>2, <2>3, <3>1 DEF TablesTyped, Cached
    <3>2. CASE ~(n = m /\ f = e)
      <4>1. externalToInternal'[n][f] = externalToInternal[n][f]
        BY <1>1, <2>2, <3>2 DEF TablesTyped, Cached
      <4>2. /\ owner[externalToInternal[n][f]] = f /\ externalToInternal[n][f] \in 1 .. issued
            /\ internalToExternal[n][externalToInternal[n][f]] = f
        BY <1>1, <1>2, <2>6, <4>1 DEF Drawn, TablesTyped
      <4>3. externalToInternal[n][f] # issued'
        BY <2>1, <4>2
      <4>4. internalToExternal'[n][externalToInternal[n][f]] =
              internalToExternal[n][externalToInternal[n][f]]
        BY <1>1, <2>1, <2>2, <4>2, <4>3 DEF TablesTyped, Cached
      <4> QED
        BY <2>3, <4>1, <4>2, <4>4
    <3> QED
      BY <3>1, <3>2
  <2>7. ASSUME NEW n \in Mappers, NEW j \in Identities, internalToExternal'[n][j] # Unmapped
        PROVE  j <= issued' /\ mine[j] = internalToExternal'[n][j]
    <3>1. CASE n = m /\ j = issued'
      BY <1>1, <2>1, <2>2, <2>3, <3>1 DEF TablesTyped, Cached
    <3>2. CASE ~(n = m /\ j = issued')
      <4>1. internalToExternal'[n][j] = internalToExternal[n][j]
        BY <1>1, <2>1, <2>2, <3>2 DEF TablesTyped, Cached
      <4>2. j \in 1 .. issued /\ owner[j] = internalToExternal[n][j]
        BY <1>2, <2>1, <2>7, <4>1 DEF Drawn
      <4> QED
        BY <2>1, <2>3, <4>1, <4>2
    <3> QED
      BY <3>1, <3>2
  <2>8. ASSUME NEW n \in Mappers, saving'[n] # NotSaving
        PROVE  mine[saving'[n].identity] = saving'[n].external
    <3>1. CASE n = m
      BY <1>1, <2>2, <2>3, <3>1 DEF TablesTyped
    <3>2. CASE n # m
      <4>1. saving'[n] = saving[n] /\ saving[n].identity \in 1 .. issued
        BY <1>1, <2>2, <2>8, <3>2 DEF TablesTyped
      <4> QED
        BY <1>2, <2>3, <2>8, <4>1 DEF Drawn
    <3> QED
      BY <3>1, <3>2
  <2>9. Drawn(mine)'
    BY <2>3, <2>5, <2>6, <2>7, <2>8 DEF Drawn
  <2> QED
    BY <2>4, <2>9 DEF MappingInv, Drawn
<1> QED
  BY <1>4, <1>5, <1>6, <1>7, <1>8, <1>9, <1>10 DEF MappingNext

LEMMA MappingInvImplies == MappingInv => MappingTypeOK /\ OneExternalEach
<1> SUFFICES ASSUME MappingInv PROVE MappingTypeOK /\ OneExternalEach
  OBVIOUS
<1> USE MappingAssumption DEF Identities
<1>1. TablesTyped
  BY DEF MappingInv
<1>2. PICK owner : Drawn(owner)
  BY DEF MappingInv
<1>3. MappingTypeOK
  BY <1>1 DEF TablesTyped, MappingTypeOK
<1>4. ASSUME NEW e \in Externals, NEW i \in KnownAs(e) PROVE owner[i] = e
  BY <1>1, <1>2, <1>4 DEF KnownAs, Drawn, TablesTyped
<1>5. ASSUME NEW e \in Externals, NEW f \in Externals, e # f PROVE KnownAs(e) \cap KnownAs(f) = {}
  BY <1>4, <1>5
<1> QED
  BY <1>2, <1>3, <1>5 DEF OneExternalEach, Drawn

LEMMA AnswersStep == MappingInv /\ [MappingNext]_mappingVars => AnswersAreStable
<1> SUFFICES ASSUME TablesTyped, MappingNext, NEW n \in Mappers, NEW f \in Externals,
                    externalToInternal[n][f] # Unmapped,
                    externalToInternal'[n][f] # externalToInternal[n][f]
             PROVE  externalToInternal'[n][f] = Unmapped \/ externalToInternal'[n][f] = stored[f]
  BY DEF AnswersAreStable, MappingInv, mappingVars
<1>1. ASSUME NEW m \in Mappers, NEW e \in Externals, NEW i, Cached(m, e, i),
             externalToInternal[m][e] = Unmapped
      PROVE  externalToInternal'[n][f] = externalToInternal[n][f]
  BY <1>1 DEF Cached, TablesTyped
<1>2. ASSUME NEW m \in Mappers, NEW e \in Externals, MapStored(m, e) \/ MapNew(m, e) PROVE FALSE
  BY <1>1, <1>2 DEF MapStored, MapNew
<1>3. ASSUME NEW m \in Mappers, NEW i \in Identities, GetExternal(m, i)
      PROVE  externalToInternal'[n][f] = stored[f]
  BY <1>3 DEF GetExternal, Cached, TablesTyped
<1>4. ASSUME NEW m \in Mappers, RestartMapper(m) PROVE externalToInternal'[n][f] = Unmapped
  BY <1>4 DEF RestartMapper, TablesTyped
<1> QED
  BY <1>2, <1>3, <1>4 DEF MappingNext, Save, SaveFails

(* Provisioning.                                                             *)

\* What is authorized was validated with credentials that are stored.
ProvisioningInv ==
  /\ ProvisioningTypeOK /\ ProgressIsBacked
  /\ authorized => credentials # NoCredentials

LEMMA ProvisioningInitInv == ProvisioningInit => ProvisioningInv
  BY DEF ProvisioningInit, ProvisioningInv, ProvisioningTypeOK, ProgressIsBacked, SetupStep,
         JsonValidated, ProvisioningState

LEMMA ProvisioningInvStep ==
  ProvisioningInv /\ [ProvisioningNext]_provisioningVars => ProvisioningInv' /\ NothingIsTakenBack
<1> SUFFICES ASSUME ProvisioningInv, [ProvisioningNext]_provisioningVars
             PROVE  ProvisioningInv' /\ NothingIsTakenBack
  OBVIOUS
<1> USE ProvisioningAssumption
    DEF ProvisioningInv, ProvisioningTypeOK, ProgressIsBacked, SetupStep, JsonValidated,
        ProvisioningState, RestoredStates, SaveState, NothingIsTakenBack
<1>1. CASE ImportInvalid
  BY <1>1 DEF ImportInvalid
<1>2. ASSUME NEW json \in CredentialFiles, ImportOAuth(json)
      PROVE  ProvisioningInv' /\ NothingIsTakenBack
  BY <1>2 DEF ImportOAuth
<1>3. CASE BeginAuthorization
  BY <1>3 DEF BeginAuthorization, MayAuthorize
<1>4. CASE MarkAuthorized
  BY <1>4 DEF MarkAuthorized, MayAuthorize, Authorized
<1>5. ASSUME NEW success \in BOOLEAN, MarkConnectionTested(success)
      PROVE  ProvisioningInv' /\ NothingIsTakenBack
  BY <1>5 DEF MarkConnectionTested
<1>6. CASE RestartProvisioning
  <2>1. /\ validated' = (setupState \in RestoredStates)
        /\ authorized' = (setupState \in RestoredStates)
        /\ connectionTested' = FALSE /\ UNCHANGED <<credentials, setupState>>
    BY <1>6 DEF RestartProvisioning
  <2>2. CASE setupState \in RestoredStates
    <3>1. validated' = TRUE /\ authorized' = TRUE /\ credentials # NoCredentials
      BY <2>1, <2>2
    <3> QED
      BY <2>1, <3>1
  <2>3. CASE ~(setupState \in RestoredStates)
    <3>1. validated' = FALSE /\ authorized' = FALSE
      <4> HIDE DEF RestoredStates, ProvisioningInv, ProvisioningTypeOK, ProgressIsBacked
      <4> QED
        <5>1. (setupState \in RestoredStates) = FALSE
          BY <2>3
        <5> QED
          BY <2>1, <5>1
    <3>2. setupState \notin {"authorized", "connection_tested", "active"}
      BY <2>3
    <3>3. SetupStep' = SetupStep /\ SetupStep \in {"welcome", "authorization"}
      BY <2>1, <3>2
    <3>4. SetupStep # "welcome" => setupState \in {"validated", "authorization_pending"}
      BY <3>2
    <3>5. ProvisioningTypeOK'
      BY <2>1, <3>1
    <3>6. ProgressIsBacked'
      BY <2>1, <3>1, <3>3, <3>4
    <3> QED
      BY <2>1, <3>1, <3>2, <3>5, <3>6
  <2> QED
    BY <2>2, <2>3
<1>7. CASE UNCHANGED provisioningVars
  BY <1>7 DEF provisioningVars
<1> QED
  BY <1>1, <1>2, <1>3, <1>4, <1>5, <1>6, <1>7 DEF ProvisioningNext

(* Synchronization.                                                          *)

\* Records kept under some of the events.
Records == UNION {[D -> SyncRecord] : D \in SUBSET Events}

SyncInv ==
  /\ connectivity \in {"online", "offline", "unknown"}
  /\ queue \in Records /\ buffer \in Records
  /\ seen \subseteq Events /\ envelopes \in Nat /\ acknowledged \subseteq Events
  /\ reported \subseteq Events
  /\ BufferMirrorsQueue /\ CollectedIsQueued
  /\ \A e \in DOMAIN queue : queue[e].state = "synced" => e \in acknowledged

LEMMA RecordsAre ==
  ASSUME NEW r
  PROVE  r \in Records <=> /\ DOMAIN r \subseteq Events
                           /\ r = [e \in DOMAIN r |-> r[e]]
                           /\ \A e \in DOMAIN r : r[e] \in SyncRecord
  BY DEF Records

LEMMA SyncInvImplies == SyncInv => SyncTypeOK /\ BufferMirrorsQueue /\ ExposedIsOpen /\ CollectedIsQueued
<1> SUFFICES ASSUME SyncInv PROVE SyncTypeOK /\ ExposedIsOpen
  BY DEF SyncInv
<1>1. RecordsOf(queue) /\ RecordsOf(buffer)
  BY RecordsAre DEF SyncInv, RecordsOf, Range
<1>2. SyncTypeOK
  BY <1>1 DEF SyncInv, SyncTypeOK
<1>3. ExposedIsOpen
  BY DEF SyncInv, ExposedIsOpen, BufferMirrorsQueue, Exposed, PendingOf
<1> QED
  BY <1>2, <1>3

LEMMA SyncInitInv == SyncInit => SyncInv
<1> SUFFICES ASSUME SyncInit PROVE SyncInv
  OBVIOUS
<1>1. NoRecords \in Records /\ DOMAIN NoRecords = {}
  BY RecordsAre DEF NoRecords
<1>2. Cardinality({}) = 0
  BY FS_EmptySet
<1> QED
  BY <1>1, <1>2 DEF SyncInit, SyncInv, BufferMirrorsQueue, CollectedIsQueued

\* What is there stays, and what is new is the record that was given.
IsKept(s, r, keys, new) ==
  /\ s \in Records /\ DOMAIN s = DOMAIN r \cup keys
  /\ \A x \in DOMAIN r : s[x] = r[x]
  /\ \A x \in keys : x \notin DOMAIN r => s[x] = new

LEMMA KeptIs ==
  ASSUME NEW r \in Records, NEW keys \in SUBSET Events, NEW new \in SyncRecord
  PROVE  IsKept(Kept(r, keys, new), r, keys, new)
<1>1. /\ DOMAIN Kept(r, keys, new) = DOMAIN r \cup keys
      /\ \A x \in DOMAIN r : Kept(r, keys, new)[x] = r[x]
      /\ \A x \in keys : x \notin DOMAIN r => Kept(r, keys, new)[x] = new
      /\ Kept(r, keys, new) = [x \in DOMAIN Kept(r, keys, new) |-> Kept(r, keys, new)[x]]
  BY DEF Kept
<1>2. Kept(r, keys, new) \in Records
  BY <1>1, RecordsAre
<1> QED
  BY <1>1, <1>2 DEF IsKept

\* An answer for a record changes that one, if it is there.
IsMarked(m, r, e, s) ==
  /\ m \in Records /\ DOMAIN m = DOMAIN r
  /\ \A x \in DOMAIN r : x # e => m[x] = r[x]
  /\ e \in DOMAIN r =>
       m[e] = [state |-> s, attempts |-> r[e].attempts + 1, error |-> (s = "failed")]

LEMMA MarkedIs ==
  ASSUME NEW r \in Records, NEW e, NEW s \in {"synced", "failed"}
  PROVE  IsMarked(Marked(r, e, s), r, e, s)
<1>1. /\ DOMAIN Marked(r, e, s) = DOMAIN r
      /\ \A x \in DOMAIN r : x # e => Marked(r, e, s)[x] = r[x]
      /\ e \in DOMAIN r => Marked(r, e, s)[e] =
           [state |-> s, attempts |-> r[e].attempts + 1, error |-> (s = "failed")]
      /\ Marked(r, e, s) = [x \in DOMAIN Marked(r, e, s) |-> Marked(r, e, s)[x]]
  BY DEF Marked
<1>2. ASSUME e \in DOMAIN r
      PROVE  [state |-> s, attempts |-> r[e].attempts + 1, error |-> (s = "failed")] \in SyncRecord
  <2>1. r[e].attempts \in Nat
    BY <1>2, RecordsAre DEF SyncRecord
  <2> QED
    BY <2>1 DEF SyncRecord, SyncState
<1>3. \A x \in DOMAIN r : Marked(r, e, s)[x] \in SyncRecord
  BY <1>1, <1>2, RecordsAre
<1>4. Marked(r, e, s) \in Records
  BY <1>1, <1>3, RecordsAre
<1> QED
  BY <1>1, <1>4 DEF IsMarked

\* Events that were not seen add their number to the envelopes.
LEMMA SeenIsCounted ==
  ASSUME NEW S \in SUBSET Events, NEW T \in SUBSET Events, S \cap T = {}
  PROVE  /\ Cardinality(S \cup T) = Cardinality(S) + Cardinality(T)
         /\ Cardinality(S) \in Nat /\ Cardinality(T) \in Nat
<1>1. IsFiniteSet(S) /\ IsFiniteSet(T)
  BY SyncAssumption, FS_Subset
<1>2. Cardinality(S) \in Nat /\ Cardinality(T) \in Nat
  BY <1>1, FS_CardinalityType
<1>3. Cardinality(S \cup T) = Cardinality(S) + Cardinality(T) - Cardinality({})
  BY <1>1, FS_Union
<1>4. Cardinality({}) = 0
  BY FS_EmptySet
<1> QED
  BY <1>2, <1>3, <1>4

\* An answer that both get.
LEMMA AnswerStep ==
  ASSUME SyncInv, NEW e \in DOMAIN queue, NEW s \in {"synced", "failed"},
         queue' = Marked(queue, e, s), buffer' = Marked(buffer, e, s),
         acknowledged' \in SUBSET Events, acknowledged \subseteq acknowledged',
         s = "synced" => e \in acknowledged', UNCHANGED <<connectivity, seen, envelopes, reported>>
  PROVE  SyncInv'
<1>1. /\ queue' \in Records /\ DOMAIN queue' = DOMAIN queue
      /\ \A x \in DOMAIN queue : x # e => queue'[x] = queue[x]
      /\ queue'[e] = [state |-> s, attempts |-> queue[e].attempts + 1, error |-> (s = "failed")]
      /\ buffer' \in Records /\ DOMAIN buffer' = DOMAIN buffer
      /\ \A x \in DOMAIN buffer : x # e => buffer'[x] = buffer[x]
      /\ e \in DOMAIN buffer => buffer'[e] =
           [state |-> s, attempts |-> buffer[e].attempts + 1, error |-> (s = "failed")]
  <2>1. IsMarked(queue', queue, e, s) /\ IsMarked(buffer', buffer, e, s)
    BY MarkedIs DEF SyncInv
  <2> QED
    BY <2>1 DEF IsMarked
<1>2. BufferMirrorsQueue'
  BY <1>1 DEF SyncInv, BufferMirrorsQueue
<1>3. CollectedIsQueued'
  BY <1>1 DEF SyncInv, CollectedIsQueued
<1>4. \A x \in DOMAIN queue' : queue'[x].state = "synced" => x \in acknowledged'
  BY <1>1 DEF SyncInv
<1> QED
  BY <1>1, <1>2, <1>3, <1>4 DEF SyncInv

LEMMA SyncInvStep == SyncInv /\ [SyncNext]_syncVars => SyncInv'
<1> SUFFICES ASSUME SyncInv, [SyncNext]_syncVars PROVE SyncInv'
  OBVIOUS
<1>1. NewRecord \in SyncRecord /\ NewRecord.state = "pending"
  BY DEF NewRecord, SyncRecord, SyncState
<1>2. queue \in Records /\ buffer \in Records
  BY DEF SyncInv
<1>3. CASE SetConnectivity
  BY <1>3 DEF SetConnectivity, SyncInv, BufferMirrorsQueue, CollectedIsQueued
<1>4. CASE UNCHANGED syncVars
  BY <1>4 DEF syncVars, SyncInv, BufferMirrorsQueue, CollectedIsQueued
<1>5. CASE ResetSeen
  <2>1. Cardinality({}) = 0
    BY FS_EmptySet
  <2>2. CollectedIsQueued'
    BY <1>5, <2>1 DEF ResetSeen, SyncInv, CollectedIsQueued
  <2> QED
    BY <1>5, <2>2 DEF ResetSeen, SyncInv, BufferMirrorsQueue
<1>6. CASE ClearFailed
  <2>1. /\ DOMAIN buffer' = DOMAIN buffer
        /\ \A e \in DOMAIN buffer :
             buffer'[e] = IF buffer[e].state = "failed" THEN Cleared(buffer[e]) ELSE buffer[e]
        /\ buffer' = [e \in DOMAIN buffer' |-> buffer'[e]]
        /\ UNCHANGED <<connectivity, queue, seen, envelopes, acknowledged, reported>>
    BY <1>6 DEF ClearFailed, Clearable
  <2>2. ASSUME NEW record \in SyncRecord
        PROVE  /\ Cleared(record) \in SyncRecord /\ Cleared(record).state = "pending"
               /\ Cleared(record).attempts = record.attempts
    BY DEF Cleared, SyncRecord, SyncState
  <2>3. \A e \in DOMAIN buffer : buffer[e] \in SyncRecord
    BY <1>2, RecordsAre
  <2>4. buffer' \in Records
    BY <1>2, <2>1, <2>2, <2>3, RecordsAre
  <2>5. BufferMirrorsQueue'
    BY <2>1, <2>2, <2>3 DEF SyncInv, BufferMirrorsQueue
  <2> QED
    BY <2>1, <2>4, <2>5 DEF SyncInv, CollectedIsQueued
<1>7. ASSUME NEW e \in Events, PrepareCloudSync(e) PROVE SyncInv'
  <2>1. /\ queue' = Kept(queue, {e}, NewRecord) /\ buffer' = Kept(buffer, {e}, queue'[e])
        /\ e \notin Malformed /\ UNCHANGED <<connectivity, seen, envelopes, acknowledged, reported>>
    BY <1>7 DEF PrepareCloudSync, Enqueue
  <2>2. /\ queue' \in Records /\ DOMAIN queue' = DOMAIN queue \cup {e}
        /\ \A x \in DOMAIN queue : queue'[x] = queue[x]
        /\ e \notin DOMAIN queue => queue'[e] = NewRecord
    <3>1. {e} \in SUBSET Events
      OBVIOUS
    <3>2. IsKept(queue', queue, {e}, NewRecord)
      BY <1>1, <1>2, <2>1, <3>1, KeptIs
    <3> QED
      BY <3>2 DEF IsKept
  <2>3. queue'[e] \in SyncRecord
    BY <1>1, <1>2, <2>2, RecordsAre
  <2>4. /\ buffer' \in Records /\ DOMAIN buffer' = DOMAIN buffer \cup {e}
        /\ \A x \in DOMAIN buffer : buffer'[x] = buffer[x]
        /\ e \notin DOMAIN buffer => buffer'[e] = queue'[e]
    <3>1. {e} \in SUBSET Events
      OBVIOUS
    <3>2. IsKept(buffer', buffer, {e}, queue'[e])
      BY <1>2, <2>1, <2>3, <3>1, KeptIs
    <3> QED
      BY <3>2 DEF IsKept
  <2>5. BufferMirrorsQueue'
    BY <2>2, <2>4 DEF SyncInv, BufferMirrorsQueue
  <2>6. CollectedIsQueued'
    BY <2>1, <2>2 DEF SyncInv, CollectedIsQueued
  <2>7. \A x \in DOMAIN queue' : queue'[x].state = "synced" => x \in acknowledged'
    BY <1>1, <2>1, <2>2 DEF SyncInv
  <2> QED
    BY <2>1, <2>2, <2>4, <2>5, <2>6, <2>7 DEF SyncInv
<1>8. ASSUME NEW e \in Events, AcknowledgeCloudSync(e) PROVE SyncInv'
  BY <1>8, AnswerStep DEF AcknowledgeCloudSync, SyncInv
<1>9. ASSUME NEW e \in Events, FailCloudSync(e) PROVE SyncInv'
  BY <1>9, AnswerStep DEF FailCloudSync, SyncInv
<1>10. ASSUME NEW batch \in SUBSET Events, Collect(batch) PROVE SyncInv'
  <2> DEFINE taken == Accepted(batch)
  <2>1. /\ taken \subseteq Events /\ taken \cap (Foreign \cup seen) = {}
    BY DEF Accepted
  <2>2. /\ seen' = seen \cup taken /\ envelopes' = envelopes + Cardinality(taken)
        /\ queue' = Kept(queue, taken \ Malformed, NewRecord)
        /\ reported' = IF taken \cap Malformed = {} THEN reported \cup taken ELSE reported
        /\ UNCHANGED <<connectivity, buffer, acknowledged>>
    BY <1>10 DEF Collect, QueuedOf
  <2> HIDE DEF taken
  <2>3. /\ queue' \in Records /\ DOMAIN queue' = DOMAIN queue \cup (taken \ Malformed)
        /\ \A x \in DOMAIN queue : queue'[x] = queue[x]
        /\ \A x \in taken \ Malformed : x \notin DOMAIN queue => queue'[x] = NewRecord
    <3>1. taken \ Malformed \in SUBSET Events
      BY <2>1
    <3>2. IsKept(queue', queue, taken \ Malformed, NewRecord)
      BY <1>1, <1>2, <2>2, <3>1, KeptIs
    <3> QED
      BY <3>2 DEF IsKept
  <2>4. /\ Cardinality(seen') = Cardinality(seen) + Cardinality(taken)
        /\ Cardinality(seen) \in Nat /\ Cardinality(taken) \in Nat
    BY <2>1, <2>2, SeenIsCounted DEF SyncInv
  <2>5. BufferMirrorsQueue'
    BY <2>2, <2>3 DEF SyncInv, BufferMirrorsQueue
  <2>6. CollectedIsQueued'
    <3>1. reported' \cup (seen' \ Malformed) \subseteq DOMAIN queue'
      BY <2>2, <2>3 DEF SyncInv, CollectedIsQueued
    <3>2. Foreign \cap seen' = {} /\ DOMAIN queue' \cap Malformed = {}
      BY <2>1, <2>2, <2>3 DEF SyncInv, CollectedIsQueued
    <3>3. Cardinality(seen') <= envelopes'
      BY <2>2, <2>4 DEF SyncInv, CollectedIsQueued
    <3> QED
      BY <3>1, <3>2, <3>3 DEF CollectedIsQueued
  <2>7. \A x \in DOMAIN queue' : queue'[x].state = "synced" => x \in acknowledged'
    BY <1>1, <2>2, <2>3 DEF SyncInv
  <2>8. seen' \subseteq Events /\ envelopes' \in Nat /\ reported' \subseteq Events
    BY <2>1, <2>2, <2>4 DEF SyncInv
  <2> QED
    BY <2>2, <2>3, <2>5, <2>6, <2>7, <2>8 DEF SyncInv
<1> QED
  BY <1>3, <1>4, <1>5, <1>6, <1>7, <1>8, <1>9, <1>10 DEF SyncNext

\* Neither structure forgets a record or an attempt.
Grows(r, s) ==
  \A e \in DOMAIN r :
    /\ e \in DOMAIN s /\ s[e].attempts >= r[e].attempts
    /\ s[e].state # r[e].state => s[e].attempts > r[e].attempts \/ r[e].state = "failed"

LEMMA AttemptsStep == SyncInv /\ [SyncNext]_syncVars => AttemptsAreKept
<1> SUFFICES ASSUME SyncInv, SyncNext PROVE Grows(queue, queue') /\ Grows(buffer, buffer')
  BY DEF AttemptsAreKept, Grows
<1>1. /\ queue \in Records /\ buffer \in Records
      /\ \A r \in {queue, buffer} : \A e \in DOMAIN r : r[e] \in SyncRecord /\ r[e].attempts \in Nat
  BY RecordsAre DEF SyncInv, SyncRecord
<1>2. ASSUME NEW r \in {queue, buffer} PROVE Grows(r, r)
  BY <1>1 DEF Grows
<1>3. ASSUME NEW r \in {queue, buffer}, NEW e, NEW s \in {"synced", "failed"}
      PROVE  Grows(r, Marked(r, e, s))
  <2>1. /\ DOMAIN Marked(r, e, s) = DOMAIN r
        /\ \A x \in DOMAIN r : x # e => Marked(r, e, s)[x] = r[x]
        /\ e \in DOMAIN r => Marked(r, e, s)[e].attempts = r[e].attempts + 1
    <3>1. IsMarked(Marked(r, e, s), r, e, s)
      BY <1>1, MarkedIs
    <3> QED
      BY <3>1 DEF IsMarked
  <2> QED
    BY <1>1, <2>1 DEF Grows
<1>4. ASSUME NEW r \in {queue, buffer}, NEW keys \in SUBSET Events, NEW new \in SyncRecord
      PROVE  Grows(r, Kept(r, keys, new))
  <2>1. IsKept(Kept(r, keys, new), r, keys, new)
    BY <1>1, KeptIs
  <2> QED
    BY <1>1, <2>1 DEF Grows, IsKept
<1>5. NewRecord \in SyncRecord
  BY DEF NewRecord, SyncRecord, SyncState
<1>6. CASE SetConnectivity \/ ResetSeen
  BY <1>2, <1>6 DEF SetConnectivity, ResetSeen
<1>7. CASE ClearFailed
  <2>1. ASSUME NEW e \in DOMAIN buffer
        PROVE  /\ buffer'[e] = IF buffer[e].state = "failed" THEN Cleared(buffer[e]) ELSE buffer[e]
               /\ Cleared(buffer[e]).attempts = buffer[e].attempts
    BY <1>1, <1>7 DEF ClearFailed, Clearable, Cleared, SyncRecord
  <2>2. DOMAIN buffer' = DOMAIN buffer
    BY <1>7 DEF ClearFailed
  <2> QED
    BY <1>1, <1>2, <1>7, <2>1, <2>2 DEF Grows, ClearFailed
<1>8. ASSUME NEW e \in Events, PrepareCloudSync(e)
      PROVE  Grows(queue, queue') /\ Grows(buffer, buffer')
  <2>1. queue' = Kept(queue, {e}, NewRecord) /\ buffer' = Kept(buffer, {e}, queue'[e])
    BY <1>8 DEF PrepareCloudSync, Enqueue
  <2>2. queue'[e] \in SyncRecord
    <3>1. {e} \in SUBSET Events
      OBVIOUS
    <3>2. IsKept(queue', queue, {e}, NewRecord)
      BY <1>1, <1>5, <2>1, <3>1, KeptIs
    <3> QED
      BY <1>1, <1>5, <3>2, RecordsAre DEF IsKept
  <2> QED
    BY <1>4, <1>5, <2>1, <2>2
<1>9. ASSUME NEW e \in Events, AcknowledgeCloudSync(e) \/ FailCloudSync(e)
      PROVE  Grows(queue, queue') /\ Grows(buffer, buffer')
  BY <1>3, <1>9 DEF AcknowledgeCloudSync, FailCloudSync
<1>10. ASSUME NEW batch \in SUBSET Events, Collect(batch)
       PROVE  Grows(queue, queue') /\ Grows(buffer, buffer')
  <2>1. QueuedOf(Accepted(batch)) \subseteq Events
    BY DEF QueuedOf, Accepted
  <2> QED
    BY <1>2, <1>4, <1>5, <1>10, <2>1 DEF Collect
<1> QED
  BY <1>6, <1>7, <1>8, <1>9, <1>10 DEF SyncNext

(* The distributed node.                                                     *)

\* What the answers of a node and its host say of the runtime below.
Agrees(up, state, e) ==
  /\ e \in [on : BOOLEAN, state : EmbeddedState, scheduler : BOOLEAN]
  /\ e.on <=> e.state \in {"running", "stopping"}
  /\ e.on => e.scheduler
  /\ state = "failed" => ~e.on
  /\ up => e.state \in {"running", "stopping", "license_expired"}
  /\ ~up => e.state # "running"

\* The tables of governance with their domain, and the answers of the node.
NodeInv ==
  /\ trust \in TrustState /\ host \in {"stopped", "running", "failed"}
  /\ running = (host = "running")
  /\ requests \in [GovernedIds -> BOOLEAN \cup {NotGoverned}]
  /\ results \in [GovernedIds -> GovernanceResult \cup {NotGoverned}]
  /\ ApprovedWasEligible /\ Agrees(running, host, embedded)

LEMMA NodeInitInv == NodeInit => NodeInv
<1> SUFFICES ASSUME NodeInit PROVE NodeInv
  OBVIOUS
<1>1. /\ requests \in [GovernedIds -> BOOLEAN \cup {NotGoverned}]
      /\ results \in [GovernedIds -> GovernanceResult \cup {NotGoverned}] /\ ApprovedWasEligible
  BY DEF NodeInit, ApprovedWasEligible
<1>2. Agrees(running, host, embedded)
  BY DEF NodeInit, EmbeddedState, Agrees
<1> QED
  BY <1>1, <1>2 DEF NodeInit, NodeInv, TrustState

\* What governance keeps of one request.
Lawful(request, result) ==
  /\ request = ~result.issues
  /\ result.workflow = "approved" => ~result.issues
  /\ (result.issues /\ result.status = "approved_for_review") =>
       result.workflow \in {"rejected", "modified"}
  /\ result.reviews = IF result.workflow = "pending" THEN 0 ELSE 1

LEMMA LawfulIs ==
  ApprovedWasEligible <=> \A r \in GovernedIds : results[r] # NotGoverned => Lawful(requests[r], results[r])
  BY DEF ApprovedWasEligible, Lawful

LEMMA NewResultIs ==
  ASSUME NEW valid \in BOOLEAN
  PROVE  NewResult(valid) \in GovernanceResult /\ Lawful(valid, NewResult(valid))
  BY DEF NewResult, GovernanceResult, WorkflowStatus, Lawful

\* A decision about a request that waits: an approval needs that nothing was found.
LEMMA DecisionIs ==
  ASSUME NEW request, NEW result \in GovernanceResult, Lawful(request, result), Undecided(result),
         NEW status \in {"approved", "rejected", "modified"},
         status = "approved" => result.status = "approved_for_review"
  PROVE  Decision(result, status) \in GovernanceResult /\ Lawful(request, Decision(result, status))
<1>1. /\ Decision(result, status).workflow = status
      /\ Decision(result, status).status = "approved_for_review"
      /\ Decision(result, status).issues = result.issues
      /\ Decision(result, status).reviews = 1 /\ result.issues \in BOOLEAN
      /\ Decision(result, status) \in GovernanceResult
  <2>1. result.issues \in BOOLEAN /\ result.reviews = 0
    BY DEF GovernanceResult, Lawful, Undecided
  <2>2. Decision(result, status).workflow = status
    BY DEF Decision, GovernanceResult
  <2>3. Decision(result, status).status = "approved_for_review"
    BY DEF Decision, GovernanceResult
  <2>4. Decision(result, status).issues = result.issues
    BY DEF Decision, GovernanceResult
  <2>5. Decision(result, status).reviews = 1
    BY <2>1 DEF Decision, GovernanceResult
  <2>6. Decision(result, status) \in GovernanceResult
    <3> PICK d : d = Decision(result, status)
      OBVIOUS
    <3>1. d = [status |-> d.status, issues |-> d.issues, workflow |-> d.workflow,
               reviews |-> d.reviews]
      BY DEF Decision, GovernanceResult
    <3>2. /\ d.status = "approved_for_review" /\ d.issues \in BOOLEAN
          /\ d.workflow \in WorkflowStatus /\ d.reviews \in Nat
      BY <2>1, <2>2, <2>3, <2>4, <2>5 DEF WorkflowStatus
    <3> QED
      BY <3>1, <3>2 DEF GovernanceResult
  <2> QED
    BY <2>1, <2>2, <2>3, <2>4, <2>5, <2>6
<1>2. status = "approved" => ~result.issues
  BY DEF Lawful, Undecided
<1> QED
  BY <1>1, <1>2 DEF Lawful

LEMMA NodeInvStep == NodeInv /\ [NodeNext]_nodeVars => NodeInv'
<1> SUFFICES ASSUME NodeInv, [NodeNext]_nodeVars PROVE NodeInv'
  OBVIOUS
<1>1. /\ \A r \in GovernedIds : results[r] # NotGoverned =>
           results[r] \in GovernanceResult /\ Lawful(requests[r], results[r])
      /\ requests \in [GovernedIds -> BOOLEAN \cup {NotGoverned}]
      /\ results \in [GovernedIds -> GovernanceResult \cup {NotGoverned}]
  BY LawfulIs DEF NodeInv
<1>2. (UNCHANGED requestVars) => ApprovedWasEligible'
  BY DEF NodeInv, ApprovedWasEligible, requestVars
<1>3. CASE ChangeTrust
  <2>1. trust' \in TrustState /\ UNCHANGED <<requestVars, hostVars>>
    BY <1>3 DEF ChangeTrust, SetTrust
  <2> QED
    BY <1>2, <2>1 DEF NodeInv, requestVars, hostVars
<1>4. CASE UNCHANGED nodeVars
  <2>1. UNCHANGED requestVars
    BY <1>4 DEF nodeVars, requestVars
  <2> QED
    BY <1>2, <1>4, <2>1 DEF NodeInv, nodeVars
\* What a change of one request leaves to show.
<1>5. ASSUME NEW r \in GovernedIds, NEW result \in GovernanceResult,
             requests' \in [GovernedIds -> BOOLEAN \cup {NotGoverned}],
             \A q \in GovernedIds : q # r => requests'[q] = requests[q],
             results' = [results EXCEPT ![r] = result], Lawful(requests'[r], result),
             UNCHANGED <<trustVars, hostVars>>
      PROVE  NodeInv'
  <2>1. /\ results' \in [GovernedIds -> GovernanceResult \cup {NotGoverned}] /\ results'[r] = result
        /\ \A q \in GovernedIds : q # r => results'[q] = results[q]
    BY <1>1, <1>5
  <2>2. \A q \in GovernedIds : results'[q] # NotGoverned => Lawful(requests'[q], results'[q])
    BY <1>1, <1>5, <2>1
  <2>3. ApprovedWasEligible'
    BY <2>2 DEF ApprovedWasEligible, Lawful
  <2> QED
    BY <1>5, <2>1, <2>3 DEF NodeInv, trustVars, hostVars
<1>6. ASSUME NEW r \in GovernedIds, NEW v \in BOOLEAN, Submit(r, v) PROVE NodeInv'
  <2>1. CASE MayRecord(r, v)
    <3>1. /\ requests' = [requests EXCEPT ![r] = v]
          /\ results' = [results EXCEPT ![r] = NewResult(v)] /\ UNCHANGED <<trustVars, hostVars>>
      BY <1>6, <2>1 DEF Submit
    <3>2. requests' \in [GovernedIds -> BOOLEAN \cup {NotGoverned}] /\ requests'[r] = v
          /\ \A q \in GovernedIds : q # r => requests'[q] = requests[q]
      BY <1>1, <3>1
    <3>3. NewResult(v) \in GovernanceResult /\ Lawful(requests'[r], NewResult(v))
      BY <3>2, NewResultIs
    <3> QED
      BY <1>5, <3>1, <3>2, <3>3
  <2>2. CASE ~MayRecord(r, v)
    <3>1. UNCHANGED <<requestVars, trustVars, hostVars>>
      BY <1>6, <2>2 DEF Submit
    <3>2. UNCHANGED requestVars
      BY <3>1
    <3> QED
      BY <1>2, <3>1, <3>2 DEF NodeInv, requestVars, trustVars, hostVars
  <2> QED
    BY <2>1, <2>2
<1>7. ASSUME NEW r \in GovernedIds, Approve(r) \/ RejectOrModify(r) PROVE NodeInv'
  <2>1. PICK status \in {"approved", "rejected", "modified"} :
          /\ status = "approved" => results[r].status = "approved_for_review"
          /\ results[r] # NotGoverned /\ Undecided(results[r])
          /\ results' = [results EXCEPT ![r] = Decision(results[r], status)]
          /\ UNCHANGED <<trustVars, requests, hostVars>>
    BY <1>7 DEF Approve, RejectOrModify, Eligible
  <2>2. /\ Decision(results[r], status) \in GovernanceResult
        /\ Lawful(requests[r], Decision(results[r], status))
    BY <1>1, <2>1, DecisionIs
  <2>3. requests' = requests /\ UNCHANGED <<trustVars, hostVars>>
    BY <2>1
  <2> QED
    BY <1>1, <1>5, <2>1, <2>2, <2>3
<1>8. CASE StartNode
  <2> PICK result \in EmbeddedStarts :
         /\ embedded' = result.runtime /\ StartedHost(result.raised) /\ running' = ~result.raised
         /\ UNCHANGED <<trustVars, requestVars>>
    BY <1>8 DEF StartNode
  <2>1. result.raised \in BOOLEAN /\ Agrees(~result.raised, host', result.runtime)
    <3>1. /\ embedded \in [on : BOOLEAN, state : EmbeddedState, scheduler : BOOLEAN]
          /\ embedded.on => embedded.scheduler
          /\ embedded.on <=> embedded.state \in {"running", "stopping"}
      BY DEF NodeInv, Agrees
    <3>2. CASE embedded.on
      <4>1. result = [runtime |-> embedded, raised |-> FALSE]
        BY <3>2, Zenon DEF EmbeddedStarts
      <4>2. result.runtime = embedded /\ result.raised = FALSE
        BY <4>1
      <4>3. host' = "running"
        BY <4>2 DEF StartedHost
      <4> QED
        BY <3>1, <3>2, <4>2, <4>3 DEF Agrees
    <3>3. CASE ~embedded.on
      <4> DEFINE booting == [embedded EXCEPT !.state = "booting"]
                 expired == [embedded EXCEPT !.state = "license_expired"]
                 failing == [embedded EXCEPT !.state = "failed"]
                 up == [on |-> TRUE, state |-> "running", scheduler |-> TRUE]
      <4>1. /\ Agrees(FALSE, "failed", booting) /\ Agrees(TRUE, "running", expired)
            /\ Agrees(FALSE, "failed", failing)
        BY <3>1, <3>3 DEF EmbeddedState, Agrees
      <4>2. Agrees(FALSE, "failed", SchedulerLeft) /\ Agrees(TRUE, "running", up)
        BY DEF EmbeddedState, Agrees, SchedulerLeft
      <4>3. \/ result = [runtime |-> booting, raised |-> TRUE]
            \/ result = [runtime |-> expired, raised |-> FALSE]
            \/ result = [runtime |-> failing, raised |-> TRUE]
            \/ result = [runtime |-> SchedulerLeft, raised |-> TRUE]
            \/ result = [runtime |-> up, raised |-> FALSE]
        BY <3>3, Zenon DEF EmbeddedStarts
      <4> HIDE DEF booting, expired, failing, up
      <4>4. \/ /\ result.raised = TRUE /\ host' = "failed"
               /\ result.runtime \in {booting, failing, SchedulerLeft}
            \/ /\ result.raised = FALSE /\ host' = "running"
               /\ result.runtime \in {expired, up}
        BY <4>3 DEF StartedHost
      <4> QED
        BY <4>1, <4>2, <4>4
    <3> QED
      BY <3>2, <3>3
  <2>2. host' \in {"stopped", "running", "failed"} /\ running' = (host' = "running")
    BY <2>1 DEF StartedHost
  <2>3. UNCHANGED requestVars /\ UNCHANGED trustVars
    OBVIOUS
  <2> QED
    BY <1>2, <2>1, <2>2, <2>3 DEF NodeInv, trustVars, requestVars
<1>9. CASE StopNode
  <2> PICK result \in EmbeddedStops :
         embedded' = result.runtime /\ StoppedBoth(result.raised) /\ UNCHANGED <<trustVars, requestVars>>
    BY <1>9 DEF StopNode
  <2>1. Agrees(FALSE, "stopped", result.runtime)
    <3> DEFINE down == [on |-> FALSE, state |-> "stopped",
                        scheduler |-> embedded.scheduler /\ ~embedded.on]
               half == [embedded EXCEPT !.state = "stopping"]
    <3>1. /\ embedded \in [on : BOOLEAN, state : EmbeddedState, scheduler : BOOLEAN]
          /\ embedded.on => embedded.scheduler
      BY DEF NodeInv, Agrees
    <3>2. Agrees(FALSE, "stopped", down)
      BY <3>1 DEF EmbeddedState, Agrees
    <3>3. embedded.on => Agrees(FALSE, "stopped", half)
      BY <3>1 DEF EmbeddedState, Agrees
    <3>4. \/ \E raised \in BOOLEAN : result = [runtime |-> down, raised |-> raised]
          \/ embedded.on /\ result = [runtime |-> half, raised |-> TRUE]
      BY Zenon DEF EmbeddedStops
    <3> HIDE DEF down, half
    <3>5. result.runtime = down \/ (embedded.on /\ result.runtime = half)
      BY <3>4
    <3> QED
      BY <3>2, <3>3, <3>5
  <2>2. host' = "stopped" /\ running' = FALSE /\ UNCHANGED requestVars /\ UNCHANGED trustVars
    BY DEF StoppedBoth
  <2> QED
    BY <1>2, <2>1, <2>2 DEF NodeInv, trustVars, requestVars
<1> QED
  BY <1>3, <1>4, <1>6, <1>7, <1>8, <1>9 DEF NodeNext

LEMMA NodeInvImplies == NodeInv => NodeTypeOK /\ ApprovedWasEligible /\ StatusIsTrue
<1> SUFFICES ASSUME NodeInv PROVE NodeTypeOK /\ StatusIsTrue
  BY DEF NodeInv
<1>1. NodeTypeOK
  BY DEF NodeInv, NodeTypeOK, HostState, Agrees
<1>2. /\ running <=> host = "running"
      /\ host \in {"stopped", "running", "failed"}
      /\ embedded.on <=> embedded.state \in {"running", "stopping"}
      /\ embedded.on => embedded.scheduler
      /\ host = "failed" => ~embedded.on
      /\ running => embedded.state \in {"running", "stopping", "license_expired"}
      /\ ~running => embedded.state # "running"
  BY DEF NodeInv, Agrees
<1>3. /\ running /\ ~embedded.on => embedded.state = "license_expired"
      /\ ~running /\ embedded.on => host = "stopped" /\ embedded.state = "stopping"
      /\ running /\ ~Healthy => embedded.state \in {"license_expired", "stopping"}
  BY <1>2 DEF Healthy
<1>4. Validated(TRUE) = NodeTrusted /\ ~Validated(FALSE)
  BY DEF Validated, TrustIssues, NodeTrusted
<1> QED
  BY <1>1, <1>2, <1>3, <1>4 DEF StatusIsTrue

\* What a human decided is replaced by a refusal only.
LEMMA DecisionStep == NodeInv /\ [NodeNext]_nodeVars => HumanDecisionLasts
<1> SUFFICES ASSUME NodeInv, NodeNext, NEW q \in GovernedIds, results[q] # NotGoverned,
                    results[q].workflow # "pending", results'[q] # results[q]
             PROVE  results'[q] = NewResult(FALSE) /\ requests'[q] = FALSE
  BY DEF HumanDecisionLasts, nodeVars
<1>1. /\ requests \in [GovernedIds -> BOOLEAN \cup {NotGoverned}]
      /\ results \in [GovernedIds -> GovernanceResult \cup {NotGoverned}]
  BY DEF NodeInv
<1>2. ~(ChangeTrust \/ StartNode \/ StopNode)
  BY DEF ChangeTrust, SetTrust, StartNode, StopNode, requestVars
<1>3. ~\E r \in GovernedIds : Approve(r) \/ RejectOrModify(r)
  BY <1>1 DEF Approve, RejectOrModify, Undecided
<1>4. PICK r \in GovernedIds, v \in BOOLEAN : Submit(r, v)
  BY <1>2, <1>3 DEF NodeNext
<1>5. MayRecord(r, v) /\ r = q
  BY <1>1, <1>4 DEF Submit, requestVars
<1>6. v = FALSE
  BY <1>5 DEF MayRecord
<1> QED
  BY <1>1, <1>4, <1>5, <1>6 DEF Submit

(* The control plane.                                                        *)

\* Records of the tables, with every value a field may ever have.
AnyUser == [org : Nat, role : Roles, manager : Nat \cup {Nobody, Stranger}]
AnyToken == [org : Nat, user : Nat \cup {Nobody, Stranger}, expires : Nat]
AnyNode == [org : Nat, user : Nat \cup {Nobody, Stranger}]

PlaneInv ==
  /\ PlaneTypeOK
  /\ users \in Seq(AnyUser) /\ tokens \in Seq(AnyToken) /\ nodes \in Seq(AnyNode)
  /\ Len(users) <= MaxUsers

LEMMA PlaneInitInv == PlaneInit => PlaneInv
<1> SUFFICES ASSUME PlaneInit PROVE PlaneInv
  OBVIOUS
<1>1. /\ hour \in 0 .. LastHour /\ organizations \in 0 .. MaxOrganizations /\ rules = {}
  BY ControlPlaneAssumption DEF PlaneInit
<1>2. users = <<>> /\ tokens = <<>> /\ nodes = <<>>
  BY DEF PlaneInit
<1>3. (\A S : <<>> \in Seq(S)) /\ DOMAIN <<>> = {} /\ Len(<<>>) = 0
  OBVIOUS
<1> QED
  BY <1>1, <1>2, <1>3, ControlPlaneAssumption DEF PlaneInv, PlaneTypeOK, Users

\* What is appended to a table leaves the records that are there.
Appended(t, s, e) ==
  /\ DOMAIN t = DOMAIN s \cup {Len(s) + 1} /\ t[Len(s) + 1] = e /\ Len(t) = Len(s) + 1
  /\ \A k \in DOMAIN s : t[k] = s[k]
  /\ Len(s) + 1 \notin DOMAIN s /\ Len(s) + 1 \in Nat

LEMMA AppendIs ==
  ASSUME NEW S, NEW s \in Seq(S), NEW e \in S
  PROVE  Append(s, e) \in Seq(S) /\ Appended(Append(s, e), s, e)
<1>1. Append(s, e) \in Seq(S)
  OBVIOUS
<1>2. Appended(Append(s, e), s, e)
  BY DEF Appended
<1> QED
  BY <1>1, <1>2

LEMMA PlaneInvStep == PlaneInv /\ [PlaneNext]_planeVars => PlaneInv'
<1> SUFFICES ASSUME PlaneInv, [PlaneNext]_planeVars PROVE PlaneInv'
  OBVIOUS
<1> USE ControlPlaneAssumption
<1>1. /\ users \in Seq(AnyUser) /\ tokens \in Seq(AnyToken) /\ nodes \in Seq(AnyNode)
      /\ PlaneTypeOK /\ Len(users) <= MaxUsers
  BY DEF PlaneInv
<1>2. /\ hour \in 0 .. LastHour /\ organizations \in 0 .. MaxOrganizations
      /\ \A user \in Users : /\ users[user].org \in Organizations /\ users[user].role \in Roles
                             /\ users[user].manager \in Managers
      /\ rules \subseteq [org : Organizations, role : Roles, permission : Permissions]
      /\ \A k \in DOMAIN tokens : tokens[k].org \in Organizations
      /\ \A k \in DOMAIN nodes : nodes[k].org \in Organizations
  BY <1>1 DEF PlaneTypeOK
<1>3. CASE UNCHANGED planeVars \/ PlaneTick
  <2>1. UNCHANGED <<organizations, users, rules, tokens, nodes>> /\ hour' \in 0 .. LastHour
    BY <1>2, <1>3 DEF planeVars, PlaneTick
  <2> QED
    BY <1>1, <1>2, <2>1 DEF PlaneInv, PlaneTypeOK, Users, Managers, Organizations
<1>4. CASE CreateOrganization
  <2>1. /\ organizations' \in 0 .. MaxOrganizations /\ Organizations \subseteq Organizations'
        /\ UNCHANGED <<hour, users, rules, tokens, nodes>>
    BY <1>2, <1>4 DEF CreateOrganization, Organizations
  <2>2. rules' \subseteq [org : Organizations', role : Roles, permission : Permissions]
    BY <1>2, <2>1
  <2> QED
    BY <1>1, <1>2, <2>1, <2>2 DEF PlaneInv, PlaneTypeOK, Users, Managers
<1>5. ASSUME NEW org \in Nat, NEW role \in Roles, NEW m \in Managers,
             AddUser(org, role, m)
      PROVE  PlaneInv'
  <2>1. /\ users' = Append(users, OrganizationUser(org, role, m)) /\ org \in Organizations
        /\ Len(users) < MaxUsers
        /\ UNCHANGED <<hour, organizations, rules, tokens, nodes>>
    BY <1>5 DEF AddUser
  <2>2. OrganizationUser(org, role, m) \in AnyUser
    BY <1>1 DEF OrganizationUser, AnyUser, Managers, Users
  <2>3. users' \in Seq(AnyUser) /\ Appended(users', users, OrganizationUser(org, role, m))
    BY <1>1, <2>1, <2>2, AppendIs
  <2>4. Managers \subseteq Managers' /\ UNCHANGED Organizations
    BY <2>1, <2>3 DEF Managers, Users, Organizations, Appended
  <2>5. ASSUME NEW u \in Users'
        PROVE  /\ users'[u].org \in Organizations' /\ users'[u].role \in Roles
               /\ users'[u].manager \in Managers'
    BY <1>2, <2>1, <2>3, <2>4 DEF Users, Appended, OrganizationUser
  <2>6. Len(users') <= MaxUsers
    BY <1>1, <2>1
  <2> QED
    BY <1>1, <1>2, <2>1, <2>3, <2>4, <2>5, <2>6 DEF PlaneInv, PlaneTypeOK
<1>6. ASSUME NEW user \in Nat, NEW m \in Managers, ReplaceManager(user, m)
      PROVE  PlaneInv'
  <2>1. /\ users' = [users EXCEPT ![user].manager = m] /\ user \in DOMAIN users
        /\ UNCHANGED <<hour, organizations, rules, tokens, nodes>>
    BY <1>6 DEF ReplaceManager, Users
  <2>2. users[user] \in AnyUser /\ m \in Nat \cup {Nobody, Stranger}
    BY <1>1, <2>1 DEF Managers, Users
  <2>3. [users[user] EXCEPT !.manager = m] \in AnyUser
    BY <2>2 DEF AnyUser
  <2>4. /\ users' \in Seq(AnyUser) /\ DOMAIN users' = DOMAIN users
        /\ \A u \in DOMAIN users : u # user => users'[u] = users[u]
        /\ users'[user] = [users[user] EXCEPT !.manager = m] /\ Len(users') = Len(users)
    BY <1>1, <2>1, <2>3
  <2>5. UNCHANGED <<Managers, Organizations>>
    BY <2>1, <2>4 DEF Managers, Users, Organizations
  <2>6. ASSUME NEW u \in DOMAIN users'
        PROVE  /\ users'[u].org \in Organizations' /\ users'[u].role \in Roles
               /\ users'[u].manager \in Managers'
    BY <1>2, <2>2, <2>4, <2>5 DEF Users, AnyUser
  <2> QED
    BY <1>1, <1>2, <2>1, <2>4, <2>5, <2>6 DEF PlaneInv, PlaneTypeOK, Users
<1>7. ASSUME NEW org, NEW role \in Roles, NEW permission \in Permissions,
             AddAuthorityRule(org, role, permission)
      PROVE  PlaneInv'
  <2>1. /\ org \in Organizations
        /\ rules' = rules \cup {[org |-> org, role |-> role, permission |-> permission]}
        /\ UNCHANGED <<hour, organizations, users, tokens, nodes>>
    BY <1>7 DEF AddAuthorityRule
  <2> QED
    BY <1>1, <1>2, <2>1 DEF PlaneInv, PlaneTypeOK, Users, Managers, Organizations
<1>8. ASSUME NEW org \in Organizations, NEW user \in Managers,
             tokens' = Append(tokens, EnrollmentToken(org, user, hour + Lifetime)),
             UNCHANGED <<hour, organizations, users, rules, nodes>>
      PROVE  PlaneInv'
  <2>1. EnrollmentToken(org, user, hour + Lifetime) \in AnyToken
    <3>1. org \in Nat /\ user \in Nat \cup {Nobody, Stranger} /\ hour + Lifetime \in Nat
      BY <1>1, <1>2 DEF Organizations, Managers, Users
    <3> QED
      BY <3>1 DEF EnrollmentToken, AnyToken
  <2>2. /\ tokens' \in Seq(AnyToken)
        /\ Appended(tokens', tokens, EnrollmentToken(org, user, hour + Lifetime))
    BY <1>1, <1>8, <2>1, AppendIs
  <2>3. \A k \in DOMAIN tokens' : tokens'[k].org \in Organizations
    BY <1>2, <2>2 DEF Appended, EnrollmentToken
  <2> QED
    BY <1>1, <1>2, <1>8, <2>2, <2>3 DEF PlaneInv, PlaneTypeOK, Users, Managers, Organizations
<1>9. ASSUME NEW user, InviteUser(user) PROVE PlaneInv'
  <2>1. users[user].org \in Organizations /\ user \in Managers
    BY <1>2, <1>9 DEF InviteUser, Managers
  <2> QED
    BY <1>8, <1>9, <2>1 DEF InviteUser
<1>10. ASSUME NEW org, NEW user \in {Nobody, Stranger}, CreateNodeEnrollment(org, user)
       PROVE  PlaneInv'
  BY <1>8, <1>10 DEF CreateNodeEnrollment, Managers
<1>11. ASSUME NEW k, EnrollNode(k) PROVE PlaneInv'
  <2>1. /\ k \in DOMAIN tokens /\ nodes' = Append(nodes, YomaNode(tokens[k]))
        /\ UNCHANGED <<hour, organizations, users, rules, tokens>>
    BY <1>11 DEF EnrollNode
  <2>2. YomaNode(tokens[k]) \in AnyNode /\ YomaNode(tokens[k]).org \in Organizations
    <3>1. tokens[k] \in AnyToken
      BY <1>1, <2>1
    <3> QED
      BY <1>2, <2>1, <3>1 DEF YomaNode, AnyNode, AnyToken
  <2>3. nodes' \in Seq(AnyNode) /\ Appended(nodes', nodes, YomaNode(tokens[k]))
    BY <1>1, <2>1, <2>2, AppendIs
  <2>4. \A j \in DOMAIN nodes' : nodes'[j].org \in Organizations
    BY <1>2, <2>2, <2>3 DEF Appended
  <2> QED
    BY <1>1, <1>2, <2>1, <2>3, <2>4 DEF PlaneInv, PlaneTypeOK, Users, Managers, Organizations
<1> QED
  <2>1. 1 .. MaxOrganizations \subseteq Nat /\ 1 .. MaxUsers \subseteq Nat
    OBVIOUS
  <2> QED
    BY <1>3, <1>4, <1>5, <1>6, <1>7, <1>9, <1>10, <1>11, <2>1 DEF PlaneNext

\* Without a valid token of its own an organization gets no node.
LEMMA TokenStep == PlaneInv /\ [PlaneNext]_planeVars => NodesNeedAToken
<1> SUFFICES ASSUME PlaneInv, PlaneNext, NEW org \in Organizations,
                    \A k \in DOMAIN tokens : tokens[k].org = org => tokens[k].expires <= hour
             PROVE  Dashboard(org)'.nodes = Dashboard(org).nodes
  BY DEF NodesNeedAToken, planeVars
<1>1. /\ tokens \in Seq(AnyToken) /\ nodes \in Seq(AnyNode) /\ hour \in Nat
  BY ControlPlaneAssumption DEF PlaneInv, PlaneTypeOK
<1>2. {n \in DOMAIN nodes' : nodes'[n].org = org} = {n \in DOMAIN nodes : nodes[n].org = org}
  <2>1. CASE \E k \in 1 .. MaxTokens : EnrollNode(k)
    <3>1. PICK k \in 1 .. MaxTokens : EnrollNode(k)
      BY <2>1
    <3>2. k \in DOMAIN tokens /\ tokens[k].expires > hour /\ nodes' = Append(nodes, YomaNode(tokens[k]))
      BY <3>1 DEF EnrollNode, MayEnroll
    <3>3. tokens[k] \in AnyToken
      BY <1>1, <3>2
    <3>4. tokens[k].org # org /\ YomaNode(tokens[k]) \in AnyNode /\ YomaNode(tokens[k]).org = tokens[k].org
      <4>1. tokens[k].expires \in Nat
        BY <3>3 DEF AnyToken
      <4>2. tokens[k].org # org
        BY <1>1, <3>2, <4>1
      <4>3. YomaNode(tokens[k]) \in AnyNode /\ YomaNode(tokens[k]).org = tokens[k].org
        BY <3>3 DEF AnyToken, AnyNode, YomaNode
      <4> QED
        BY <4>2, <4>3
    <3>5. Appended(nodes', nodes, YomaNode(tokens[k]))
      BY <1>1, <3>2, <3>4, AppendIs
    <3> QED
      BY <3>4, <3>5 DEF Appended
  <2>2. CASE ~\E k \in 1 .. MaxTokens : EnrollNode(k)
    <3>1. UNCHANGED nodes
      BY <2>2 DEF PlaneNext, CreateOrganization, AddUser, ReplaceManager, AddAuthorityRule, InviteUser,
                  CreateNodeEnrollment, PlaneTick
    <3> QED
      BY <3>1
  <2> QED
    BY <2>1, <2>2
<1> QED
  BY <1>2 DEF Dashboard

\* One step of the walk up the managers, from what it did before.
WalkStep(f, user, k) ==
  IF k = 0 THEN [chain |-> <<user>>, error |-> "none"] ELSE Step(f[k - 1])

AreWalks(f, user, n) == f = [k \in 0 .. n |-> WalkStep(f, user, k)]

LEMMA WalksExist ==
  ASSUME NEW n \in Nat, NEW user
  PROVE  \E f : AreWalks(f, user, n)
<1> DEFINE S == {m \in Nat : \E f : /\ f = [k \in 0 .. n |-> f[k]]
                                    /\ \A k \in 0 .. n : k <= m => f[k] = WalkStep(f, user, k)}
<1>1. 0 \in S
  <2> DEFINE f == [k \in 0 .. n |-> [chain |-> <<user>>, error |-> "none"]]
  <2>1. \A k \in 0 .. n : k <= 0 => f[k] = WalkStep(f, user, k)
    BY DEF WalkStep
  <2> QED
    BY <2>1
<1>2. ASSUME NEW m \in S PROVE m + 1 \in S
  <2>1. PICK f : /\ f = [k \in 0 .. n |-> f[k]]
                 /\ \A k \in 0 .. n : k <= m => f[k] = WalkStep(f, user, k)
    OBVIOUS
  <2> DEFINE g == [k \in 0 .. n |-> WalkStep(f, user, k)]
  <2>2. ASSUME NEW k \in 0 .. n, k <= m + 1 PROVE g[k] = WalkStep(g, user, k)
    <3>1. CASE k = 0
      BY <3>1 DEF WalkStep
    <3>2. CASE k # 0
      <4>1. k - 1 \in 0 .. n /\ k - 1 <= m
        BY <2>2, <3>2, m \in Nat
      <4>2. g[k - 1] = f[k - 1]
        BY <2>1, <4>1
      <4> QED
        BY <3>2, <4>2 DEF WalkStep
    <3> QED
      BY <3>1, <3>2
  <2> HIDE DEF g
  <2>3. g = [k \in 0 .. n |-> g[k]]
    BY DEF g
  <2>4. m + 1 \in Nat
    OBVIOUS
  <2> QED
    BY <2>2, <2>3, <2>4
<1>3. S = Nat
  <2> HIDE DEF S
  <2>1. S \in SUBSET Nat
    BY DEF S
  <2> QED
    BY <1>1, <1>2, <2>1, Induction
<1> QED
  <2>1. n \in S
    BY <1>3
  <2>2. PICK f : /\ f = [k \in 0 .. n |-> f[k]]
                 /\ \A k \in 0 .. n : k <= n => f[k] = WalkStep(f, user, k)
    BY <2>1
  <2> QED
    BY <2>2 DEF AreWalks

LEMMA ChainIsWalked ==
  ASSUME users \in Seq(AnyUser), NEW user
  PROVE  \E f : /\ \A k \in 0 .. Len(users) : f[k] = WalkStep(f, user, k)
                /\ Chain(user) = f[Len(users)]
<1> DEFINE n == Len(users)
           P(g) == g = [k \in 0 .. n |-> WalkStep(g, user, k)]
           R == CHOOSE g : P(g)
<1>1. Chain(user) = R[n]
  BY DEF Chain, WalkStep
<1>2. n \in Nat
  OBVIOUS
<1>3. PICK f : AreWalks(f, user, n)
  BY <1>2, WalksExist
<1>4. P(R)
  <2>1. P(f)
    BY <1>3 DEF AreWalks
  <2> HIDE DEF P
  <2> QED
    BY <2>1
<1> HIDE DEF R
<1>5. \A k \in 0 .. n : R[k] = WalkStep(R, user, k)
  BY <1>4
<1> QED
  BY <1>1, <1>5

\* What the walk has when it has taken k steps: a chain of managers without a repetition, longer
\* by one with every step until it ended.
ManagerOf(u) == users[u].manager
Ended(walk) ==
  walk.error # "none" \/ ManagerOf(walk.chain[Len(walk.chain)]) = Nobody
Walked(walk, user, k) ==
  /\ walk.chain \in Seq(Users) /\ Len(walk.chain) >= 1 /\ walk.chain[1] = user
  /\ \A j \in 1 .. Len(walk.chain) - 1 : walk.chain[j + 1] = ManagerOf(walk.chain[j])
  /\ \A i, j \in 1 .. Len(walk.chain) : walk.chain[i] = walk.chain[j] => i = j
  /\ walk.error \in {"none", "circular", "unknown"}
  /\ walk.error = "circular" =>
       \E i \in 1 .. Len(walk.chain) : walk.chain[i] = ManagerOf(walk.chain[Len(walk.chain)])
  /\ walk.error = "unknown" => ManagerOf(walk.chain[Len(walk.chain)]) = Stranger
  /\ walk = [chain |-> walk.chain, error |-> walk.error]
  /\ Ended(walk) \/ Len(walk.chain) = k + 1

LEMMA WalkedStep ==
  ASSUME PlaneInv, NEW user, NEW k \in Nat, NEW walk, Walked(walk, user, k)
  PROVE  Walked(Step(walk), user, k + 1)
<1> DEFINE c == walk.chain
           n == Len(walk.chain)
           m == ManagerOf(walk.chain[Len(walk.chain)])
<1>1. /\ c \in Seq(Users) /\ n \in Nat /\ n >= 1 /\ c[n] \in Users /\ Last(c) = c[n]
      /\ c[1] = user /\ walk.error \in {"none", "circular", "unknown"}
      /\ walk = [chain |-> c, error |-> walk.error]
  BY DEF Walked, Last
<1>2. m \in Users \cup {Nobody, Stranger} /\ Nobody \notin Users /\ Stranger \notin Users
      /\ Nobody # Stranger
  <2>1. m \in Managers
    BY <1>1 DEF PlaneInv, PlaneTypeOK, ManagerOf
  <2>2. Users \subseteq 1 .. MaxUsers
    BY ControlPlaneAssumption DEF Users, PlaneInv
  <2> QED
    BY <2>1, <2>2, ControlPlaneAssumption DEF Managers
<1>3. Range(c) = {c[i] : i \in 1 .. n}
  BY <1>1 DEF Range
<1>4. Step(walk) = IF walk.error # "none" \/ m = Nobody THEN walk
                   ELSE IF m \in Range(c) THEN [walk EXCEPT !.error = "circular"]
                   ELSE IF m \notin Users THEN [walk EXCEPT !.error = "unknown"]
                   ELSE [walk EXCEPT !.chain = Append(c, m)]
  BY <1>1 DEF Step, ManagerOf
<1>5. CASE walk.error # "none" \/ m = Nobody
  <2>1. Step(walk) = walk /\ Ended(walk)
    BY <1>4, <1>5 DEF Ended
  <2> QED
    BY <2>1 DEF Walked
<1>6. ASSUME NEW e \in {"circular", "unknown"}, Step(walk) = [walk EXCEPT !.error = e],
             e = "circular" => \E i \in 1 .. n : c[i] = m, e = "unknown" => m = Stranger
      PROVE  Walked(Step(walk), user, k + 1)
  <2> PICK w : w = [chain |-> c, error |-> e]
    OBVIOUS
  <2>1. Step(walk) = w
    BY <1>1, <1>6
  <2>2. w.chain = c /\ w.error = e
    OBVIOUS
  <2>3. Ended(w)
    BY <2>2 DEF Ended
  <2>4. Walked(w, user, k + 1)
    BY <1>6, <2>2, <2>3 DEF Walked
  <2> QED
    BY <2>1, <2>4
<1>7. CASE walk.error = "none" /\ m # Nobody /\ m \in Range(c)
  BY <1>3, <1>4, <1>6, <1>7
<1>8. CASE walk.error = "none" /\ m # Nobody /\ m \notin Range(c) /\ m \notin Users
  BY <1>2, <1>4, <1>6, <1>8
<1>9. CASE walk.error = "none" /\ m # Nobody /\ m \notin Range(c) /\ m \in Users
  <2> PICK w : w = [chain |-> Append(c, m), error |-> "none"]
    OBVIOUS
  <2>1. Step(walk) = w
    BY <1>1, <1>4, <1>9
  <2>2. /\ w.chain \in Seq(Users) /\ w.error = "none" /\ Appended(w.chain, c, m)
        /\ w = [chain |-> w.chain, error |-> w.error]
    BY <1>1, <1>9, AppendIs
  <2>3. /\ Len(w.chain) = n + 1 /\ w.chain[n + 1] = m /\ \A i \in 1 .. n : w.chain[i] = c[i]
    BY <1>1, <2>2 DEF Appended
  <2>4. \A j \in 1 .. Len(w.chain) - 1 : w.chain[j + 1] = ManagerOf(w.chain[j])
    <3>1. \A j \in 1 .. n - 1 : c[j + 1] = ManagerOf(c[j])
      BY DEF Walked
    <3>2. ASSUME NEW j \in 1 .. n PROVE w.chain[j + 1] = ManagerOf(w.chain[j])
      <4>1. CASE j = n
        BY <1>1, <2>3, <4>1
      <4>2. CASE j # n
        <5>1. j \in 1 .. n - 1 /\ j + 1 \in 1 .. n
          BY <1>1, <4>2
        <5> QED
          BY <2>3, <3>1, <5>1
      <4> QED
        BY <4>1, <4>2
    <3> QED
      BY <1>1, <2>3, <3>2
  <2>5. \A i, j \in 1 .. Len(w.chain) : w.chain[i] = w.chain[j] => i = j
    <3>1. \A i, j \in 1 .. n : c[i] = c[j] => i = j
      BY DEF Walked
    <3>2. \A i \in 1 .. n : c[i] # m
      BY <1>3, <1>9
    <3> QED
      BY <1>1, <2>3, <3>1, <3>2
  <2>6. Ended(w) \/ Len(w.chain) = (k + 1) + 1
    <3>1. ~Ended(walk)
      BY <1>9 DEF Ended
    <3>2. n = k + 1
      BY <3>1 DEF Walked
    <3> QED
      BY <2>3, <3>2
  <2>7. Len(w.chain) >= 1 /\ w.chain[1] = user
    BY <1>1, <2>3
  <2>8. Walked(w, user, k + 1)
    BY <2>2, <2>4, <2>5, <2>6, <2>7 DEF Walked
  <2> QED
    BY <2>1, <2>8
<1> QED
  BY <1>5, <1>7, <1>8, <1>9, <1>1

\* There are n numbers from 1 to n.
LEMMA Numbered ==
  ASSUME NEW n \in Nat
  PROVE  IsFiniteSet(1 .. n) /\ Cardinality(1 .. n) = n
<1>1. 1 \in Int /\ n \in Int
  OBVIOUS
<1>2. IsFiniteSet(1 .. n) /\ Cardinality(1 .. n) = IF 1 > n THEN 0 ELSE n - 1 + 1
  BY <1>1, FS_Interval
<1>3. (IF 1 > n THEN 0 ELSE n - 1 + 1) = n
  OBVIOUS
<1> QED
  BY <1>2, <1>3

\* After as many steps as there are users the walk has ended.
LEMMA ChainHasEnded ==
  ASSUME PlaneInv, NEW user \in Users
  PROVE  /\ Walked(Chain(user), user, Len(users)) /\ Ended(Chain(user))
         /\ Len(Chain(user).chain) = Cardinality(Range(Chain(user).chain))
<1> DEFINE n == Len(users)
<1>1. n \in Nat /\ Users = 1 .. n
  BY DEF PlaneInv, Users
<1>2. users \in Seq(AnyUser)
  BY DEF PlaneInv
<1>3. PICK f : /\ \A k \in 0 .. n : f[k] = WalkStep(f, user, k)
               /\ Chain(user) = f[n]
  BY <1>2, ChainIsWalked
<1>4. Walked(f[0], user, 0)
  <2>1. f[0] = [chain |-> <<user>>, error |-> "none"]
    BY <1>1, <1>3 DEF WalkStep
  <2>2. f[0].chain = <<user>> /\ f[0].error = "none" /\ f[0] = [chain |-> f[0].chain, error |-> f[0].error]
    BY <2>1
  <2>3. <<user>> \in Seq(Users) /\ Len(<<user>>) = 1 /\ <<user>>[1] = user
    OBVIOUS
  <2> QED
    BY <2>2, <2>3 DEF Walked
<1>5. ASSUME NEW k \in 0 .. n, k + 1 <= n, Walked(f[k], user, k) PROVE Walked(f[k + 1], user, k + 1)
  <2>1. k + 1 \in 0 .. n /\ k + 1 # 0 /\ (k + 1) - 1 = k
    BY <1>1, <1>5
  <2>2. f[k + 1] = Step(f[k])
    BY <1>3, <2>1 DEF WalkStep
  <2> QED
    BY <1>5, <2>2, WalkedStep
<1> DEFINE S == {k \in Nat : k <= n => Walked(f[k], user, k)}
<1>6. 0 \in S
  BY <1>4
<1>7. ASSUME NEW k \in S PROVE k + 1 \in S
  <2>1. k + 1 <= n => k \in 0 .. n /\ k <= n
    BY <1>1
  <2>2. k + 1 <= n => Walked(f[k + 1], user, k + 1)
    BY <1>5, <1>7, <2>1
  <2> QED
    BY <2>2
<1>8. Walked(Chain(user), user, n)
  <2> HIDE DEF S
  <2>1. S \in SUBSET Nat
    BY DEF S
  <2>2. n \in S
    BY <1>1, <1>6, <1>7, <2>1, Induction
  <2> QED
    BY <1>1, <1>3, <2>2 DEF S
<1> DEFINE c == Chain(user).chain
<1>9. /\ c \in Seq(Users) /\ Len(c) \in Nat /\ \A i, j \in 1 .. Len(c) : c[i] = c[j] => i = j
  BY <1>8 DEF Walked
<1> HIDE DEF c
<1>10. /\ c \in [1 .. Len(c) -> Range(c)] /\ c \in Injection(1 .. Len(c), Range(c))
       /\ c \in Surjection(1 .. Len(c), Range(c)) /\ Range(c) \subseteq Users
  BY <1>9 DEF Range, Injection, IsInjective, Surjection
<1>11. IsFiniteSet(1 .. Len(c)) /\ Cardinality(1 .. Len(c)) = Len(c)
       /\ IsFiniteSet(Users) /\ Cardinality(Users) = n
  <2>1. IsFiniteSet(1 .. Len(c)) /\ Cardinality(1 .. Len(c)) = Len(c)
    BY <1>9, Numbered
  <2>2. IsFiniteSet(1 .. n) /\ Cardinality(1 .. n) = n
    BY <1>1, Numbered
  <2> QED
    BY <1>1, <2>1, <2>2
<1>12. Cardinality(Range(c)) = Len(c) /\ Cardinality(Range(c)) <= n
  BY <1>10, <1>11, FS_Surjection, FS_Subset
<1>13. Ended(Chain(user))
  BY <1>1, <1>8, <1>9, <1>12 DEF Walked, c
<1> QED
  BY <1>8, <1>12, <1>13 DEF c

LEMMA ChainsAreAlwaysWhole == PlaneInv => ChainsAreWhole
<1> SUFFICES ASSUME PlaneInv, NEW user \in Users
             PROVE  /\ Range(Chain(user).chain) = AtOrAbove(user)
                    /\ Len(Chain(user).chain) = Cardinality(AtOrAbove(user))
                    /\ Chain(user).error = "none" <=>
                         Nobody \in {users[u].manager : u \in AtOrAbove(user)}
                    /\ Chain(user).error = "unknown" <=>
                         Stranger \in {users[u].manager : u \in AtOrAbove(user)}
  BY DEF ChainsAreWhole
<1> DEFINE w == Chain(user)
           c == Chain(user).chain
           n == Len(Chain(user).chain)
<1>1. Walked(w, user, Len(users)) /\ Ended(w) /\ n = Cardinality(Range(c))
  BY ChainHasEnded
<1>2. /\ c \in Seq(Users) /\ n \in Nat /\ n >= 1 /\ c[1] = user
      /\ \A j \in 1 .. n - 1 : c[j + 1] = ManagerOf(c[j])
  BY <1>1 DEF Walked
<1>3. Nobody \notin Users /\ Stranger \notin Users /\ Nobody # Stranger
  <2>1. Users \subseteq 1 .. MaxUsers
    BY ControlPlaneAssumption DEF Users, PlaneInv
  <2> QED
    BY <2>1, ControlPlaneAssumption
<1>4. /\ w.error \in {"none", "circular", "unknown"}
      /\ w.error = "none" => ManagerOf(c[n]) = Nobody
      /\ w.error = "circular" => \E i \in 1 .. n : c[i] = ManagerOf(c[n])
      /\ w.error = "unknown" => ManagerOf(c[n]) = Stranger
  BY <1>1 DEF Walked, Ended
<1> HIDE DEF w, c, n
<1>5. Range(c) = {c[i] : i \in 1 .. n} /\ Range(c) \subseteq Users
  BY <1>2 DEF Range, n, c
<1>6. ASSUME NEW u \in Range(c), ManagerOf(u) \in Users PROVE ManagerOf(u) \in Range(c)
  <2>1. PICK i \in 1 .. n : u = c[i]
    BY <1>5
  <2>2. CASE i = n
    BY <1>3, <1>4, <1>5, <1>6, <2>1, <2>2
  <2>3. CASE i # n
    <3>1. i \in 1 .. n - 1 /\ i + 1 \in 1 .. n
      BY <1>2, <2>3
    <3> QED
      BY <1>2, <1>5, <2>1, <3>1
  <2> QED
    BY <2>2, <2>3
<1>7. Range(c) \subseteq AtOrAbove(user)
  <2> SUFFICES ASSUME NEW S \in SUBSET Users, user \in S,
                      \A u \in S : users[u].manager \in Users => users[u].manager \in S
               PROVE  Range(c) \subseteq S
    BY <1>5 DEF AtOrAbove
  <2> DEFINE I == {i \in Nat : i + 1 <= n => c[i + 1] \in S}
  <2>1. 0 \in I
    BY <1>2
  <2>2. ASSUME NEW i \in I PROVE i + 1 \in I
    <3>1. CASE (i + 1) + 1 <= n
      <4>1. i + 1 <= n /\ i + 1 \in 1 .. n - 1 /\ (i + 1) + 1 \in 1 .. n
        BY <1>2, <3>1
      <4>2. c[i + 1] \in S /\ c[(i + 1) + 1] = ManagerOf(c[i + 1]) /\ c[(i + 1) + 1] \in Users
        BY <1>2, <1>5, <4>1
      <4> QED
        BY <4>2 DEF ManagerOf
    <3>2. CASE ~((i + 1) + 1 <= n)
      BY <3>2
    <3> QED
      BY <3>1, <3>2
  <2>3. I = Nat
    <3> HIDE DEF I
    <3>1. I \in SUBSET Nat
      BY DEF I
    <3> QED
      BY <2>1, <2>2, <3>1, Induction
  <2>4. ASSUME NEW i \in 1 .. n PROVE c[i] \in S
    <3>1. i - 1 \in Nat /\ (i - 1) + 1 = i /\ i <= n
      BY <1>2
    <3>2. i - 1 \in I
      BY <2>3, <3>1
    <3> QED
      BY <3>1, <3>2
  <2> QED
    BY <1>5, <2>4
<1>8. AtOrAbove(user) \subseteq Range(c)
  <2>1. user \in Range(c)
    BY <1>2, <1>5
  <2>2. \A u \in Range(c) : users[u].manager \in Users => users[u].manager \in Range(c)
    BY <1>6 DEF ManagerOf
  <2>3. Range(c) \in SUBSET Users
    BY <1>5
  <2> QED
    BY <2>1, <2>2, <2>3 DEF AtOrAbove
<1>9. Range(c) = AtOrAbove(user)
  BY <1>7, <1>8
<1>10. ASSUME NEW x \in {Nobody, Stranger}
       PROVE  (\E u \in AtOrAbove(user) : ManagerOf(u) = x) <=> ManagerOf(c[n]) = x
  <2>1. c[n] \in Range(c)
    BY <1>2, <1>5
  <2>2. ASSUME NEW u \in Range(c), ManagerOf(u) = x PROVE ManagerOf(c[n]) = x
    <3>1. PICK i \in 1 .. n : u = c[i]
      BY <1>5
    <3>2. CASE i = n
      BY <2>2, <3>1, <3>2
    <3>3. CASE i # n
      <4>1. i \in 1 .. n - 1 /\ i + 1 \in 1 .. n
        BY <1>2, <3>3
      <4>2. ManagerOf(u) \in Users
        BY <1>2, <1>5, <3>1, <4>1
      <4> QED
        BY <1>3, <2>2, <4>2
    <3> QED
      BY <3>2, <3>3
  <2> QED
    BY <1>9, <2>1, <2>2
<1>11. w.error = "none" <=> ManagerOf(c[n]) = Nobody
  BY <1>3, <1>4, <1>5
<1>12. w.error = "unknown" <=> ManagerOf(c[n]) = Stranger
  BY <1>3, <1>4, <1>5
<1>13. /\ Nobody \in {users[u].manager : u \in AtOrAbove(user)} <=> ManagerOf(c[n]) = Nobody
       /\ Stranger \in {users[u].manager : u \in AtOrAbove(user)} <=> ManagerOf(c[n]) = Stranger
  BY <1>10 DEF ManagerOf
<1> QED
  BY <1>1, <1>9, <1>11, <1>12, <1>13 DEF w, c, n

LEMMA PlaneInvImplies == PlaneInv => PlaneTypeOK /\ ChainsAreWhole
  BY ChainsAreAlwaysWhole DEF PlaneInv

-----------------------------------------------------------------------------
(* The defence of a host.                                                    *)

LEMMA LongerIs ==
  ASSUME NEW until \in Nat, NEW now \in Nat
  PROVE  /\ Longer(until, now) \in {until, now + BlockSeconds}
         /\ Longer(until, now) >= until /\ Longer(until, now) >= now + BlockSeconds
<1>1. BlockSeconds \in Nat /\ now + BlockSeconds \in Nat
  BY HostDefenseAssumption
<1>2. \E x \in {until, now + BlockSeconds} : \A y \in {until, now + BlockSeconds} : x >= y
  <2>1. CASE until >= now + BlockSeconds
    BY <1>1, <2>1
  <2>2. CASE ~(until >= now + BlockSeconds)
    <3>1. now + BlockSeconds >= until /\ now + BlockSeconds >= now + BlockSeconds
      BY <1>1, <2>2
    <3> QED
      BY <3>1
  <2> QED
    BY <2>1, <2>2
<1> DEFINE m == Longer(until, now)
<1>3. m \in {until, now + BlockSeconds} /\ \A y \in {until, now + BlockSeconds} : m >= y
  BY <1>2, Zenon DEF Longer, Max
<1> QED
  BY <1>3

DefenseInv == DefenseTypeOK /\ HeavyWasBlocked

LEMMA DefenseInitInv == DefenseInit => DefenseInv
<1>1. 0 \in 0 .. LastMoment /\ 0 \in 0 .. MaxSignals /\ 0 \in 0 .. (LastMoment + BlockSeconds)
  BY HostDefenseAssumption
<1> QED
  BY <1>1 DEF DefenseInit, DefenseInv, DefenseTypeOK, HeavyWasBlocked, HostStates

LEMMA ObserveStep ==
  ASSUME DefenseInv, NEW source \in Sources, NEW signal \in Signals,
         NEW severity \in {"medium", "critical"}, ObserveAttack(source, signal, severity)
  PROVE  DefenseInv' /\ \A s \in Sources : blockedUntil'[s] >= blockedUntil[s]
<1> USE HostDefenseAssumption
<1> DEFINE score == scores[source] + Weight[signal]
           until == Longer(blockedUntil[source], moment)
           incident == [source |-> source,
                        severity |-> IF severity = "critical" THEN "critical" ELSE "high"]
<1>1. DefenseTypeOK /\ HeavyWasBlocked
  BY DEF DefenseInv
<1>2. /\ moment \in 0 .. LastMoment /\ scores \in [Sources -> Nat]
      /\ failures \in [Sources -> 0 .. MaxSignals]
      /\ blockedUntil \in [Sources -> 0 .. (LastMoment + BlockSeconds)]
      /\ incidents \subseteq [source : Sources, severity : {"high", "critical"}]
  BY <1>1 DEF DefenseTypeOK
<1>3. score \in Nat /\ blockedUntil[source] \in Nat /\ moment \in Nat
  BY <1>2
<1>4. /\ scores' = [scores EXCEPT ![source] = score] /\ moment' = moment
      /\ failures' = [failures EXCEPT ![source] = failures[source] + 1]
      /\ failures[source] < MaxSignals
  BY DEF ObserveAttack
<1>5. scores' \in [Sources -> Nat] /\ failures' \in [Sources -> 0 .. MaxSignals]
  <2>1. failures[source] + 1 \in 0 .. MaxSignals
    BY <1>2, <1>4
  <2> QED
    BY <1>2, <1>3, <1>4, <2>1
<1>6. CASE /\ Blocks(score, severity)
           /\ blockedUntil' = [blockedUntil EXCEPT ![source] = until]
           /\ containment' = "restricted" /\ incidents' = incidents \cup {incident}
  <2>1. /\ until \in Nat /\ until >= blockedUntil[source] /\ until > 0
        /\ until \in 0 .. (LastMoment + BlockSeconds)
    <3>1. until \in {blockedUntil[source], moment + BlockSeconds}
          /\ until >= blockedUntil[source] /\ until >= moment + BlockSeconds
      BY <1>3, LongerIs
    <3> HIDE DEF until
    <3> QED
      BY <1>2, <3>1
  <2> HIDE DEF until, score
  <2>2. incident \in [source : Sources, severity : {"high", "critical"}] /\ incident.source = source
    OBVIOUS
  <2> HIDE DEF incident
  <2>3. blockedUntil' \in [Sources -> 0 .. (LastMoment + BlockSeconds)]
    BY <1>2, <1>6, <2>1
  <2>4. DefenseTypeOK'
    BY <1>2, <1>4, <1>5, <1>6, <2>2, <2>3 DEF DefenseTypeOK, HostStates
  <2>5. ASSUME NEW s \in Sources
        PROVE  /\ scores'[s] >= 70 => blockedUntil'[s] > 0
               /\ blockedUntil'[s] > 0 => \E i \in incidents' : i.source = s
               /\ blockedUntil'[s] >= blockedUntil[s]
    <3>1. CASE s = source
      <4>1. blockedUntil'[s] = until
        BY <1>2, <1>6, <3>1
      <4> QED
        BY <1>6, <2>1, <2>2, <3>1, <4>1
    <3>2. CASE s # source
      <4>1. blockedUntil'[s] = blockedUntil[s] /\ scores'[s] = scores[s] /\ incidents \subseteq incidents'
            /\ blockedUntil[s] \in Nat
        BY <1>2, <1>4, <1>6, <3>2
      <4> QED
        BY <1>1, <4>1 DEF HeavyWasBlocked
    <3> QED
      BY <3>1, <3>2
  <2> QED
    BY <2>4, <2>5 DEF DefenseInv, HeavyWasBlocked
<1>7. CASE ~Blocks(score, severity) /\ UNCHANGED <<blockedUntil, containment, incidents>>
  <2>1. score < 70
    BY <1>3, <1>7 DEF Blocks
  <2> HIDE DEF score
  <2>2. DefenseTypeOK'
    BY <1>1, <1>4, <1>5, <1>7 DEF DefenseTypeOK
  <2>3. ASSUME NEW s \in Sources
        PROVE  /\ scores'[s] >= 70 => blockedUntil'[s] > 0
               /\ blockedUntil'[s] > 0 => \E i \in incidents' : i.source = s
               /\ blockedUntil'[s] >= blockedUntil[s]
    <3>1. blockedUntil[s] \in Nat
      BY <1>2
    <3>2. CASE s = source
      <4>1. scores'[s] < 70
        BY <1>2, <1>3, <1>4, <2>1, <3>2
      <4>2. scores'[s] \in Nat
        BY <1>5
      <4> QED
        BY <1>1, <1>7, <3>1, <4>1, <4>2 DEF HeavyWasBlocked
    <3>3. CASE s # source
      <4>1. scores'[s] = scores[s]
        BY <1>2, <1>4, <3>3
      <4> QED
        BY <1>1, <1>7, <3>1, <4>1 DEF HeavyWasBlocked
    <3> QED
      BY <3>2, <3>3
  <2> QED
    BY <2>2, <2>3 DEF DefenseInv, HeavyWasBlocked
<1> QED
  BY <1>6, <1>7 DEF ObserveAttack

LEMMA DefenseInvStep ==
  DefenseInv /\ [DefenseNext]_defenseVars => DefenseInv' /\ BlockNeverShortens
<1> SUFFICES ASSUME DefenseInv, [DefenseNext]_defenseVars PROVE DefenseInv' /\ BlockNeverShortens
  OBVIOUS
<1>1. DefenseTypeOK /\ HeavyWasBlocked
  BY DEF DefenseInv
<1>2. \A s \in Sources : blockedUntil[s] \in Nat
  BY <1>1, HostDefenseAssumption DEF DefenseTypeOK
<1>3. ASSUME NEW source \in Sources, NEW signal \in Signals, NEW severity \in {"medium", "critical"},
             ObserveAttack(source, signal, severity)
      PROVE  DefenseInv' /\ BlockNeverShortens
  BY <1>3, ObserveStep DEF BlockNeverShortens
<1>4. ASSUME NEW source \in Sources, ClearAfterReview(source)
      PROVE  DefenseInv' /\ BlockNeverShortens
  <2>1. 0 \in Nat /\ 0 \in 0 .. MaxSignals /\ 0 \in 0 .. (LastMoment + BlockSeconds)
    BY HostDefenseAssumption
  <2>2. DefenseTypeOK'
    BY <1>1, <1>4, <2>1 DEF DefenseTypeOK, ClearAfterReview
  <2>3. ASSUME NEW s \in Sources
        PROVE  IF s = source THEN scores'[s] = 0 /\ blockedUntil'[s] = 0
               ELSE scores'[s] = scores[s] /\ blockedUntil'[s] = blockedUntil[s]
    BY <1>1, <1>4 DEF DefenseTypeOK, ClearAfterReview
  <2>4. incidents' = incidents
    BY <1>4 DEF ClearAfterReview
  <2>5. HeavyWasBlocked'
    <3> SUFFICES ASSUME NEW s \in Sources
                 PROVE  /\ scores'[s] >= 70 => blockedUntil'[s] > 0
                        /\ blockedUntil'[s] > 0 => \E i \in incidents' : i.source = s
      BY DEF HeavyWasBlocked
    <3> QED
      BY <1>1, <2>3, <2>4 DEF HeavyWasBlocked
  <2>6. BlockNeverShortens
    <3> SUFFICES ASSUME NEW s \in Sources PROVE blockedUntil'[s] >= blockedUntil[s] \/ scores'[s] = 0
      BY DEF BlockNeverShortens
    <3> QED
      BY <1>2, <2>3
  <2> QED
    BY <2>2, <2>5, <2>6 DEF DefenseInv
<1>5. ASSUME UNCHANGED <<scores, failures, blockedUntil, incidents>>, moment' \in 0 .. LastMoment,
             containment' \in HostStates
      PROVE  DefenseInv' /\ BlockNeverShortens
  BY <1>1, <1>2, <1>5 DEF DefenseInv, DefenseTypeOK, HeavyWasBlocked, BlockNeverShortens
<1>6. CASE DeclareIncident \/ (\E approved \in BOOLEAN : Recover(approved)) \/ UNCHANGED defenseVars
  BY <1>1, <1>5, <1>6 DEF DeclareIncident, Recover, defenseVars, DefenseTypeOK, HostStates
<1>7. CASE DefenseTick
  <2>1. moment' \in 0 .. LastMoment
    BY <1>1, <1>7, HostDefenseAssumption DEF DefenseTick, DefenseTypeOK
  <2> QED
    BY <1>1, <1>5, <1>7, <2>1 DEF DefenseTick, DefenseTypeOK
<1> QED
  BY <1>3, <1>4, <1>6, <1>7 DEF DefenseNext

-----------------------------------------------------------------------------
(* The sliding window of a limiter.                                          *)

\* The requests that were granted in the window that ends at a time.
Within(t) == {r \in grantedRequests : r.at > t - Window /\ r.at <= t}

\* What the limiter forgot has left the window, and numbers tell requests apart.
LimiterInv ==
  /\ LimiterTypeOK /\ NoWindowExceedsTheLimit /\ RefusedIsFull
  /\ IsFiniteSet(grantedRequests)
  /\ \A r \in grantedRequests : r.number < Cardinality(grantedRequests) /\ r.at <= requestClock
  /\ \A r \in grantedRequests : r \notin window => r.at <= requestClock - Window

LEMMA LimiterInitInv == LimiterInit => LimiterInv
<1> SUFFICES ASSUME LimiterInit PROVE LimiterInv
  OBVIOUS
<1>1. IsFiniteSet({}) /\ Cardinality({}) = 0
  BY FS_EmptySet
<1>2. 0 \in 0 .. LastRequest
  BY LimiterAssumption
<1>3. grantedRequests = {} /\ window = {} /\ requestClock = 0 /\ answer = "none"
  BY DEF LimiterInit
<1>4. \A t \in 0 .. requestClock : {r \in grantedRequests : r.at > t - Window /\ r.at <= t} = {}
  BY <1>3
<1>5. NoWindowExceedsTheLimit
  BY <1>1, <1>4, LimiterAssumption DEF NoWindowExceedsTheLimit
<1>6. LimiterTypeOK
  BY <1>1, <1>2, <1>3, LimiterAssumption DEF LimiterTypeOK
<1> QED
  BY <1>1, <1>3, <1>5, <1>6 DEF LimiterInv, RefusedIsFull

\* What the limiter keeps is all that was granted within the window that ends now.
LEMMA RecentIsWithin ==
  ASSUME LimiterInv
  PROVE  /\ Recent(window, requestClock) = Within(requestClock)
         /\ Recent(grantedRequests, requestClock) = Within(requestClock)
<1>1. /\ window \subseteq grantedRequests /\ grantedRequests \subseteq GrantedRequest
      /\ requestClock \in Nat
  BY DEF LimiterInv, LimiterTypeOK
<1>2. \A r \in grantedRequests : r.at \in Nat /\ r.at <= requestClock
  BY <1>1 DEF LimiterInv, GrantedRequest
<1>3. \A r \in grantedRequests : r \notin window => ~(r.at > requestClock - Window)
  BY <1>1, <1>2, LimiterAssumption DEF LimiterInv
<1> QED
  BY <1>1, <1>2, <1>3 DEF Recent, Since, Within

LEMMA AllowStep == LimiterInv /\ Allow => LimiterInv'
<1> SUFFICES ASSUME LimiterInv, Allow PROVE LimiterInv'
  OBVIOUS
<1> DEFINE kept == Recent(window, requestClock)
           n == Cardinality(grantedRequests)
           request == [number |-> n, at |-> requestClock]
<1>1. /\ window \subseteq grantedRequests /\ grantedRequests \subseteq GrantedRequest
      /\ requestClock \in 0 .. LastRequest /\ requestClock \in Nat /\ IsFiniteSet(grantedRequests)
      /\ Window \in Nat /\ Window > 0 /\ Limit \in Nat
      /\ Cardinality(window) <= Limit /\ NoWindowExceedsTheLimit
      /\ \A r \in grantedRequests : r.number < n /\ r.at <= requestClock
      /\ \A r \in grantedRequests : r \notin window => r.at <= requestClock - Window
  BY LimiterAssumption DEF LimiterInv, LimiterTypeOK
<1>2. \A r \in grantedRequests : r.at \in Nat /\ r.number \in Nat
  BY <1>1 DEF GrantedRequest
<1>3. n \in Nat /\ request.number = n /\ request.at = requestClock /\ request \in GrantedRequest
  BY <1>1, FS_CardinalityType DEF GrantedRequest
<1>4. request \notin grantedRequests
  BY <1>1, <1>3
<1>5. /\ kept = Within(requestClock) /\ kept \subseteq window
      /\ \A r \in grantedRequests : r \notin kept => r.at <= requestClock - Window
  <2>1. kept = Within(requestClock)
    BY RecentIsWithin
  <2>2. kept \subseteq window
    BY DEF Recent, Since
  <2>3. ASSUME NEW r \in grantedRequests, r \notin kept PROVE r.at <= requestClock - Window
    BY <1>1, <1>2, <2>1, <2>3 DEF Within
  <2> QED
    BY <2>1, <2>2, <2>3
<1>6. requestClock' = requestClock
  BY DEF Allow
<1>7. IsFiniteSet(kept) /\ Cardinality(kept) \in Nat
  BY <1>1, <1>5, FS_Subset, FS_CardinalityType
<1> HIDE DEF kept, request, n
<1>8. CASE /\ Cardinality(kept) >= Limit
           /\ window' = kept /\ answer' = "refused" /\ UNCHANGED grantedRequests
  <2>1. Cardinality(kept) <= Limit
    <3>1. Cardinality(Within(requestClock)) <= Limit
      BY <1>1 DEF NoWindowExceedsTheLimit, Within
    <3> QED
      BY <1>5, <3>1
  <2>2. LimiterTypeOK'
    BY <1>1, <1>5, <1>6, <1>8, <2>1 DEF LimiterTypeOK
  <2>3. NoWindowExceedsTheLimit'
    BY <1>1, <1>6, <1>8 DEF NoWindowExceedsTheLimit
  <2>4. Recent(grantedRequests, requestClock) = kept
    BY <1>5, RecentIsWithin
  <2>5. Recent(grantedRequests', requestClock') = kept
    BY <1>6, <1>8, <2>4
  <2>6. RefusedIsFull'
    BY <1>8, <2>5 DEF RefusedIsFull
  <2> QED
    BY <1>1, <1>5, <1>6, <1>8, <2>2, <2>3, <2>6 DEF LimiterInv, n
<1>9. CASE /\ Cardinality(kept) < Limit
           /\ window' = kept \cup {request} /\ answer' = "granted"
           /\ grantedRequests' = grantedRequests \cup {request}
  <2>1. /\ IsFiniteSet(grantedRequests') /\ Cardinality(grantedRequests') = n + 1
        /\ IsFiniteSet(kept \cup {request}) /\ Cardinality(kept \cup {request}) = Cardinality(kept) + 1
    BY <1>1, <1>4, <1>5, <1>7, <1>9, FS_AddElement DEF n
  <2>2. LimiterTypeOK'
    BY <1>1, <1>3, <1>5, <1>6, <1>7, <1>9, <2>1 DEF LimiterTypeOK
  <2>3. NoWindowExceedsTheLimit'
    <3> SUFFICES ASSUME NEW t \in 0 .. requestClock
                 PROVE  Cardinality({r \in grantedRequests' : r.at > t - Window /\ r.at <= t}) <= Limit
      BY <1>6 DEF NoWindowExceedsTheLimit
    <3> DEFINE W == {r \in grantedRequests' : r.at > t - Window /\ r.at <= t}
    <3>1. CASE t = requestClock
      <4>1. W = Within(t) \cup {request}
        BY <1>1, <1>3, <1>9, <3>1 DEF Within
      <4>2. W = kept \cup {request}
        BY <1>5, <3>1, <4>1
      <4>3. Cardinality(W) = Cardinality(kept) + 1
        BY <2>1, <4>2
      <4> HIDE DEF W
      <4> QED
        BY <1>1, <1>7, <1>9, <4>3 DEF W
    <3>2. CASE t # requestClock
      <4>1. ~(request.at <= t)
        BY <1>1, <1>3, <3>2
      <4>2. W = {r \in grantedRequests : r.at > t - Window /\ r.at <= t}
        BY <1>9, <4>1
      <4> QED
        BY <1>1, <4>2 DEF NoWindowExceedsTheLimit
    <3> QED
      BY <3>1, <3>2
  <2>4. \A r \in grantedRequests' : r.number < n + 1 /\ r.at <= requestClock'
    BY <1>1, <1>2, <1>3, <1>6, <1>9
  <2>5. \A r \in grantedRequests' : r \notin window' => r.at <= requestClock' - Window
    BY <1>5, <1>6, <1>9
  <2>6. RefusedIsFull'
    BY <1>9 DEF RefusedIsFull
  <2> QED
    BY <2>1, <2>2, <2>3, <2>4, <2>5, <2>6 DEF LimiterInv
<1> QED
  BY <1>8, <1>9 DEF Allow, kept, request, n

LEMMA LimiterTickStep == LimiterInv /\ LimiterTick => LimiterInv'
<1> SUFFICES ASSUME LimiterInv, LimiterTick PROVE LimiterInv'
  OBVIOUS
<1>1. /\ grantedRequests \subseteq GrantedRequest /\ IsFiniteSet(grantedRequests)
      /\ requestClock \in Nat /\ LastRequest \in Nat /\ Window \in Nat /\ Window > 0 /\ Limit \in Nat
      /\ NoWindowExceedsTheLimit
  BY LimiterAssumption DEF LimiterInv, LimiterTypeOK
<1>2. /\ requestClock' = requestClock + 1 /\ window' = window /\ answer' = "none"
      /\ grantedRequests' = grantedRequests /\ requestClock < LastRequest
  BY DEF LimiterTick
<1>3. \A r \in grantedRequests : r.at \in Nat /\ r.at <= requestClock
  BY <1>1 DEF LimiterInv, GrantedRequest
<1>4. LimiterTypeOK'
  BY <1>1, <1>2 DEF LimiterInv, LimiterTypeOK
<1>5. NoWindowExceedsTheLimit'
  <2> SUFFICES ASSUME NEW t \in 0 .. requestClock + 1
               PROVE  Cardinality({r \in grantedRequests : r.at > t - Window /\ r.at <= t}) <= Limit
    BY <1>2 DEF NoWindowExceedsTheLimit
  <2> DEFINE W == {r \in grantedRequests : r.at > t - Window /\ r.at <= t}
  <2>1. CASE t = requestClock + 1
    <3>1. W \subseteq Within(requestClock)
      BY <1>1, <1>3, <2>1 DEF Within
    <3>2. Within(requestClock) \subseteq grantedRequests
      BY DEF Within
    <3>3. Cardinality(Within(requestClock)) <= Limit
      BY <1>1 DEF NoWindowExceedsTheLimit, Within
    <3> HIDE DEF W
    <3>4. IsFiniteSet(Within(requestClock))
      BY <1>1, <3>2, FS_Subset
    <3>5. /\ Cardinality(W) <= Cardinality(Within(requestClock))
          /\ IsFiniteSet(W)
      BY <3>1, <3>4, FS_Subset
    <3>6. Cardinality(W) \in Nat /\ Cardinality(Within(requestClock)) \in Nat
      BY <3>4, <3>5, FS_CardinalityType
    <3>7. Cardinality(W) <= Limit
      BY <1>1, <3>3, <3>5, <3>6
    <3> QED
      BY <3>7 DEF W
  <2>2. CASE t # requestClock + 1
    <3>1. t \in 0 .. requestClock
      BY <1>1, <2>2
    <3> QED
      BY <1>1, <3>1 DEF NoWindowExceedsTheLimit
  <2> QED
    BY <2>1, <2>2
<1>6. \A r \in grantedRequests : r \notin window => r.at <= (requestClock + 1) - Window
  BY <1>1, <1>3 DEF LimiterInv
<1>7. \A r \in grantedRequests : r.number < Cardinality(grantedRequests) /\ r.at <= requestClock + 1
  BY <1>1, <1>3 DEF LimiterInv
<1> QED
  BY <1>1, <1>2, <1>4, <1>5, <1>6, <1>7 DEF LimiterInv, RefusedIsFull

LEMMA LimiterInvStep == LimiterInv /\ [LimiterNext]_limiterVars => LimiterInv'
<1>1. LimiterInv /\ UNCHANGED limiterVars => LimiterInv'
  BY DEF limiterVars, LimiterInv, LimiterTypeOK, NoWindowExceedsTheLimit, RefusedIsFull
<1> QED
  BY <1>1, AllowStep, LimiterTickStep DEF LimiterNext

-----------------------------------------------------------------------------
(* An incident, from its events to its recovery.                             *)

LEMMA RanksAre ==
  /\ Rank("info") = 1 /\ Rank("medium") = 3 /\ Rank("high") = 4 /\ Rank("critical") = 5
  /\ Len(Severities) = 5
<1> USE DEF Severities
<1>1. Len(Severities) = 5
  OBVIOUS
<1>2. /\ Severities[1] = "info" /\ Severities[2] = "low" /\ Severities[3] = "medium"
      /\ Severities[4] = "high" /\ Severities[5] = "critical"
  OBVIOUS
<1> HIDE DEF Severities
<1>3. \A k \in 1 .. 5 : k = 1 \/ k = 2 \/ k = 3 \/ k = 4 \/ k = 5
  OBVIOUS
<1>4. ASSUME NEW j \in 1 .. 5, NEW s, Severities[j] = s, \A k \in 1 .. 5 : Severities[k] = s => k = j
      PROVE  Rank(s) = j
  <2>1. \E k \in 1 .. 5 : Severities[k] = s
    BY <1>4
  <2>2. Rank(s) \in 1 .. 5 /\ Severities[Rank(s)] = s
    BY <1>1, <2>1, Zenon DEF Rank
  <2> QED
    BY <1>4, <2>2
<1>5. 1 \in 1 .. 5 /\ 3 \in 1 .. 5 /\ 4 \in 1 .. 5 /\ 5 \in 1 .. 5
  OBVIOUS
<1>6. /\ \A k \in 1 .. 5 : Severities[k] = "info" => k = 1
      /\ \A k \in 1 .. 5 : Severities[k] = "medium" => k = 3
      /\ \A k \in 1 .. 5 : Severities[k] = "high" => k = 4
      /\ \A k \in 1 .. 5 : Severities[k] = "critical" => k = 5
  BY <1>2, <1>3
<1> QED
  BY <1>1, <1>2, <1>4, <1>5, <1>6

\* The events handed in, as a list.
SecurityEvents == Seq([type : EventTypes, source : EventSources])

LEMMA EventsAre ==
  ASSUME NEW list \in SecurityEvents
  PROVE  Range(list) \subseteq [type : EventTypes, source : EventSources]
<1> DEFINE Event == [type : EventTypes, source : EventSources]
<1>1. list \in Seq(Event)
  BY DEF SecurityEvents
<1> HIDE DEF Event
<1>2. DOMAIN list = 1 .. Len(list) /\ \A k \in 1 .. Len(list) : list[k] \in Event
  BY <1>1
<1> QED
  BY <1>2 DEF Range, Event

\* The severity is the greatest of the ranks of the reasons.
LEMMA DetectedIs ==
  ASSUME NEW list
  PROVE  /\ DetectedRank(list) \in RanksOf(list) /\ RanksOf(list) \subseteq {1, 3, 4, 5}
         /\ \A rank \in RanksOf(list) : DetectedRank(list) >= rank
<1> DEFINE S == RanksOf(list)
<1>1. S \subseteq {1, 3, 4, 5} /\ 1 \in S
  BY RanksAre DEF RanksOf
<1> HIDE DEF S
<1>2. \E x \in S : \A y \in S : x >= y
  <2>1. CASE 5 \in S
    BY <1>1, <2>1
  <2>2. CASE 5 \notin S /\ 4 \in S
    BY <1>1, <2>2
  <2>3. CASE 5 \notin S /\ 4 \notin S /\ 3 \in S
    BY <1>1, <2>3
  <2>4. CASE 5 \notin S /\ 4 \notin S /\ 3 \notin S
    BY <1>1, <2>4
  <2> QED
    BY <2>1, <2>2, <2>3, <2>4
<1>3. Max(S) \in S /\ \A y \in S : Max(S) >= y
  BY <1>2, Zenon DEF Max
<1> QED
  BY <1>1, <1>3 DEF S, DetectedRank

\* What is recommended depends on the severity alone, and a higher one recommends no less.
LEMMA RecommendedIs ==
  ASSUME NEW list
  PROVE  /\ Recommended(list) \subseteq ResponseActions
         /\ Recommended(list) # {} =>
              /\ DetectedRank(list) > Rank("info")
              /\ {"preserve_evidence", "review_source"} \subseteq Recommended(list)
<1>1. DetectedRank(list) \in {1, 3, 4, 5}
  BY DetectedIs
<1>2. DetectedRank(list) >= Rank("high") => Detected(list)
  BY <1>1, RanksAre DEF Detected
<1>3. DetectedRank(list) = Rank("critical") => Detected(list)
  BY <1>1, RanksAre DEF Detected
<1>4. Recommended(list) \subseteq ResponseActions
  BY DEF Recommended, ResponseActions
<1>5. Detected(list) => {"preserve_evidence", "review_source"} \subseteq Recommended(list)
  BY DEF Recommended
<1>6. ~Detected(list) => Recommended(list) = {}
  BY <1>2, <1>3 DEF Recommended
<1> QED
  BY <1>4, <1>5, <1>6 DEF Detected

LEMMA MoreIsRecommended ==
  ASSUME NEW list, NEW more, DetectedRank(more) >= DetectedRank(list)
  PROVE  Recommended(list) \subseteq Recommended(more)
<1>1. DetectedRank(list) \in {1, 3, 4, 5} /\ DetectedRank(more) \in {1, 3, 4, 5}
  BY DetectedIs
<1>2. /\ Detected(list) => Detected(more)
      /\ DetectedRank(list) >= Rank("high") => DetectedRank(more) >= Rank("high")
      /\ DetectedRank(list) = Rank("critical") => DetectedRank(more) = Rank("critical")
  BY <1>1, RanksAre DEF Detected
<1> QED
  BY <1>2 DEF Recommended

\* A further event takes no reason away.
LEMMA RanksGrow ==
  ASSUME NEW list \in SecurityEvents, NEW e \in [type : EventTypes, source : EventSources]
  PROVE  RanksOf(list) \subseteq RanksOf(Append(list, e))
<1> DEFINE more == Append(list, e)
<1>1. /\ Len(more) = Len(list) + 1 /\ Len(list) \in Nat
      /\ DOMAIN list = 1 .. Len(list) /\ DOMAIN more = 1 .. (Len(list) + 1)
      /\ \A k \in 1 .. Len(list) : more[k] = list[k] /\ k \in DOMAIN more
  BY DEF SecurityEvents
<1> HIDE DEF more
<1>2. Range(list) \subseteq Range(more)
  BY <1>1 DEF Range
<1>3. TypesOf(list) \subseteq TypesOf(more)
  BY <1>2 DEF TypesOf
<1>4. Len(list) >= 3 => Len(more) >= 3
  BY <1>1
<1> QED
  BY <1>3, <1>4 DEF RanksOf, more

OperationsInv ==
  /\ OperationsTypeOK /\ PendingIsDetected
  /\ events \in SecurityEvents /\ Len(events) <= MaxEvents

LEMMA OperationsInitInv == OperationsInit => OperationsInv
<1> SUFFICES ASSUME OperationsInit PROVE OperationsInv
  OBVIOUS
<1>1. events = <<>> /\ analysis = NoAnalysis /\ approval = "not_required"
  BY DEF OperationsInit
<1>2. events \in SecurityEvents /\ Len(events) <= MaxEvents
  BY <1>1, OperationsAssumption DEF SecurityEvents
<1>3. Range(events) \subseteq [type : EventTypes, source : EventSources]
  BY <1>2, EventsAre
<1> QED
  BY <1>1, <1>2, <1>3 DEF OperationsInv, OperationsTypeOK, PendingIsDetected

LEMMA OperationsInvStep ==
  OperationsInv /\ [OperationsNext]_operationsVars => OperationsInv' /\ SeverityNeverFalls
<1> SUFFICES ASSUME OperationsInv, [OperationsNext]_operationsVars
             PROVE  OperationsInv' /\ SeverityNeverFalls
  OBVIOUS
<1>1. /\ OperationsTypeOK /\ PendingIsDetected
      /\ events \in SecurityEvents /\ Len(events) <= MaxEvents /\ Len(events) \in Nat
      /\ approval \in {"not_required", "pending", "approved", "rejected"}
      /\ analysis = NoAnalysis \/ analysis \in Analysis
  BY DEF OperationsInv, OperationsTypeOK, SecurityEvents
<1>2. \A list : DetectedRank(list) >= DetectedRank(list)
  <2> TAKE list
  <2>1. DetectedRank(list) \in {1, 3, 4, 5}
    BY DetectedIs
  <2> QED
    BY <2>1
<1>3. ASSUME NEW type \in EventTypes, NEW source \in EventSources, Report(type, source)
      PROVE  OperationsInv' /\ SeverityNeverFalls
  <2> DEFINE e == [type |-> type, source |-> source]
  <2>1. /\ events' = Append(events, e) /\ analysis' = analysis /\ approval' = approval
        /\ Len(events) < MaxEvents /\ e \in [type : EventTypes, source : EventSources]
    BY <1>3 DEF Report
  <2> HIDE DEF e
  <2>2. events' \in SecurityEvents /\ Len(events') <= MaxEvents
    BY <1>1, <2>1, OperationsAssumption DEF SecurityEvents
  <2>3. Range(events') \subseteq [type : EventTypes, source : EventSources]
    BY <2>2, EventsAre
  <2>4. OperationsInv'
    BY <1>1, <2>1, <2>2, <2>3 DEF OperationsInv, OperationsTypeOK, PendingIsDetected
  <2>5. DetectedRank(events') >= DetectedRank(events)
    <3>1. RanksOf(events) \subseteq RanksOf(events')
      BY <1>1, <2>1, RanksGrow
    <3> QED
      BY <3>1, DetectedIs
  <2>6. Recommended(events) \subseteq Recommended(events')
    BY <2>5, MoreIsRecommended
  <2> QED
    BY <2>4, <2>5, <2>6 DEF SeverityNeverFalls
<1>4. UNCHANGED events => SeverityNeverFalls
  BY <1>2 DEF SeverityNeverFalls
<1>5. CASE AnalyzeIncident
  <2>1. DetectedRank(events) \in 1 .. Len(Severities) /\ Recommended(events) \in SUBSET ResponseActions
    <3>1. DetectedRank(events) \in {1, 3, 4, 5}
      BY DetectedIs
    <3> QED
      BY <3>1, RanksAre, RecommendedIs
  <2>2. /\ analysis' = [count |-> Len(events), rank |-> DetectedRank(events),
                        recommended |-> Recommended(events),
                        recovery |-> "assessment", preserved |-> events # <<>>]
        /\ approval' = ApprovalOf(events) /\ events' = events
    BY <1>5 DEF AnalyzeIncident
  <2>3. Len(events) \in 0 .. MaxEvents
    BY <1>1, OperationsAssumption
  <2>4. analysis' \in Analysis
    BY <2>1, <2>2, <2>3 DEF Analysis
  <2>5. analysis'.rank = DetectedRank(events) /\ analysis'.recommended = Recommended(events)
        /\ analysis'.preserved = (events # <<>>)
    BY <2>2
  <2>6. ASSUME approval' = "pending"
        PROVE  /\ analysis'.rank > Rank("info") /\ analysis'.preserved
               /\ {"preserve_evidence", "review_source"} \subseteq analysis'.recommended
    <3>1. Recommended(events) # {}
      BY <2>2, <2>6 DEF ApprovalOf
    <3>2. DetectedRank(events) > Rank("info")
          /\ {"preserve_evidence", "review_source"} \subseteq Recommended(events)
      BY <3>1, RecommendedIs
    <3>3. events # <<>>
      <4> SUFFICES ASSUME events = <<>> PROVE FALSE
        OBVIOUS
      <4>1. Len(events) = 0 /\ DOMAIN events = {}
        BY <1>1 DEF SecurityEvents
      <4>2. TypesOf(events) = {}
        BY <4>1 DEF TypesOf, Range
      <4>3. RanksOf(events) = {1}
        BY <4>1, <4>2, RanksAre DEF RanksOf
      <4>4. DetectedRank(events) = 1
        BY <4>3, DetectedIs
      <4> QED
        BY <3>2, <4>4, RanksAre
    <3> QED
      BY <2>5, <3>2, <3>3
  <2>7. PendingIsDetected'
    BY <2>6 DEF PendingIsDetected
  <2>8. approval' \in {"not_required", "pending", "approved", "rejected"}
    BY <2>2 DEF ApprovalOf
  <2>9. OperationsTypeOK'
    BY <1>1, <2>2, <2>4, <2>8 DEF OperationsTypeOK
  <2> QED
    BY <1>1, <1>4, <2>2, <2>7, <2>9 DEF OperationsInv
<1>6. ASSUME NEW reply \in {"approved", "rejected"}, DecideResponse(reply)
      PROVE  OperationsInv' /\ SeverityNeverFalls
  BY <1>1, <1>4, <1>6 DEF DecideResponse, OperationsInv, OperationsTypeOK, PendingIsDetected
<1>7. CASE MarkRecovered
  <2>1. /\ analysis \in Analysis /\ analysis' = [analysis EXCEPT !.recovery = "recovered"]
        /\ events' = events /\ approval' = approval
    BY <1>1, <1>7 DEF MarkRecovered
  <2>2. analysis'.rank = analysis.rank /\ analysis'.preserved = analysis.preserved
        /\ analysis'.recommended = analysis.recommended /\ analysis' \in Analysis
    BY <2>1 DEF Analysis
  <2> QED
    BY <1>1, <1>4, <2>1, <2>2 DEF OperationsInv, OperationsTypeOK, PendingIsDetected
<1>8. CASE UNCHANGED operationsVars
  BY <1>1, <1>4, <1>8 DEF operationsVars, OperationsInv, OperationsTypeOK, PendingIsDetected
<1> QED
  BY <1>3, <1>5, <1>6, <1>7, <1>8 DEF OperationsNext

-----------------------------------------------------------------------------
(* The engines that decide about one request.                                *)

Threats == {"low", "medium", "high", "critical"}

\* The threat the core and the zero-trust engine see of an incident.
Threat(severity) == IF IncidentRestricted(severity) THEN "high" ELSE severity

LEMMA DecisionsAre ==
  ASSUME NEW c, NEW h, NEW s, NEW d
  PROVE  /\ Decisions(c, h, s, d).core = Core(c, Threat(s), "device" \in c)
         /\ Decisions(c, h, s, d).zeroTrust = ZeroTrust(c, Threat(s))
         /\ Decisions(c, h, s, d).plane = Policy(c, h, s, d)
         /\ Decisions(c, h, s, d).boundary = Boundary(Policy(c, h, s, d), c)
         /\ Decisions(c, h, s, d).failSafe = FailSafe(Policy(c, h, s, d), s)
  BY DEF Decisions, Threat

LEMMA GradesAre ==
  /\ Grade["allow"] = 2 /\ Grade["review"] = 1 /\ Grade["deny"] = 0
  /\ DOMAIN Grade = {"allow", "review", "deny"}
  BY DEF Grade

LEMMA DecisionTypes ==
  ASSUME NEW c, NEW h, NEW s, NEW d, NEW t, NEW device
  PROVE  /\ Core(c, t, device) \in {"allow", "review", "deny"}
         /\ ZeroTrust(c, t) \in {"allow", "review", "deny"}
         /\ Policy(c, h, s, d) \in {"allow", "review", "deny"}
         /\ Boundary(Policy(c, h, s, d), c) \in {"allow", "review", "deny"}
<1>1. Core(c, t, device) \in {"allow", "review", "deny"}
  BY DEF Core
<1>2. ZeroTrust(c, t) \in {"allow", "review", "deny"}
  BY DEF ZeroTrust
<1>3. Policy(c, h, s, d) \in {"allow", "review", "deny"}
  BY DEF Policy
<1> QED
  BY <1>1, <1>2, <1>3 DEF Boundary

\* The restriction of a host, the severity of an incident and data that is blocked decide for the
\* plane; the boundary only takes back what the plane grants.
LEMMA RestrictedDenies == RestrictedIsDenied
<1> DEFINE c == conditions
           p == Policy(conditions, hostState, incidentSeverity, dataState)
           b == Boundary(p, conditions)
<1>1. Now.plane = p /\ Now.boundary = b /\ Now.failSafe = FailSafe(p, incidentSeverity)
  BY DecisionsAre DEF Now
<1>2. p \in {"allow", "review", "deny"} /\ b \in {"allow", "review", "deny"}
  BY DecisionTypes
<1>3. Restricted(hostState, incidentSeverity, dataState) => p = "deny"
  BY DEF Policy
<1>4. p = "allow" => Reviewed(c)
  BY DEF Policy
<1> HIDE DEF p, c
<1>5. /\ b = "deny" <=> p = "deny"
      /\ b = "allow" => p = "allow" /\ "authorization" \in conditions
      /\ b = p \/ (p = "allow" /\ b = "review")
  BY <1>2 DEF Boundary
<1>6. FailSafe(p, incidentSeverity) = "recovery_review" <=> p # "deny"
  BY DEF FailSafe
<1>7. Grade[b] <= Grade[p]
  BY <1>2, <1>5, GradesAre
<1> HIDE DEF b
<1> QED
  BY <1>1, <1>3, <1>4, <1>5, <1>6, <1>7 DEF RestrictedIsDenied, c

\* What the core and the zero-trust engine ask for differs by a session and a device alone.
LEMMA EnginesAlwaysAgree == EnginesAgree
<1> DEFINE t == Threat(incidentSeverity)
<1>1. Now.core = Core(conditions, t, "device" \in conditions) /\ Now.zeroTrust = ZeroTrust(conditions, t)
  BY DecisionsAre DEF Now
<1> HIDE DEF t
<1>2. ZeroTrust(conditions, t) = "allow" => Core(conditions, t, "device" \in conditions) # "deny"
  BY DEF ZeroTrust, Core, PermissionDecision
<1>3. Core(conditions, t, "device" \in conditions) = "allow" /\ "session" \in conditions
        => ZeroTrust(conditions, t) = "allow"
  BY DEF ZeroTrust, Core, PermissionDecision
<1>4. Core(conditions, t, "device" \in conditions) = "deny" => ZeroTrust(conditions, t) = "deny"
  BY DEF ZeroTrust, Core, PermissionDecision
<1> QED
  BY <1>1, <1>2, <1>3, <1>4 DEF EnginesAgree

\* Fewer conditions never make an engine decide more favourably.
LEMMA LosingIsMonotone ==
  ASSUME NEW c, NEW less \in SUBSET c, NEW h, NEW s, NEW d, NEW t
  PROVE  /\ Grade[Core(less, t, "device" \in less)] <= Grade[Core(c, t, "device" \in c)]
         /\ Grade[ZeroTrust(less, t)] <= Grade[ZeroTrust(c, t)]
         /\ Grade[Policy(less, h, s, d)] <= Grade[Policy(c, h, s, d)]
         /\ Grade[Boundary(Policy(less, h, s, d), less)] <= Grade[Boundary(Policy(c, h, s, d), c)]
<1>1. \A x \in Conditions : x \in less => x \in c
  OBVIOUS
<1>2. \A x, y \in {"allow", "review", "deny"} :
        (x = "deny" \/ x = y \/ y = "allow") => Grade[x] <= Grade[y]
  BY GradesAre
<1>3. \/ Core(less, t, "device" \in less) = "deny"
      \/ Core(less, t, "device" \in less) = Core(c, t, "device" \in c)
      \/ Core(c, t, "device" \in c) = "allow"
  BY DEF Core
<1>4. \/ ZeroTrust(less, t) = "deny" \/ ZeroTrust(less, t) = ZeroTrust(c, t)
      \/ ZeroTrust(c, t) = "allow"
  BY DEF ZeroTrust, PermissionDecision
<1>5. \/ Policy(less, h, s, d) = "deny" \/ Policy(less, h, s, d) = Policy(c, h, s, d)
      \/ Policy(c, h, s, d) = "allow"
  BY DEF Policy, Reviewed
<1>6. Policy(less, h, s, d) = "allow" => Policy(c, h, s, d) = "allow"
  BY DEF Policy, Reviewed
<1>7. Policy(c, h, s, d) = "deny" => Policy(less, h, s, d) = "deny"
  BY DEF Policy, Reviewed
<1> DEFINE p == Policy(less, h, s, d)
           q == Policy(c, h, s, d)
<1>8. p \in {"allow", "review", "deny"} /\ q \in {"allow", "review", "deny"}
  BY DecisionTypes
<1>9. p = "deny" \/ p = q \/ q = "allow"
  BY <1>5
<1>10. (p = "allow" => q = "allow") /\ (q = "deny" => p = "deny")
  BY <1>6, <1>7
<1> HIDE DEF p, q
<1>11. Boundary(p, less) = "deny" \/ Boundary(p, less) = Boundary(q, c) \/ Boundary(q, c) = "allow"
  BY <1>8, <1>9, <1>10 DEF Boundary
<1>12. Boundary(p, less) \in {"allow", "review", "deny"} /\ Boundary(q, c) \in {"allow", "review", "deny"}
  BY <1>8 DEF Boundary
<1>13. Grade[Boundary(p, less)] <= Grade[Boundary(q, c)] /\ Grade[p] <= Grade[q]
  BY <1>2, <1>8, <1>9, <1>11, <1>12
<1>14. /\ Core(less, t, "device" \in less) \in {"allow", "review", "deny"}
       /\ Core(c, t, "device" \in c) \in {"allow", "review", "deny"}
       /\ ZeroTrust(less, t) \in {"allow", "review", "deny"}
       /\ ZeroTrust(c, t) \in {"allow", "review", "deny"}
  BY DecisionTypes
<1> QED
  BY <1>2, <1>3, <1>4, <1>13, <1>14 DEF p, q

AccessInv == AccessTypeOK /\ audits \in Seq({"allow", "review", "deny"})

LEMMA AccessInitInv == AccessInit => AccessInv
  BY DEF AccessInit, AccessInv, AccessTypeOK

LEMMA AccessInvStep ==
  AccessInv /\ [AccessNext]_accessVars => AccessInv' /\ LosingNeverHelps
<1> SUFFICES ASSUME AccessInv, [AccessNext]_accessVars PROVE AccessInv' /\ LosingNeverHelps
  OBVIOUS
<1>1. conditions \subseteq Conditions /\ audits \in Seq({"allow", "review", "deny"})
  BY DEF AccessInv, AccessTypeOK
<1>2. conditions' \subseteq Conditions
  BY <1>1 DEF AccessNext, accessVars, Flip, ChangeHost, ChangeSeverity, ChangeData, Assess
<1>3. audits' \in Seq({"allow", "review", "deny"})
  <2>1. CASE Assess
    <3> DEFINE x == Decisions(conditions, hostState, incidentSeverity, dataState).core
    <3>1. x \in {"allow", "review", "deny"}
      BY DecisionsAre, DecisionTypes
    <3>2. audits' = Append(audits, x)
      BY <2>1 DEF Assess
    <3> QED
      BY <1>1, <3>1, <3>2
  <2>2. CASE ~Assess
    BY <1>1, <2>2 DEF AccessNext, accessVars, Flip, ChangeHost, ChangeSeverity, ChangeData
  <2> QED
    BY <2>1, <2>2
<1>4. \A k \in 1 .. Len(audits') : audits'[k] \in DOMAIN Grade
  BY <1>3, GradesAre
<1>5. AccessInv'
  BY <1>2, <1>3, <1>4 DEF AccessInv, AccessTypeOK
<1>6. LosingNeverHelps
  <2> SUFFICES ASSUME conditions' \subseteq conditions, hostState' = hostState,
                      incidentSeverity' = incidentSeverity, dataState' = dataState,
                      NEW engine \in {"core", "zeroTrust", "plane", "boundary"}
               PROVE  Grade[Now'[engine]] <= Grade[Now[engine]]
    BY DEF LosingNeverHelps
  <2>1. Now' = Decisions(conditions', hostState, incidentSeverity, dataState)
    BY DEF Now
  <2>2. Now = Decisions(conditions, hostState, incidentSeverity, dataState)
    BY DEF Now
  <2> DEFINE t == Threat(incidentSeverity)
  <2>3. /\ Now'.core = Core(conditions', t, "device" \in conditions')
        /\ Now'.zeroTrust = ZeroTrust(conditions', t)
        /\ Now'.plane = Policy(conditions', hostState, incidentSeverity, dataState)
        /\ Now'.boundary = Boundary(Policy(conditions', hostState, incidentSeverity, dataState), conditions')
    BY <2>1, DecisionsAre
  <2>4. /\ Now.core = Core(conditions, t, "device" \in conditions)
        /\ Now.zeroTrust = ZeroTrust(conditions, t)
        /\ Now.plane = Policy(conditions, hostState, incidentSeverity, dataState)
        /\ Now.boundary = Boundary(Policy(conditions, hostState, incidentSeverity, dataState), conditions)
    BY <2>2, DecisionsAre
  <2> HIDE DEF t
  <2>5. /\ Grade[Now'.core] <= Grade[Now.core] /\ Grade[Now'.zeroTrust] <= Grade[Now.zeroTrust]
        /\ Grade[Now'.plane] <= Grade[Now.plane] /\ Grade[Now'.boundary] <= Grade[Now.boundary]
    BY <2>3, <2>4, LosingIsMonotone
  <2> QED
    BY <2>5
<1> QED
  BY <1>5, <1>6


-----------------------------------------------------------------------------
(* The history.                                                              *)

\* A situation has signals; and of the tables that a clearing has not come to yet, what could be
\* left without what it rests on is loose.
HistoryInv ==
  /\ HistoryTypeOK /\ NothingDangles
  /\ \A s \in situationRows : s # {}
  /\ clearing # 0 => UNION situationRows \subseteq loose
  /\ clearing = 1 => signalRows \subseteq loose

LEMMA HistoryInitInv == HistoryInit => HistoryInv
  BY DEF HistoryInit, HistoryInv, HistoryTypeOK, NothingDangles

LEMMA HistoryInvStep == HistoryInv /\ [HistoryNext]_historyVars => HistoryInv'
<1> SUFFICES ASSUME HistoryInv, [HistoryNext]_historyVars PROVE HistoryInv'
  OBVIOUS
<1> USE DEF HistoryInv, HistoryTypeOK, NothingDangles
<1>1. ASSUME NEW batch \in SUBSET Reports, SaveEvents(batch) PROVE HistoryInv'
  BY <1>1 DEF SaveEvents
<1>2. ASSUME NEW batch \in SUBSET Reports, SaveSignals(batch) PROVE HistoryInv'
  BY <1>2 DEF SaveSignals, Loosened
<1>3. ASSUME NEW batch \in SUBSET Reports, SaveSituations(batch) PROVE HistoryInv'
  <2>1. PICK found : found = Correlate(batch)
    OBVIOUS
  <2>2. \A s \in found : s # {} /\ s \subseteq Reports
    BY <2>1 DEF Correlate, SameScope
  <2>3. /\ situationRows' = situationRows \cup found
        /\ loose' = loose \cup Loosened(UNION (found \ situationRows), signalRows)
        /\ UNCHANGED <<eventRows, signalRows, clearing>>
    BY <1>3, <2>1 DEF SaveSituations
  <2>4. Loosened(UNION (found \ situationRows), signalRows) \subseteq Reports
    BY <2>2 DEF Loosened
  <2>5. HistoryTypeOK' /\ \A s \in situationRows' : s # {}
    BY <2>2, <2>3, <2>4
  <2>6. CASE clearing = 0
    BY <2>3, <2>5, <2>6 DEF Loosened
  <2>7. CASE clearing # 0
    BY <2>3, <2>5, <2>7 DEF Loosened
  <2> QED
    BY <2>6, <2>7
<1>4. CASE ClearNext
  <2>1. CASE clearing = 0
    BY <1>4, <2>1 DEF ClearNext, SituationsFirst
  <2>2. CASE clearing = 2
    BY <1>4, <2>2 DEF ClearNext, SituationsFirst
  <2>3. CASE clearing = 1
    BY <1>4, <2>3 DEF ClearNext, SituationsFirst
  <2> QED
    BY <2>1, <2>2, <2>3
<1>5. CASE HistoryRestart
  BY <1>5 DEF HistoryRestart
<1>6. CASE UNCHANGED historyVars
  BY <1>6 DEF historyVars
<1> QED
  BY <1>1, <1>2, <1>3, <1>4, <1>5, <1>6 DEF HistoryNext

LEMMA CorrelationAlwaysPartitions == HistoryInv => CorrelationPartitions
<1> SUFFICES ASSUME HistoryInv PROVE CorrelationPartitions
  OBVIOUS
<1> DEFINE ids == signalRows
           found == Correlate(ids)
<1>1. UNION found = ids
  BY DEF Correlate, SameScope
<1>2. ASSUME NEW s \in found, NEW t \in found, s # t PROVE s \cap t = {}
  <2>1. PICK e \in ids : s = {f \in ids : SameScope(e, f)}
    BY DEF Correlate
  <2>2. PICK d \in ids : t = {f \in ids : SameScope(d, f)}
    BY DEF Correlate
  <2> SUFFICES ASSUME NEW g \in s, g \in t PROVE FALSE
    OBVIOUS
  <2>3. SameScope(e, g) /\ SameScope(d, g)
    BY <2>1, <2>2
  <2>4. \A f \in ids : SameScope(e, f) <=> SameScope(d, f)
    BY <2>3 DEF SameScope
  <2> QED
    BY <2>1, <2>2, <2>4, <1>2
<1>3. ASSUME NEW s \in found, NEW e \in s, NEW f \in s
      PROVE  SameUser(e, f) /\ (e # f => {e, f} \subseteq Workload)
  <2>1. PICK d \in ids : s = {g \in ids : SameScope(d, g)}
    BY DEF Correlate
  <2>2. SameScope(d, e) /\ SameScope(d, f)
    BY <2>1
  <2> QED
    BY <2>2 DEF SameScope, SameUser
<1>4. \A s \in situationRows : s \cap loose = {} => RelatedToSituation(s) = s
  BY DEF RelatedToSituation, HistoryInv, NothingDangles
<1> HIDE DEF found, ids
<1>5. /\ \A s, t \in found : s # t => s \cap t = {}
      /\ \A s \in found : \A e, f \in s : SameUser(e, f) /\ (e # f => {e, f} \subseteq Workload)
  BY <1>2, <1>3
<1> QED
  BY <1>1, <1>4, <1>5 DEF CorrelationPartitions, found, ids

LEMMA RangesAlwaysAgree == HistoryInv => RangesAgree
<1> SUFFICES ASSUME HistoryInv, NEW from \in 0 .. LastInstant, NEW to \in 0 .. LastInstant,
                    NEW e \in eventRows, NEW offset \in {0, Offset[e]}
             PROVE  (e \in BetweenByText(from, to, offset)) =
                      (e \in BetweenByTime(from + offset - Offset[e], to + offset - Offset[e]))
  BY DEF RangesAgree
<1>1. ReportedAt[e] \in Int /\ Offset[e] \in Int /\ offset \in Int /\ from \in Int /\ to \in Int
  BY HistoryAssumption DEF HistoryInv, HistoryTypeOK
<1>2. e \in BetweenByText(from, to, offset) <=>
        from + offset <= ReportedAt[e] + Offset[e] /\ ReportedAt[e] + Offset[e] <= to + offset
  BY DEF BetweenByText, TextOf
<1>3. e \in BetweenByTime(from + offset - Offset[e], to + offset - Offset[e]) <=>
        from + offset - Offset[e] <= ReportedAt[e] /\ ReportedAt[e] <= to + offset - Offset[e]
  BY DEF BetweenByTime
<1>4. (from + offset <= ReportedAt[e] + Offset[e] <=> from + offset - Offset[e] <= ReportedAt[e])
      /\ (ReportedAt[e] + Offset[e] <= to + offset <=> ReportedAt[e] <= to + offset - Offset[e])
  BY <1>1
<1> QED
  BY <1>2, <1>3, <1>4

LEMMA PatternsAlwaysConnect == HistoryInv => PatternsConnect
<1> SUFFICES ASSUME HistoryInv, NEW s \in situationRows, NEW t \in situationRows, s # t,
                    NEW unit \in UnitsOf[UserOf(s)], unit \in UnitsOf[UserOf(t)]
             PROVE  <<s, t>> \in ConnectedPairs
  BY DEF PatternsConnect
<1>1. s \in Sharing(unit) /\ t \in Sharing(unit)
  BY DEF Sharing
<1>2. unit \in Units
  <2>1. PICK e : e = CHOOSE d \in s : TRUE
    OBVIOUS
  <2>2. e \in s
    BY <2>1, Zenon DEF HistoryInv
  <2>3. e \in Reports
    BY <2>2 DEF HistoryInv, HistoryTypeOK
  <2>4. UserOf(s) \in DOMAIN UnitsOf
    BY <2>1, <2>3, HistoryAssumption DEF UserOf
  <2> QED
    BY <2>4 DEF Units
<1>3. ASSUME NEW v, Sharing(v) = Sharing(unit) PROVE Cardinality(Sharing(v)) >= 2
  <2>1. IsFiniteSet(Sharing(unit))
    <3>1. IsFiniteSet(SUBSET Reports)
      BY HistoryAssumption, FS_SUBSET
    <3>2. Sharing(unit) \subseteq SUBSET Reports
      BY DEF Sharing, HistoryInv, HistoryTypeOK
    <3> QED
      BY <3>1, <3>2, FS_Subset
  <2>2. IsFiniteSet({s, t}) /\ Cardinality({s, t}) = 2
    <3>1. IsFiniteSet({s}) /\ Cardinality({s}) = 1
      BY FS_Singleton
    <3>2. IsFiniteSet({s} \cup {t}) /\ Cardinality({s} \cup {t}) = Cardinality({s}) + 1
      BY <3>1, FS_AddElement
    <3>3. {s} \cup {t} = {s, t}
      OBVIOUS
    <3> QED
      BY <3>1, <3>2, <3>3
  <2>3. Cardinality({s, t}) <= Cardinality(Sharing(unit))
    BY <1>1, <2>1, FS_Subset
  <2>4. Cardinality(Sharing(unit)) \in Nat
    BY <2>1, FS_CardinalityType
  <2> QED
    BY <1>3, <2>2, <2>3, <2>4
<1>4. \E v \in Patterns : Sharing(v) = Sharing(unit)
  <2>1. CASE NotRedundant(unit)
    BY <1>2, <1>3, <2>1 DEF Patterns
  <2>2. CASE ~NotRedundant(unit)
    <3>1. PICK v \in Units : Specific(v) /\ Sharing(v) = Sharing(unit)
      BY <2>2 DEF NotRedundant
    <3>2. v \in Patterns
      BY <1>3, <3>1 DEF Patterns, NotRedundant
    <3> QED
      BY <3>1, <3>2
  <2> QED
    BY <2>1, <2>2
<1> QED
  BY <1>1, <1>4 DEF ConnectedPairs

LEMMA HistoryInvImplies ==
  HistoryInv =>
    /\ HistoryTypeOK /\ NothingDangles
    /\ CorrelationPartitions /\ RangesAgree /\ PatternsConnect
  BY CorrelationAlwaysPartitions, RangesAlwaysAgree, PatternsAlwaysConnect DEF HistoryInv


-----------------------------------------------------------------------------
(* The platform: every step is one of the part explored, the rest stands.    *)

platformVars ==
  <<part, subVars, licenseVars, integrationVars, mappingVars, historyVars, syncVars, nodeVars,
    planeVars, defenseVars, limiterVars, operationsVars, accessVars, provisioningVars,
    workforceVars, deviceVars, analysisVars>>

LEMMA PlatformParts ==
  [PlatformNext]_platformVars =>
    /\ [LicenseNext]_licenseVars /\ [IntegrationNext]_integrationVars
    /\ [MappingNext]_mappingVars /\ [ProvisioningNext]_provisioningVars
    /\ [HistoryNext]_historyVars
    /\ [SyncNext]_syncVars /\ [NodeNext]_nodeVars /\ [PlaneNext]_planeVars
    /\ [DefenseNext]_defenseVars /\ [LimiterNext]_limiterVars
    /\ [OperationsNext]_operationsVars /\ [AccessNext]_accessVars
    /\ [PredictionNext]_predictionVars /\ [BackgroundNext]_backgroundVars
    /\ [WorkforceNext]_workforceVars /\ [DeviceNext]_deviceVars
    /\ [GraphNext]_graphVars /\ [StructureNext]_structureVars /\ [FusionNext]_fusionVars
    /\ [ITNext]_itVars
<1> SUFFICES ASSUME [PlatformNext]_platformVars
             PROVE  /\ [LicenseNext]_licenseVars /\ [IntegrationNext]_integrationVars
                    /\ [MappingNext]_mappingVars /\ [ProvisioningNext]_provisioningVars
                    /\ [HistoryNext]_historyVars
                    /\ [SyncNext]_syncVars /\ [NodeNext]_nodeVars /\ [PlaneNext]_planeVars
                    /\ [DefenseNext]_defenseVars /\ [LimiterNext]_limiterVars
                    /\ [OperationsNext]_operationsVars /\ [AccessNext]_accessVars
                    /\ [PredictionNext]_predictionVars /\ [BackgroundNext]_backgroundVars
                    /\ [WorkforceNext]_workforceVars /\ [DeviceNext]_deviceVars
                    /\ [GraphNext]_graphVars /\ [StructureNext]_structureVars /\ [FusionNext]_fusionVars
                    /\ [ITNext]_itVars
  OBVIOUS
<1>1. CASE PlatformNext
  BY <1>1 DEF PlatformNext, AnalysisNext, analysisVars
<1>2. CASE UNCHANGED platformVars
  BY <1>2 DEF platformVars, analysisVars
<1> QED
  BY <1>1, <1>2

\* What every state of the platform satisfies, part by part.
PlatformInv ==
  /\ LicenseInv /\ IntegrationInv /\ MappingInv /\ ProvisioningInv /\ HistoryInv
  /\ SyncInv /\ NodeInv /\ PlaneInv
  /\ DefenseInv /\ LimiterInv /\ OperationsInv /\ AccessInv
  /\ PredictionInv /\ BackgroundInv /\ WorkforceInv /\ DeviceInv
  /\ GraphInv /\ StructureTypeOK /\ FusionInv /\ ITInv

LEMMA PlatformInvariant == PlatformSpec => []PlatformInv
<1>1. PlatformInit => PlatformInv
  BY LicenseInitInv, IntegrationInitInv, MappingInitInv, ProvisioningInitInv,
     HistoryInitInv, SyncInitInv,
     NodeInitInv, PlaneInitInv, DefenseInitInv, LimiterInitInv, OperationsInitInv, AccessInitInv,
     PredictionInitInv, BackgroundInitInv, WorkforceInitInv, DeviceInitInv,
     GraphInitInv, StructureInitInv, FusionInitInv, ITInitInv
  DEF PlatformInit, AnalysisInit, PlatformInv
<1>2. PlatformInv /\ [PlatformNext]_platformVars => PlatformInv'
  BY PlatformParts, LicenseInvStep, IntegrationInvStep, MappingInvStep, ProvisioningInvStep,
     HistoryInvStep, SyncInvStep, NodeInvStep, PlaneInvStep, DefenseInvStep, LimiterInvStep,
     OperationsInvStep, AccessInvStep, PredictionInvStep, BackgroundInvStep,
     WorkforceInvStep, DeviceInvStep, GraphInvStep, StructureInvStep, FusionInvStep, ITInvStep
  DEF PlatformInv
<1> QED
  BY <1>1, <1>2, PTL DEF PlatformSpec, platformVars

\* The file of a license, the row and the adapter of an integration, the table of identities and
\* the files of provisioning say what memory says, whatever fails and whenever the process stops.
THEOREM IntegrationsAreKept == PlatformSpec => []IntegrationsKept
<1>1. PlatformInv => IntegrationsKept
  BY LicenseInvImplies, MappingInvImplies
  DEF PlatformInv, IntegrationsKept, IntegrationInv, ProvisioningInv
<1> QED
  BY <1>1, PlatformInvariant, PTL

\* Whatever is saved in whatever order, a clearing that may be cut off anywhere leaves a signal
\* without its event and a situation without its signals only where they were saved so or while it
\* was under way; and what is derived from the tables (situations, ranges of time, patterns) says
\* what the definitions say, for any events, offsets and units.
THEOREM HistoryIsKept == PlatformSpec => []HistoryKept
<1>1. PlatformInv => HistoryKept
  BY HistoryInvImplies DEF PlatformInv, HistoryKept
<1> QED
  BY <1>1, PlatformInvariant, PTL

\* The queues of a node agree, no request that governance refused is ever approved, its status
\* tells what is on below it except after the two calls that hide it, and the chains of authority
\* are exactly those above.
THEOREM NodesAreGoverned == PlatformSpec => []NodesGoverned
<1>1. PlatformInv => NodesGoverned
  BY SyncInvImplies, NodeInvImplies, PlaneInvImplies DEF PlatformInv, NodesGoverned
<1> QED
  BY <1>1, PlatformInvariant, PTL

\* No order of signals slips past the threshold of the defence, no window of a limiter exceeds its
\* limit, what waits for a person was detected, and the four engines that decide about a request
\* agree: whatever the weights, the limits, the events and the conditions are.
THEOREM HostIsDefended == PlatformSpec => []HostDefended
<1>1. PlatformInv => HostDefended
  BY RestrictedDenies, EnginesAlwaysAgree
  DEF PlatformInv, HostDefended, DefenseInv, LimiterInv, OperationsInv, AccessInv
<1> QED
  BY <1>1, PlatformInvariant, PTL

\* Situations of one scope are answered alike, and neither a priority nor a confidence is high
\* without a recurrence; a context holds the latest of what it was ever given, however the
\* batches were cut, and is recommended on once, for events that were observed. Whatever the
\* history, the windows, the thresholds and the events are.
THEOREM PredictionsAreBacked == PlatformSpec => []PredictionsBacked
<1>1. PlatformInv => PredictionsBacked
  BY PredictionInvImplies, BackgroundInvImplies DEF PlatformInv, PredictionsBacked
<1> QED
  BY <1>1, PlatformInvariant, PTL

\* The sessions of an employee never overlap and have their check-in and check-out, in whatever
\* order the events were handed in; a department is alarming only with a member who is, and each
\* employee counts once; and each device seen is a candidate once, shown with its serial port if it
\* has one. Whatever the events, the employees, the pressures and the devices are.
THEOREM WorkforceIsMeasured == PlatformSpec => []WorkforceMeasured
<1>1. PlatformInv => WorkforceMeasured
  BY WorkforceInvImplies, DeviceInvImplies DEF PlatformInv, WorkforceMeasured
<1> QED
  BY <1>1, PlatformInvariant, PTL

\* What the organization graph drops of the entries listed is reported, and where nothing is
\* reported the paths agree with the entries; capacity raises exactly where the managers of a
\* member lead back to it, and the depth is that of the longest chain otherwise; the analyses of
\* spans, coverage and dependents agree, and a high risk is that of half of the members at most.
\* Whatever the entries, the members, their managers and the thresholds are.
THEOREM OrganizationIsUnderstood == PlatformSpec => []OrganizationUnderstood
<1>1. PlatformInv => OrganizationUnderstood
  BY EdgesJoinNodes, DroppedReported, PathsAgree, DepthAlwaysExact, AnalysesAlwaysAgree,
     HighAlwaysRare DEF PlatformInv, OrganizationUnderstood
<1> QED
  BY <1>1, PlatformInvariant, PTL

\* A decision is made of the contexts of its own scope, and a prediction never makes it less
\* urgent; no decision is ranked after a weaker one, whatever their number; every id is explained
\* once, from the evidence of its own decision, with a score that is never above that of the
\* decision. Whatever the signals, the history and the predictions are.
THEOREM DecisionsAreGrounded == PlatformSpec => []DecisionsGrounded
<1>1. PlatformInv => DecisionsGrounded
  BY FusionTyped, ScopesApart, NeverLowers, StrongerFirst, ExplainedRight
  DEF PlatformInv, DecisionsGrounded
<1> QED
  BY <1>1, PlatformInvariant, PTL

\* The cycles reported of a portfolio are simple closed paths, each told once, that leave out no
\* dependency inside a cycle; the impact of what is blocked reaches whoever depends on it, at any
\* distance, and nobody else; a shortfall of hours is a member's, and exactly one risk is on top,
\* as high as any. Where no critical attention is required none of them is missed: there is no
\* cycle, no critical risk, no shortfall and no failed change. Whatever the portfolios list.
THEOREM ITIsUnderstood == PlatformSpec => []ITUnderstood
<1>1. PlatformInv => ITUnderstood
  BY ITUnderstands DEF PlatformInv, ITUnderstood
<1> QED
  BY <1>1, PlatformInvariant, PTL

\* No step does harm, whatever part takes it: a stale file is not written back, an activation keeps
\* its day, a restored integration is frozen, an answer of a mapper is stable, attempts and human
\* decisions last, a node needs a token, blocks never shorten, severities never fall, a request
\* that loses a condition gains nothing, provisioning takes nothing back, an analysis raises for
\* situations of one instant and for nothing else, more situations never make a prediction less
\* sure, a closed session stands, and a port found is kept.
Harmless ==
  /\ StaleFileStays /\ ActivationKeepsItsDay /\ RestoredIsFrozen /\ AnswersAreStable
  /\ AttemptsAreKept /\ HumanDecisionLasts /\ NodesNeedAToken /\ BlockNeverShortens
  /\ SeverityNeverFalls /\ LosingNeverHelps /\ NothingIsTakenBack /\ OnlyInstantsFail
  /\ SurerWithMore /\ ClosedSessionsStand /\ PortsAreKept

LEMMA HarmlessStep == PlatformInv /\ [PlatformNext]_platformVars => Harmless
  BY PlatformParts, LicenseFileStep, ActivationDayStep, IntegrationStepFrozen, AnswersStep,
     AttemptsStep, DecisionStep, TokenStep, DefenseInvStep, OperationsInvStep, AccessInvStep,
     ProvisioningInvStep, OnlyInstantsStep, SurerStep, SessionsStep, PortsStep
  DEF PlatformInv, Harmless

\* The above, of every step of the platform.
THEOREM StepsDoNoHarm == PlatformSpec => [][Harmless]_platformVars
<1>1. PlatformInv /\ [PlatformNext]_platformVars => [Harmless]_platformVars
  BY HarmlessStep
<1> QED
  BY <1>1, PlatformInvariant, PTL DEF PlatformSpec, platformVars

\* The same as the runs state it: what each part promises of its steps is kept while it runs.
THEOREM PlatformStepsKept == PlatformSpec => PlatformSteps
<1>1. PlatformInv /\ [PlatformNext]_platformVars => [DoesNoHarm]_platformVars
  BY HarmlessStep DEF Harmless, DoesNoHarm
<1> QED
  BY <1>1, PlatformInvariant, PTL DEF PlatformSpec, PlatformSteps, platformVars
=============================================================================
