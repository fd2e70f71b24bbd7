------------------------ MODULE IntegrationLifecycle ------------------------
(***************************************************************************)
(* One integration, its adapter and its row: IntegrationRuntimeManager     *)
(* (yoma/office/integration/runtime.py) over Integration (model.py), the   *)
(* table yoma_integrations (persistence.py) and the connection calls of    *)
(* AdapterRuntimeManager (adapters/runtime.py).  Every call of the adapter *)
(* and every save may raise; the process may end and start again.          *)
(***************************************************************************)
EXTENDS Naturals

CONSTANTS
  Settings,      \* configurations
  Unset,         \* no configuration yet
  NoIntegration, \* nothing in the registry, or in the table
  MaxTroubles    \* bound: exceptions and refused health checks

ASSUME IntegrationAssumption == MaxTroubles \in Nat

VARIABLES
  integration, \* IntegrationRegistry._integrations
  owned,       \* IntegrationRuntimeManager._adapters has the adapter
  adapter,     \* AdapterRegistry._adapters: registered, configuration, connected
  row,         \* yoma_integrations
  restored,    \* restore() has run in this process
  troubles,    \* exceptions and refused health checks so far
  unsaved      \* history: the last change of the integration was not saved

integrationVars == <<integration, owned, adapter, row, restored, troubles, unsaved>>

Configuration == Settings \cup {Unset}
Health == {"unconfigured", "configured", "connected", "disconnected", "unhealthy",
           "failed", "error", "disabled"}
Integration == [enabled : BOOLEAN, config : Configuration, connected : BOOLEAN, health : Health]
Row == [enabled : BOOLEAN, config : Configuration, status : Health]
Adapter == [registered : BOOLEAN, config : Configuration, connected : BOOLEAN]

Fresh == [enabled |-> TRUE, config |-> Unset, connected |-> FALSE, health |-> "unconfigured"]
FreshAdapter == [registered |-> FALSE, config |-> Unset, connected |-> FALSE]
ASSUME NoRecord ==
  NoIntegration \notin Integration /\ NoIntegration \notin Row /\ Unset \notin Settings

RowOf(i) == [enabled |-> i.enabled, config |-> i.config, status |-> i.health]

IntegrationInit ==
  /\ integration = NoIntegration /\ owned = FALSE /\ adapter = FreshAdapter
  /\ row = NoIntegration /\ restored = FALSE /\ troubles = 0 /\ unsaved = FALSE

Registered == integration # NoIntegration
May(trouble) == trouble => troubles < MaxTroubles
Note(trouble) == troubles' = troubles + (IF trouble THEN 1 ELSE 0)

\* _persist(): one upsert, which may raise and then leaves the row.
PersistRow(i, raised) ==
  IF raised THEN row' = row /\ unsaved' = TRUE ELSE row' = RowOf(i) /\ unsaved' = FALSE

SetConnected(i, connected, health) == [i EXCEPT !.connected = connected, !.health = health]

\* register(): the registry of adapters may already have the name, directly registered.
Register == \E raised \in BOOLEAN :
  /\ ~Registered /\ May(raised \/ adapter.registered)
  /\ integration' = Fresh
  /\ IF adapter.registered
     THEN UNCHANGED <<owned, adapter, row>> /\ unsaved' = TRUE
     ELSE /\ owned' = TRUE /\ adapter' = [adapter EXCEPT !.registered = TRUE]
          /\ PersistRow(Fresh, raised)
  /\ Note(raised \/ adapter.registered)
  /\ UNCHANGED restored

\* AdapterRuntimeManager.register(), which an integration that was restored needs.
RegisterAdapter ==
  /\ ~adapter.registered
  /\ adapter' = [adapter EXCEPT !.registered = TRUE]
  /\ UNCHANGED <<integration, owned, row, restored, troubles, unsaved>>

\* configure(): KeyError when the adapter was not registered with the integration.
Configured(i, c) ==
  [i EXCEPT !.config = c, !.health = IF i.connected THEN i.health ELSE "configured"]
Configure == \E c \in Settings, refused, raised \in BOOLEAN :
  /\ Registered /\ owned /\ May(refused \/ raised) /\ ~(refused /\ raised)
  /\ integration' = Configured(integration, c)
  /\ adapter' = IF refused THEN adapter ELSE [adapter EXCEPT !.config = c]
  /\ PersistRow(integration', refused \/ raised) /\ Note(refused \/ raised)
  /\ UNCHANGED <<owned, restored>>

Enable == \E raised \in BOOLEAN :
  /\ Registered /\ May(raised)
  /\ integration' = [integration EXCEPT !.enabled = TRUE]
  /\ PersistRow(integration', raised) /\ Note(raised)
  /\ UNCHANGED <<owned, adapter, restored>>

\* disable(): a disconnect that raises leaves the integration enabled and unsaved.
Disabled(i) == [i EXCEPT !.enabled = FALSE, !.connected = FALSE, !.health = "disabled"]
AdapterLeft(a, i) == a
AdapterDisabled(a, i) == IF i.connected THEN [a EXCEPT !.connected = FALSE] ELSE a
Disable == \E refused, raised \in BOOLEAN :
  /\ Registered /\ May(refused \/ raised) /\ ~(refused /\ raised)
  /\ refused => integration.connected
  /\ IF refused
     THEN /\ integration' = SetConnected(integration, FALSE, "disconnected")
          /\ UNCHANGED adapter
     ELSE /\ integration' = Disabled(integration)
          /\ adapter' = AdapterDisabled(adapter, integration)
  /\ PersistRow(integration', refused \/ raised) /\ Note(refused \/ raised)
  /\ UNCHANGED <<owned, restored>>

\* connect(): AdapterRuntimeManager answers connected, unhealthy or failed; after a
\* failure the adapter may be connected or not, with its old configuration or the new one.
AnyIntegration(i) == TRUE
MayConnect(i) == i.enabled /\ i.config # Unset

Connect == \E answer \in {"connected", "unhealthy", "failed"}, raised, on \in BOOLEAN :
  /\ Registered /\ MayConnect(integration) /\ adapter.registered
  /\ May(raised \/ answer # "connected")
  /\ answer = "connected" => on
  /\ integration' = SetConnected(integration, answer = "connected", answer)
  /\ \E c \in {adapter.config, integration.config} :
       /\ answer # "failed" => c = integration.config
       /\ adapter' = [adapter EXCEPT !.config = c, !.connected = on]
  /\ PersistRow(integration', raised) /\ Note(raised \/ answer # "connected")
  /\ UNCHANGED <<owned, restored>>

\* disconnect(): in its finally the integration is disconnected and saved.
Disconnect == \E refused, raised \in BOOLEAN :
  /\ Registered /\ May(refused \/ raised)
  /\ LET fails == refused \/ ~adapter.registered IN
     /\ adapter' = IF fails THEN adapter ELSE [adapter EXCEPT !.connected = FALSE]
     /\ May(fails)
     /\ integration' = SetConnected(integration, FALSE, "disconnected")
     /\ PersistRow(integration', raised) /\ Note(fails \/ raised)
  /\ UNCHANGED <<owned, restored>>

\* health(): the answer of the adapter, or "error", which disconnects the integration only. The
\* adapter may refuse, or its answer may not be saved (refused either way): the error is saved.
CheckHealth == \E refused, raised \in BOOLEAN :
  /\ Registered
  /\ LET fails == refused \/ ~adapter.registered IN
     /\ May(fails) /\ (raised => fails)
     /\ integration' =
          IF fails THEN SetConnected(integration, FALSE, "error")
          ELSE SetConnected(integration, integration.connected,
                            IF adapter.connected THEN "connected" ELSE "disconnected")
     /\ PersistRow(integration', raised) /\ Note(fails)
  /\ UNCHANGED <<owned, adapter, restored>>

\* collect(): a failed attempt reconnects the adapter, which may leave it disconnected.
CollectIntegration == \E on \in BOOLEAN :
  /\ Registered /\ integration.enabled /\ integration.connected /\ May(TRUE)
  /\ adapter' = [adapter EXCEPT !.connected = on] /\ Note(TRUE)
  /\ UNCHANGED <<integration, owned, row, restored, unsaved>>

\* unregister(): a disconnect that raises is ignored; deleting the row may raise.
Unregister == \E refused, raised \in BOOLEAN :
  /\ Registered /\ May(refused \/ raised)
  /\ integration' = NoIntegration /\ owned' = FALSE /\ adapter' = FreshAdapter
  /\ row' = IF raised THEN row ELSE NoIntegration
  /\ unsaved' = raised /\ Note(refused \/ raised)
  /\ UNCHANGED restored

\* restore(), once per process (YomaEmbeddedRuntime.restore_integrations): disconnected.
FromRow(r) == [enabled |-> r.enabled, config |-> r.config,
               connected |-> FALSE, health |-> "disconnected"]
Restore ==
  /\ ~restored /\ restored' = TRUE
  /\ IF Registered \/ row = NoIntegration
     THEN UNCHANGED <<integration, unsaved>>
     ELSE integration' = FromRow(row) /\ unsaved' = FALSE
  /\ UNCHANGED <<owned, adapter, row, troubles>>

ProcessEnds ==
  /\ integration' = NoIntegration /\ owned' = FALSE /\ adapter' = FreshAdapter
  /\ restored' = FALSE /\ unsaved' = FALSE /\ UNCHANGED <<row, troubles>>

IntegrationNext ==
  \/ Register \/ RegisterAdapter \/ Configure \/ Enable \/ Disable \/ Connect
  \/ Disconnect \/ CheckHealth \/ CollectIntegration \/ Unregister \/ Restore \/ ProcessEnds

IntegrationSpec == IntegrationInit /\ [][IntegrationNext]_integrationVars

-----------------------------------------------------------------------------

IntegrationTypeOK ==
  /\ integration = NoIntegration \/ integration \in Integration
  /\ row = NoIntegration \/ row \in Row
  /\ adapter \in Adapter /\ owned \in BOOLEAN /\ restored \in BOOLEAN
  /\ troubles \in 0..MaxTroubles /\ unsaved \in BOOLEAN

\* Unless the last change ended in an exception, a restart finds the integration as it is:
\* enabled and configured, with the last health it had when it was registered here.
RowIsCurrent ==
  (Registered /\ ~unsaved) =>
    /\ row # NoIntegration
    /\ row.enabled = integration.enabled /\ row.config = integration.config
    /\ owned => row.status = integration.health

\* While nothing raised or was refused, an adapter is connected exactly when its integration
\* says so, and it has the configuration of the integration unless it came after a restart.
QuietIsConsistent == troubles = 0 =>
  /\ adapter.connected = (Registered /\ integration.connected)
  /\ Registered /\ owned => adapter.registered /\ adapter.config = integration.config
  /\ restored /\ ~Registered => row = NoIntegration

\* A disabled or unconfigured integration is never connected, whatever failed before.
ConnectedIsEnabled ==
  (Registered /\ integration.connected) => MayConnect(integration) /\ adapter.registered

\* A restart connects nothing, and the configuration of a restored integration cannot be
\* changed: it has no adapter of its own until it is unregistered, and with it the row.
RestoredIsFrozen ==
  [/\ Registered /\ ~owned /\ integration' # NoIntegration =>
        integration'.config = integration.config
   /\ ~Registered /\ integration' # NoIntegration => ~integration'.connected
   /\ Registered /\ integration' = NoIntegration /\ row' # NoIntegration =>
        unsaved' \/ ~restored']_integrationVars
=============================================================================
