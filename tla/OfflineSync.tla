----------------------------- MODULE OfflineSync -----------------------------
(***************************************************************************)
(* The outbound synchronization of a distributed node, which sends nothing *)
(* itself: the queue of CloudSyncManager (yoma/office/cloud_sync.py), the  *)
(* buffer of OfflineConnectivityManager (offline_connectivity.py) over it, *)
(* and the DistributedEventCollector (distributed_event_collection.py)     *)
(* that shares the queue.  Both keep a record under the hash of the node   *)
(* and the event's id, so one key names a record in either.                *)
(***************************************************************************)
EXTENDS Integers, FiniteSets, Functions

CONSTANTS
  Events,      \* numbers: the order of occurrence, then of event id
  Foreign,     \* events of another organization
  Malformed,   \* events CloudSyncPayload refuses: a blank type, for one
  MaxAttempts, \* bound: attempts of a record
  MaxSequence  \* bound: envelopes made

ASSUME SyncAssumption ==
  /\ Events \subseteq Nat /\ IsFiniteSet(Events)
  /\ Foreign \subseteq Events /\ Malformed \subseteq Events
  /\ MaxAttempts \in Nat /\ MaxSequence \in Nat

VARIABLES
  connectivity, \* OfflineConnectivityManager._state
  queue,        \* CloudSyncQueue._records: event |-> record
  buffer,       \* OfflineConnectivityManager._local_records
  seen,         \* DistributedEventCollector._seen_event_ids
  envelopes,    \* DistributedEventCollector._sequence
  acknowledged, \* history: events the cloud acknowledged at some time
  reported      \* history: events whose envelope a caller received

syncVars == <<connectivity, queue, buffer, seen, envelopes, acknowledged, reported>>

SyncState == {"pending", "synced", "failed"}
SyncRecord == [state : SyncState, attempts : Nat, error : BOOLEAN]

NewRecord == [state |-> "pending", attempts |-> 0, error |-> FALSE]

\* enqueue() and queue() keep what is there: the first record of a key stays.
Kept(records, keys, record) ==
  [e \in DOMAIN records \cup keys |-> IF e \in DOMAIN records THEN records[e] ELSE record]
NoRecords == [e \in {} |-> NewRecord]

SyncInit ==
  /\ connectivity = "unknown" /\ queue = NoRecords /\ buffer = NoRecords
  /\ seen = {} /\ envelopes = 0 /\ acknowledged = {} /\ reported = {}

PendingOf(records) == {e \in DOMAIN records : records[e].state = "pending"}
\* CloudSyncManager.prepare(): the caller gets the record the queue holds.
Enqueue(e) == queue' = Kept(queue, {e}, NewRecord)

SetConnectivity == \E s \in {"online", "offline", "unknown"} :
  connectivity' = s /\ UNCHANGED <<queue, buffer, seen, envelopes, acknowledged, reported>>

\* prepare_cloud_sync(): a record the queue had already enters the buffer as it is.
PrepareCloudSync(e) ==
  /\ e \notin Malformed
  /\ Enqueue(e) /\ buffer' = Kept(buffer, {e}, queue'[e])
  /\ UNCHANGED <<connectivity, seen, envelopes, acknowledged, reported>>

\* mark_synced(), mark_failed(): whatever the state was.  An unknown key raises KeyError.
Marked(records, e, state) ==
  [x \in DOMAIN records |->
     IF x # e THEN records[x]
     ELSE [state |-> state, attempts |-> records[e].attempts + 1, error |-> state = "failed"]]

\* acknowledge_cloud_sync(): the queue first; of a record the buffer does not hold
\* the KeyError comes when the queue has changed.
AcknowledgeCloudSync(e) ==
  /\ e \in DOMAIN queue /\ queue[e].attempts < MaxAttempts
  /\ queue' = Marked(queue, e, "synced")
  /\ buffer' = Marked(buffer, e, "synced")
  /\ acknowledged' = acknowledged \cup {e}
  /\ UNCHANGED <<connectivity, seen, envelopes, reported>>

FailCloudSync(e) ==
  /\ e \in DOMAIN queue /\ queue[e].attempts < MaxAttempts
  /\ queue' = Marked(queue, e, "failed")
  /\ buffer' = Marked(buffer, e, "failed")
  /\ UNCHANGED <<connectivity, seen, envelopes, acknowledged, reported>>

\* clear_failed(): the failed records of the buffer are pending again, with their attempts.
ClearedAnew(record) == NewRecord
Cleared(record) == [record EXCEPT !.state = "pending", !.error = FALSE]

Clearable(record) == record.state = "failed"

ClearFailed ==
  /\ buffer' = [e \in DOMAIN buffer |->
       IF Clearable(buffer[e]) THEN Cleared(buffer[e]) ELSE buffer[e]]
  /\ UNCHANGED <<connectivity, queue, seen, envelopes, acknowledged, reported>>

\* prepare_reconnect_sync(): what it shows, and how many of it count as attempted.
Exposed == PendingOf(buffer)
Attempted == IF connectivity = "online" THEN Exposed ELSE {}

\* collect(): foreign events are rejected, the others taken in order.  A malformed one
\* raises after it was counted as seen: what came before is queued, no result returns.
Accepted(batch) == {e \in batch \ (Foreign \cup seen) :
                      \A m \in (batch \cap Malformed) \ (Foreign \cup seen) : e <= m}
QueuedOf(taken) == taken \ Malformed

Collect(batch) ==
  LET taken == Accepted(batch) IN
  /\ envelopes + Cardinality(taken) <= MaxSequence
  /\ seen' = seen \cup taken /\ envelopes' = envelopes + Cardinality(taken)
  /\ queue' = Kept(queue, QueuedOf(taken), NewRecord)
  /\ reported' = IF taken \cap Malformed = {} THEN reported \cup taken ELSE reported
  /\ UNCHANGED <<connectivity, buffer, acknowledged>>

ResetSeen ==
  seen' = {} /\ UNCHANGED <<connectivity, queue, buffer, envelopes, acknowledged, reported>>

SyncNext ==
  \/ SetConnectivity \/ ClearFailed \/ ResetSeen
  \/ \E e \in Events : PrepareCloudSync(e) \/ AcknowledgeCloudSync(e) \/ FailCloudSync(e)
  \/ \E batch \in SUBSET Events : Collect(batch)

SyncSpec == SyncInit /\ [][SyncNext]_syncVars

-----------------------------------------------------------------------------

RecordsOf(records) == DOMAIN records \subseteq Events /\ Range(records) \subseteq SyncRecord
SyncTypeOK ==
  /\ connectivity \in {"online", "offline", "unknown"}
  /\ RecordsOf(queue) /\ RecordsOf(buffer)
  /\ seen \subseteq Events /\ envelopes \in Nat /\ acknowledged \subseteq Events
  /\ reported \subseteq Events

\* The buffer mirrors the queue through failed mirrors, repeated preparations, answers in
\* any order and collections of the same event: a record of the buffer is in the queue with
\* as many attempts and in the same state, unless clear_failed() made it pending.
BufferMirrorsQueue == \A e \in DOMAIN buffer :
  /\ e \in DOMAIN queue /\ buffer[e].attempts = queue[e].attempts
  /\ buffer[e] # queue[e] => buffer[e].state = "pending" /\ queue[e].state = "failed"

\* Work the queue calls synced was acknowledged and is not shown for sending again; a
\* record that still waits in the queue and was buffered is shown.
ExposedIsOpen ==
  /\ \A e \in DOMAIN queue : queue[e].state = "synced" => e \in acknowledged /\ e \notin Exposed
  /\ PendingOf(queue) \cap DOMAIN buffer \subseteq Exposed

\* An envelope a caller received has a record to synchronize, also when events are collected
\* again after reset_seen_events() or prepared by the other way in; of a batch that raised
\* only the malformed event is seen and has none.
CollectedIsQueued ==
  /\ reported \cup (seen \ Malformed) \subseteq DOMAIN queue
  /\ Foreign \cap seen = {} /\ DOMAIN queue \cap Malformed = {}
  /\ Cardinality(seen) <= envelopes

\* Neither structure forgets a record or an attempt, whatever is prepared or collected again.
AttemptsAreKept ==
  [\A r \in {<<queue, queue'>>, <<buffer, buffer'>>} : \A e \in DOMAIN r[1] :
     e \in DOMAIN r[2] /\ r[2][e].attempts >= r[1][e].attempts
     /\ (r[2][e].state # r[1][e].state => r[2][e].attempts > r[1][e].attempts
                                         \/ r[1][e].state = "failed")]_syncVars
=============================================================================
