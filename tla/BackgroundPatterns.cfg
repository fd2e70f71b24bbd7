SPECIFICATION BackgroundSpec
CONSTANTS
    PresentedEvents <- FewEvents
    MaxBatch = 3
    LastCycle = 1
    WatchedTypes = {"service.outage", "incident.created", "file.changed"}
    WatchedSources = {"ops"}
    MaxObservations = 3
    RepetitionThreshold = 3
    EscalationThreshold = 2
    CriticalThreshold = 2
    HighThreshold = 3
    UrgentThreshold = 3
INVARIANT RepetitionIsRecognized
