SPECIFICATION FairStartupSpec
CONSTANTS
    Versions = {1, 2}
    Statements = 2
    MaxFaults = 3
INVARIANTS
    StartupTypeOK
    VersionMeansApplied
    SchemaBeforeService
    ServingIsReachable
    NoOrphanWebhook
    PollingIsAlone
PROPERTIES
    BootRecovers
    StopEndsProcess
