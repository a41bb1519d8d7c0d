SPECIFICATION UMFairSpec
CONSTANTS
    DesiredStatuses = {A, B, C}
    NoStatus = NoStatus
INVARIANTS
    TypeOK
    OnlyDownloadedProceeds
    NewStatusCancels
    StorageFollowsState
    AcceptedIsDurable
    StopReachesDownload
PROPERTIES
    CanceledUpdateStops
    UMStopTerminates
    UMPendingIsPickedUp
