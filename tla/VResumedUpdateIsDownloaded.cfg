SPECIFICATION Spec
CONSTANTS
    DesiredStatuses = {A, B}
    NoStatus = NoStatus
INVARIANT ResumedUpdateIsDownloaded
