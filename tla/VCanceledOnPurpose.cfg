SPECIFICATION UMSpec
CONSTANTS
    DesiredStatuses = {A, B}
    NoStatus = NoStatus
INVARIANT CanceledOnPurpose
