SPECIFICATION Spec
CONSTANTS
    a1 = a1
    a2 = a2
    n1 = n1
    Mail <- Mails2
    Notice <- Notices1
    Admin <- Admins2
    BatchSize = 2
    MaxAttempts = 3
    MaxRetries = 2
    MaxFaults = 1
SYMMETRY Symmetry
INVARIANTS TypeOK WorkerInv NoneStranded
PROPERTY DeliverySpec
CHECK_DEADLOCK FALSE
