SPECIFICATION FairSpec
CONSTANTS
    a1 = a1
    a2 = a2
    n1 = n1
    Mail <- Mails2
    Notice <- Notices0
    Admin <- Admins2
    BatchSize = 1
    MaxAttempts = 3
    MaxRetries = 2
    MaxFaults = 1
PROPERTY EveryEmailResolved
CHECK_DEADLOCK FALSE
