CONSTANTS
    r1 = r1  r2 = r2  r3 = r3
    None = None  Same = Same  Fresh = Fresh
    Req <- Reqs3
    MaxFailed = 2
    MaxWrong = 3
    MaxToken = 3
SPECIFICATION Spec
SYMMETRY Symmetry
INVARIANTS TypeOK StatusAgrees TokenColumnsAgree PasswordOrInvite InviteEndsWithPending LockNeedsFailures
PROPERTIES SecretsSpec
