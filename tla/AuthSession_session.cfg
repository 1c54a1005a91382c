CONSTANTS
    r1 = r1  r2 = r2
    None = None
    Req <- Reqs2
    MaxVersion = 3
    MaxToken = 2
    RedisFails = TRUE
SPECIFICATION FairSpec
INVARIANTS TypeOK RefreshColumnsAgree CachedVersionFresh
PROPERTIES SecretSpec RevokedEventuallyRejected DeactivatedEventuallyRejected
