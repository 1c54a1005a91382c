CONSTANTS
    r1 = r1  w1 = w1  w2 = w2  v1 = v1  v2 = v2
    None = None  Same = Same
    Entity <- AllEntities
    Reader <- Reader1
    Writer <- Writer2
    Value <- Values2
    RedisFails = TRUE
SPECIFICATION FairSpec
INVARIANTS TypeOK ArchiveColumnsAgree CoveredColumnsFresh
PROPERTIES StaleEntriesGo
