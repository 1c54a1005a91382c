CONSTANTS
    r1 = r1  r2 = r2
    None = None
    Req <- Reqs2
    MaxVersion = 2
    MaxToken = 3
    RedisFails = TRUE
SPECIFICATION ExchangeSpec
SYMMETRY Symmetry
PROPERTIES ConsumedOnce
