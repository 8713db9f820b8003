SPECIFICATION RateSpec
CONSTANTS
    c1 = c1
    c2 = c2
    Callers = {c1, c2}
    Quotes = {0, 1500, 1600}
    RateTTL = 3
    ClientTimeout = 2
    NoRate = NoRate
INVARIANTS
    QuotesAreRecent
PROPERTY
    RateImplementsStore
