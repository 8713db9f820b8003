SPECIFICATION FairSpec
CONSTANTS
    domain = domain
    Targets = {domain}
    KindOf <- MCKindOf
    Listing <- MCListing
    Providers <- MCProviders
    Opinions = {"harmless", "suspicious", "widespread"}
    Checks = {c1, c2}
    TTL = 2
    Timeout = 1
    SweepEvery = 2
    None = None
INVARIANTS
    WorstReportWins
    AnswersAreRecent
PROPERTIES
    ImplementsTimedStore
    ChecksReturn
    ExpiredIsDropped
