SPECIFICATION FairSpec
CONSTANTS
    shop = shop
    login = login
    admin = admin
    intern = intern
    NoUrl = NoUrl
    Urls <- MCUrls
    Hosts <- MCHosts
    HostOf <- MCHostOf
    Blocked = {"10.0.0.1"}
    Unreachable = {"intern.example"}
    PlainUrls = {login}
    ListedUrls = {login}
    Pages <- MCPages
    Requests <- MCRequests
    Claims <- MCClaims
    MaxRedirects = 2
    ObserveLimit = 2
INVARIANTS
    EvidenceWasSeen
    FailsBeforeItStarts
    EntitiesKept
PROPERTIES
    EvidenceIsFrozen
    InvestigationEnds
