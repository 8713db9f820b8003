SPECIFICATION FairStreamSpec
CONSTANTS
    Handlers = {h1, h2}
    References = {r1}
    jane = jane
    Jane = Jane
    joe = joe
    Emails <- MCEmails
    Fold <- MCFold
    Callers = {jane}
    NoReference = NoReference
    NoEmail = NoEmail
    MaxFaults = 1
INVARIANTS
    AckMeansSettled
    OverCreditBound
    ToldSuccessIsGranted
    ToldToOwner
PROPERTIES
    ImplementsPromise
    PaidIsSettled
    PaidStreamEnds
CONSTRAINT
    OthersPass
