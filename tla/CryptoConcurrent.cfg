SPECIFICATION FairSpec
CONSTANTS
    Handlers = {h1, h2}
    Payments = {p1}
    jane = jane
    Jane = Jane
    joe = joe
    Emails <- MCEmails
    Fold <- MCFold
    Signatures = {s1}
    NoPayment = NoPayment
    NoEmail = NoEmail
    NoSignature = NoSignature
    MaxFaults = 1
INVARIANTS
    CreditedIsGranted
    CreditBound
    StreamShowsOwn
PROPERTIES
    CreditedStays
    StartedIsSettled
    StreamEndsWithPayment
CONSTRAINT
    OneWatches
