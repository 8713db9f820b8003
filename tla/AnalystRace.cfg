SPECIFICATION FairSpec
CONSTANTS
    Models = {m1, m2, m3}
    NoVerdict = NoVerdict
INVARIANTS
    NoSendAfterClose
PROPERTIES
    ImplementsFirstAnswer
    AssessReturns
    NoGoroutineLeaks
