SPECIFICATION Spec
CONSTANTS
    Handlers = {h1, h2}
    References = {r1}
    Emails = {e1}
    Fold <- MCFold
    NoReference = NoReference
    NoEmail = NoEmail
    MaxFaults = 0
INVARIANTS
    CreditedAtMostOnce
