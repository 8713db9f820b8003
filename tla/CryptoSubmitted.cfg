SPECIFICATION HelpedSpec
CONSTANTS
    Handlers = {h1}
    Payments = {p1}
    jane = jane
    Jane = Jane
    joe = joe
    Emails = {jane}
    Fold <- MCFold
    Signatures = {s1}
    NoPayment = NoPayment
    NoEmail = NoEmail
    NoSignature = NoSignature
    MaxFaults = 0
PROPERTIES
    SubmittedIsSettled
