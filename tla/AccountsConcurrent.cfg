SPECIFICATION Spec
CONSTANTS
    Requests = {r1, r2}
    Emails = {admin, e1}
    AdminEmail = admin
    NoEmail = NoEmail
    Wallets = {w1}
    NoWallet = NoWallet
    MaxDocuments = 3
    MaxCodes = 2
SYMMETRY Symmetry
ACTION_CONSTRAINT SecondCodeOrSessions
INVARIANTS
    DuplicatesRaced
    UsedCodesAreGone
    OwnerProved
    SharedWalletsRaced
