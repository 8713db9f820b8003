SPECIFICATION Spec
CONSTANTS
    Requests = {r1, r2}
    Users = {u1}
    Agents = {g1}
    Admins = {a1}
    NoOne = NoOne
    MaxConversations = 1
    MaxMessages = 2
    MaxFaults = 1
SYMMETRY Symmetry
CHECK_DEADLOCK FALSE
INVARIANTS
    DecisionStands
    MessagesFromParties
    LastMessageShown
