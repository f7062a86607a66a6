\* The Codex adapter: a later retry can finish what an agent error interrupted.
SPECIFICATION GateSpec
CONSTANTS
    Messages = {m1}
    NoMessageID = NoMessageID
    Requests = {k1, k2}
    StoreFaults = FALSE
    Unwrapped = TRUE
PROPERTIES AgentErrorIsRetried
