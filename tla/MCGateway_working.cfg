\* The comment on the 202 answer in router.go.
SPECIFICATION GateSpec
CONSTANTS
    Messages = {m1}
    NoMessageID = NoMessageID
    Requests = {k1, k2}
    StoreFaults = FALSE
    Unwrapped = TRUE
PROPERTIES WorkingIsInProgress
