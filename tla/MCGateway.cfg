\* Three requests for one message id, with restarts and failing store calls; no
\* symmetry, since liveness is checked.
SPECIFICATION GateFairSpec
CONSTANTS
    Messages = {m1}
    NoMessageID = NoMessageID
    Requests = {k1, k2, k3}
    StoreFaults = TRUE
    Unwrapped = TRUE
INVARIANTS DedupInv ExecutedAtMostOnce ExecutedIsInInbox AnswersAgree
PROPERTIES RecordsAreFinal RequestsEnd
