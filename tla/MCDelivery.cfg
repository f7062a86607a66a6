\* One message and three attempts to deliver it, by the REST transport, whose bodies
\* wrap the task.
SPECIFICATION Spec
CONSTANTS
    Messages = {m1}
    NoMessage = NoMessage
    NoMessageID = NoMessageID
    Requests = {k1, k2, k3}
    NoRequest = NoRequest
    BatchSize = 1
    StoreFaults = FALSE
    Unwrapped = FALSE
    AcceptsWorking = FALSE
SYMMETRY Symmetry
INVARIANTS ReceiptNamesOwner DeliveryInv DeliveredIsHandedOnce
PROPERTIES KeepsPromise SettledIsNotSentAgain
CONSTRAINT DisturbanceBound
