CONSTANTS
    Calls = {c1, c2}
    Agents = {a, b}
    Invites = {i1, i2}
    Hosts = {h1}
    NoHost = NoHost
    NoKey = NoKey
    NoInvite = NoInvite
    NoDigest = NoDigest
    NoSession = NoSession
    NoCall = NoCall
SYMMETRY Symmetry
SPECIFICATION Spec
INVARIANTS TypeOK  ActiveByConsent  PinnedByPeer
PROPERTIES PinnedIdentityKept NoCallUndoesBlock
CONSTRAINT OverlapBound
