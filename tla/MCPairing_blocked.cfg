CONSTANTS
    Calls = {c1}
    Agents = {a, b}
    Invites = {i1, i2}
    Hosts = {h1}
    NoHost = NoHost
    NoKey = NoKey
    NoInvite = NoInvite
    NoDigest = NoDigest
    NoSession = NoSession
    NoCall = NoCall
SYMMETRY Symmetry
SPECIFICATION Spec
PROPERTIES BlockIsKept
