SPECIFICATION CapSpec
CONSTANTS
    Callers = {c1, c2, c3}
    Nonces = {n1, n2}
    MaxKeys = 3
    NoRow = NoRow
    NoNonce = NoNonce
SYMMETRY Symmetry
INVARIANTS ChallengeUsedOnce IdentityIsRegistered AgentReusable CapInv
PROPERTIES CurrentKeyOnly
