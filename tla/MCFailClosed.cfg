CONSTANTS
    MAX_BBS_MESSAGES = 2
    Keys = {k1, k2}
    Claims = {a, b}
    Nonces = {n1, n2}
    Headers = {h0, h1}
    NoHeader = h0
    MaxClaims = 3
    MaxListed = 2
    None = None
SPECIFICATION Spec
INVARIANT VerifiersFailClosed
