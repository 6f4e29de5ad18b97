CONSTANTS
    MAX_BBS_MESSAGES = 2
    k1 = k1
    k2 = k2
    young = young
    old = old
    Credentials <- TwoVoters
    Keys = {k1, k2}
    Secrets = {1, 2}
    Chains <- TwoChains
    IssuerOf <- OneIssuer
    Elections <- TwoElections
    Signals <- TwoSignals
    MaxProofs = 2
SPECIFICATION Spec
INVARIANTS
    OneBallotPerSecret
    RecordedAsCast
    HonestBallotsCount
PROPERTIES
    ImplementsBallotBox
\* Every ballot may be proved and spent.
CHECK_DEADLOCK FALSE
