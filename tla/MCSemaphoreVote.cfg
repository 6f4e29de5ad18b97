CONSTANTS
    k1 = k1
    k2 = k2
    Voters <- ThreeVoters
    Issuer = k1
    Elections <- TwoElections
    Signals <- TwoSignals
    MaxProofs = 2
    MaxVotes = 3
SPECIFICATION Spec
INVARIANTS
    TypeOK
    VotesAreAsBound
    ThresholdCountsVoters
    NullifiersAreSeparate
\* Every bound may be reached.
CHECK_DEADLOCK FALSE
