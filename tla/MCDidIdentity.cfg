CONSTANTS
    Entropies = {1, 2, 3}
    Checksum <- BitChecksum
    Spellings <- ThreeSpellings
    Nfkd <- Normal
    Messages = {m1, m2}
    MaxKeys = 1
    MaxDids = 2
    None = None
SPECIFICATION DidSpec
INVARIANTS
    DidsIdentifyPoints
    RecoveryRestoresIdentity
    SignaturesAreFirm
