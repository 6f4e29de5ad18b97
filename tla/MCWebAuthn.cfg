CONSTANTS
    Challenges = {1, 2}
    Origins <- ThreeOrigins
    RpIds = {"site", "elsewhere"}
    RpOf <- SiteOf
    Keys <- TwoKeys
    KeyRp <- KeySite
    Home = "login"
    HomeRp = "site"
    MaxCeremonies = 1
SPECIFICATION Spec
INVARIANTS
    LoginsAreGenuine
    NoReplay
    OneSignatureValue
    HonestLoginsSucceed
\* Every challenge may be spent.
CHECK_DEADLOCK FALSE
