\* Intact, damaged, aborted and unusual journals, in every mode, cut short by the power or an error.
SPECIFICATION FairSpec
CONSTANTS
    Homes = {"super", "a", "b"}
    Outside = "outside"
    Super = "super"
    Magic <- MagicBlock
    First = 1
    Last = 16
    TidMod = 34
    Checksums = TRUE
    AsyncCommit = FALSE
    BadCount = BadCount
    None = None
    Images <- MCImages
    Modes = {"check", "preen", "repair"}
    MaxChecks = 3
    MaxCrashes = 2
CHECK_DEADLOCK FALSE
INVARIANTS
    TypeOK
    NothingLost
    ReplayedExactly
    LogIsRetired
    PassesFollowScan
    DamageIsRemembered
    AbortIsRemembered
PROPERTY
    CheckReturns
