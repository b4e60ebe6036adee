SPECIFICATION FairSpec
CONSTANTS
    UNSET = UNSET
    UNIT = 4
    U16 = 16
    U64 = 4096
    Base <- MCBase
    Texts <- MCTexts
    MaxEdits = 1
    MaxDev = 4
    MaxPools = 4
    DHCP_BUDGET = 2
    ARP_BUDGET = 2
INVARIANTS SizesAsWritten TargetAsWritten ImageFresh NicOnLivePools FailedProbeFreesAll WorkersCanFetch
PROPERTIES StartupEnds
