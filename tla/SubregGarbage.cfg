SPECIFICATION FairSpec
CONSTANTS
    B = 1
    Radix = 2
    M = 16
    Reg <- MCReg
    Alu <- AluResult
    MulDiv <- MulDivHiLo
    Taken <- BranchTaken
    Load <- LoadResult
    Store <- StoreResult
    SysRet <- MCSysRet
    SysFails <- MCSysFails
    SysStores <- MCSysStores
    SysQuits <- MCSysQuits
    BootPC = 0
    InitGprs <- MCGprs
    InitFprs <- MCFprs
    InitHiLo = {7}
    InitMems <- MCMems
    InitLoadStall = {0}
    Programs <- AddPrograms
    SubregGarbage = {TRUE, FALSE}
    MayRun <- StageOrder
    MaxCycle = 30
PROPERTIES
    ImplementsISA
