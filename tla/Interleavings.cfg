SPECIFICATION Spec
CONSTANTS
    B = 1
    Radix = 2
    M = 16
    Reg <- MCReg
    Alu <- AluResult
    MulDiv <- MulDivHiLo
    Taken <- BranchTaken
    Load <- LoadResult
    Store <- StoreResult
    SysRet <- MCSysRet
    SysFails <- MCSysFails
    SysStores <- MCSysStores
    SysQuits <- MCSysQuits
    BootPC = 0
    InitGprs <- MCGprs
    InitFprs <- MCFprs
    InitHiLo = {7}
    InitMems <- MCMems
    InitLoadStall = {0}
    Programs <- MixedPrograms
    SubregGarbage = {FALSE}
    MayRun <- AnyOrder
    MaxCycle = 30
INVARIANTS
    TypeOK
    NoPcRace
    OneSquash
    SyscallDrained
    LockMatchesFlight
    PipelineInv
