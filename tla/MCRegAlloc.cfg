CONSTANTS
    NoVreg <- MCNoVreg
    NoReg = "no register"
    RegClasses = {"gpr", "fpr"}
    Regs = {"r8", "rbx", "xmm0"}
    CalleeSaved = {"rbx"}
    Vregs <- MCVregs
    allocatable <- MCAllocatable
    IrFunctions <- SmallFunctions
    BlockCount = 3
    InstCount = 1
    ParamCount = 0
    LastVreg = 3
    LastPosition = 4
    CallPosition = 2
    FloatChoices = {{}, {1, 2}}
SPECIFICATION SmallSpec
INVARIANTS LivenessExact ValuesSurvive EquationsHold NoSharedRegister RegisterFits SpillSlotsApart
PROPERTY Allocates
CHECK_DEADLOCK FALSE
