CONSTANTS
    Gprs <- MCGprs
    Xmms <- MCXmms
    R11 = "r11"
    XMM15 = "xmm15"
    Memory <- MCMemory
    Immediates = {"7"}
    MoveLists <- CallLists
    gpr_arg_regs <- MCGprArgs
    float_arg_regs <- MCFloatArgs
    outgoing <- MCOutgoing
    incoming <- MCIncoming
    CalleeSaved = {"rbx", "rsi", "xmm6", "xmm15"}
SPECIFICATION Spec
INVARIANT CalleeSavedKept
CHECK_DEADLOCK FALSE
