CONSTANTS
    v_points <- PcsPoints
    Batches <- SmallBatches
    Registers <- AllRegisters
    register <- Contents
    Stray = {0, 255}
SPECIFICATION Spec
CHECK_DEADLOCK FALSE
INVARIANT
    OwnRegister
