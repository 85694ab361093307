SPECIFICATION Spec
CONSTANTS
    Radix = 4
    Operands2 <- Words
    Operands3 = {0}
    Offsets = {0}
INVARIANTS
    MultBottomBits
