SPECIFICATION Spec
CONSTANTS
    Radix = 4
    Operands2 <- Words
    Operands3 = {27, 228}
    Offsets = {0, 1, 2, 3}
INVARIANTS
    ProductsExact
    DivExact
    UnalignedExact
    PartialRoundTrip
