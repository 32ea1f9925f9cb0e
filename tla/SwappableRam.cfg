SPECIFICATION Spec
CONSTANTS
    Values = {zero, u, v}
    Zero = zero
    MaxSwaps = 3
INVARIANTS
    IInv
    Exclusive
    BlocksForOther
PROPERTIES
    SwapReturns
    ImplementsExchange
