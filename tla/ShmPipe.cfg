SPECIFICATION Spec
CONSTANTS
    a = a
    b = b
    zero = zero
    Values <- MCValues
    Zero = zero
    Lists <- MCLists
    Capacity = 2
    MaxRuns = 3
INVARIANTS
    IInv
    Delivered
    CleansUp
PROPERTY ReceiverReturns
CHECK_DEADLOCK FALSE
