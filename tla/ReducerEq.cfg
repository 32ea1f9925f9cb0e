SPECIFICATION Spec
CONSTANTS
    Wires = 2
    Fresh <- MCFresh
    MaxKills = 2
INVARIANTS
    IInv
    EqualMeansEqual
    AgreementIsSeen
PROPERTY CheckCompletes
CHECK_DEADLOCK FALSE
