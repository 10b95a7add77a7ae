SPECIFICATION Spec
CONSTANTS
    InstanceTypes <- MCInstanceTypes
    AttachedSets <- MCAttachedSets
    LeftoverSets <- MCLeftoverSets
    NewENIs = {7, 8, 9}
    Inst = "i-1"
INVARIANTS
    TypeOK
    QueuePairBudget
    EveryCardOnce
    TwiceOnlyAttached
    ForeignLeftAlone
\* The computation ends.
CHECK_DEADLOCK FALSE
