CONSTANTS
    p1 = p1
    p2 = p2
    c1 = c1
    c2 = c2
    n1 = n1
    n2 = n2
    n3 = n3
    n4 = n4
    Nil = Nil
    Producers <- TwoProducers
    Consumers <- TwoConsumers
    Nodes <- FourNodes
    MaxSize = 2
    Modulus = 8
    MaxPushes = 3
SPECIFICATION Spec
SYMMETRY Symmetry
CHECK_DEADLOCK FALSE
INVARIANTS SizeAccounts Safe NoLeak
PROPERTIES RefinesFifo SureToPop
