CONSTANT N = 5
SPECIFICATION FairSpec
INVARIANTS TypeOK NeighboursExclude NoLostWakeup
PROPERTY EveryoneEats
