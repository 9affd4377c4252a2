SPECIFICATION FairSpec
CONSTANTS
    Ranks = 3
    Experts = 4
    Slots = 2
    Layers = 2
    Heat = 2
    Algo = 1
    Stage = "prefill"
    Tp = 1
    Recording = {TRUE, FALSE}
    Initial <- MCInitial
    Policy <- MCPolicy
    MaxFaults = 1
INVARIANTS TypeOK RoutedToHolder  Adopted
 
CHECK_DEADLOCK FALSE
