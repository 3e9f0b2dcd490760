\* Three elements fit; every order of the steps of both threads, which go on.
CONSTANTS
    Values = {v1, v2}
    Slots = 4
SPECIFICATION FairSpec
INVARIANTS SlotsApart SurePop
PROPERTIES ImplementsFifo WaitingEnds
