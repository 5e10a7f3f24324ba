SPECIFICATION FairSpec
CONSTANTS
    AHEAD = 2
    MaxInt = 5
    Long = 4
    Raises <- MCRaises
    Shapes <- MCShapes
    Stopped <- MCStopped
INVARIANTS SinkEndsAsToldBy TakesWhatIsAsked NoFailureIsLeft
PROPERTIES EveryPipeEnds ConnectionFollowsItsSource
CHECK_DEADLOCK FALSE
