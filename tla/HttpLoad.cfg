SPECIFICATION Spec
CONSTANTS
    HashSize = 2
    MaxTimers = 7
    Modes <- MCModes
    IdleSecs = 2
    Intervals = {2}
    Responses <- MCResponses
    StartsPerLoop = 2
    MaxLate = 1
INVARIANTS TimersAreSound SlotsAreTimed CountsAgree ResponsesAreRead
PROPERTIES RunsEnd
