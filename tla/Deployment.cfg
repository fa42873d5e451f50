SPECIFICATION MCSpec
CONSTANTS
    a = a
    b = b
    image = image
    InstanceCount = 2
    Tasks <- MCTasks
    Image = image
    NoTask = NoTask
    Mutator = Mutator
    Original = Original
    MaxFaults = 2
    MaxCrash = 1
SYMMETRY TaskSymmetry
INVARIANTS
    DeploymentsExclude
    DirectoriesSurvive
PROPERTIES
    CompletedIsDone
