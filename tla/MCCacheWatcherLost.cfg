SPECIFICATION Spec
CONSTANTS
    Root = Root
    d = d
    new = new
    SubDir = {d}
    CodeObject = {new}
    HomeOf <- MCHomeOf
    StartFiles = {}
    WatchFails = FALSE
    AddFileThrows = FALSE
    MaxBuilds = 1
CHECK_DEADLOCK FALSE
PROPERTY NewKernelsLearnt
