SPECIFICATION Spec
CONSTANTS
    MaxFiles = 4
    M = 3
    Scenes <- BoardScenes
INVARIANTS OwnFilesOnly EndsOnlyOfLeak StatusShown
PROPERTIES UsageExact
CHECK_DEADLOCK FALSE
