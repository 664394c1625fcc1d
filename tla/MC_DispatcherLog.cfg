CONSTANTS
    Keys <- MCKeys
    Names <- MCNames
    Tasks <- MCTasks
    LevelNames <- MCLevelNames
    LogLevels <- MCLogLevels
    Events <- MCEvents
    MaxKeys = 3
    MaxList = 2
    MaxRunEvents = 1
    Wrong = Wrong
    NotObject = NotObject
SPECIFICATION Spec
INVARIANT LogDisabledSilencesLog
