\* One task: the controller's polling loop must eventually end.
CONSTANTS
    t1 = t1
    t2 = t2
    Tasks <- MCOneTask
    NoTask = NoTask
    MaxEvents = 2
    OldReports = {0}
    UserPath = UserPath
SPECIFICATION Spec
PROPERTY ControllerTerminates
\* The program really stops here: a hang is what this run looks for.
CHECK_DEADLOCK FALSE
