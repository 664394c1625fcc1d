\* Two inputs, two parallel workers, every option combination, a clock at
\* 0, at the 10% tolerance boundary of a 10 budget and past it, with and
\* without an interrupt at any point of the chain or of the loop.
CONSTANTS
    NumInputs = 2
    Parallelism = 2
    IgnoreWriteEntryErrorOpts = {TRUE, FALSE}
    MaxRuntimes <- MCMaxRuntimes
    Instants = {0, 9, 10}
SPECIFICATION Spec
INVARIANT TypeOK
INVARIANT InputsTakenInOrderOnce
INVARIANT PerMeasurementOrder
INVARIANT LoopOutcome
INVARIANT ReportClosedUnlessInterrupted
PROPERTY TaskRunReturns
PROPERTY LoopTerminates
