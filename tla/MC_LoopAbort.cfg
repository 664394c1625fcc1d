\* ignore_write_entry_error set to false, two parallel workers: does a
\* failed write stop the loop, as the spec says?
CONSTANTS
    NumInputs = 3
    Parallelism = 2
    IgnoreWriteEntryErrorOpts = {FALSE}
    MaxRuntimes <- MCMaxRuntimes
    Instants = {0}
SPECIFICATION Spec
INVARIANT FatalWriteErrorStopsLoop
