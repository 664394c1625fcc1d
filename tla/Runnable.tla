------------------------------- MODULE Runnable -------------------------------
(***************************************************************************)
(* The composition of TaskRun.tla and MeasurementLoop.tla: the loop of    *)
(* Runnable::run_next_measurement() runs inside the begin() chain, on the *)
(* same reactor, between process_input_filepaths() and begin()'s          *)
(* callback (src/src/libmeasurement_kit/nettests/runnable.cpp:446-464).   *)
(*                                                                         *)
(* A loop step is a reactor callback, so it only runs while the chain is  *)
(* at "loop" and the reactor is running: Task::interrupt() stops the loop *)
(* as it stops the rest of the chain.  The callback in which the last     *)
(* worker calls back is the one in which mk::parallel calls begin()'s     *)
(* callback, so the loop's outcome and BeginCallback are one step.  The   *)
(* budget's clock starts in begin(), so time may pass at any point.       *)
(***************************************************************************)
EXTENDS Naturals, Sequences

CONSTANTS NumInputs, Parallelism, IgnoreWriteEntryErrorOpts, MaxRuntimes, Instants

VARIABLES
    ignoreOpenError, pc, reactor, interrupted, ipc,
    error, beginError, closeCalled, endFailure,
    ignoreWriteError, maxRt, now, inputs, currentEntry,
    wst, widx, winput, werr, result, events

TR == INSTANCE TaskRun
ML == INSTANCE MeasurementLoop

taskVars == <<ignoreOpenError, pc, reactor, interrupted, ipc,
              error, beginError, closeCalled, endFailure>>
loopVars == <<ignoreWriteError, maxRt, now, inputs, currentEntry,
              wst, widx, winput, werr, result, events>>
vars == <<taskVars, loopVars>>

Init == TR!Init /\ ML!Init

\* The error begin()'s callback receives from mk::parallel.
LoopError(r) == IF r = "error" THEN "LoopError" ELSE "NoError"

\* A step of the begin()/end() chain or of Task::interrupt().
ChainStep ==
    /\ \/ TR!Started \/ TR!InitialEvent \/ TR!QueryBouncer \/ TR!GeoipLookup
       \/ TR!ResolverLookup \/ TR!OpenReport \/ TR!ProcessInputs
       \/ TR!CloseReport \/ TR!EmitEnd \/ TR!InterruptStop \/ TR!InterruptFlag
       \/ TR!Ended
    /\ UNCHANGED loopVars

\* A callback of worker w; when it is the last worker's cb, begin()'s
\* callback runs in it and calls end().
LoopStep(w) ==
    /\ pc = "loop"
    /\ reactor = "running"
    /\ ML!RunNext(w) \/ ML!MainDone(w) \/ ML!WriteDone(w)
    /\ \/ /\ result' = "pending"
          /\ UNCHANGED taskVars
       \/ /\ result' # "pending"
          /\ TR!BeginCallback(LoopError(result'))
          /\ UNCHANGED <<ignoreOpenError, reactor, interrupted, ipc,
                         closeCalled, endFailure>>

\* The wall clock passes the runtime budget.
Tick == ML!Tick /\ UNCHANGED taskVars

Next == ChainStep \/ Tick \/ \E w \in ML!Workers : LoopStep(w)

\* The task's thread runs every pending reactor callback, the loop's
\* included; interrupt() is never forced, but once begun it finishes.
Spec ==
    /\ Init /\ [][Next]_vars
    /\ WF_vars(ChainStep /\ ~(TR!InterruptStop \/ TR!InterruptFlag \/ TR!Ended))
    /\ WF_vars(TR!InterruptFlag /\ UNCHANGED loopVars)
    /\ \A w \in ML!Workers : WF_vars(LoopStep(w))

-----------------------------------------------------------------------------
(* Properties                                                              *)

TypeOK == TR!TypeOK /\ ML!TypeOK

\* The inputs are measured at most once and in list order although the
\* workers interleave (MeasurementLoop.tla), also inside the begin() chain.
InputsTakenInOrderOnce == ML!InputsTakenInOrderOnce

\* Each measurement's events come as start, measurement, submission (or
\* its failure), done, with a single input (MeasurementLoop.tla).
PerMeasurementOrder == ML!PerMeasurementOrder

\* mk::parallel calls begin()'s callback only once every worker has called
\* back, with an error exactly when a write failed fatally; and end()
\* closes the report only after the loop is over, so no worker writes an
\* entry into a closed report.
LoopOutcome ==
    /\ ML!LoopOutcome
    /\ closeCalled /\ beginError \in {"NoError", "LoopError"} =>
           \A w \in ML!Workers : wst[w] = "done"

\* Unless interrupted, every path through begin() (the early error
\* returns and the loop included) reaches end(), which closes the report
\* before status.end (TaskRun.tla).
ReportClosedUnlessInterrupted == TR!ReportClosedUnlessInterrupted

\* task_run() always returns and emits status.end, also when interrupt()
\* stops the reactor in the middle of the loop.
TaskRunReturns == TR!TaskRunReturns

\* The loop ends, or interrupt() stops the reactor it runs on: a loop
\* that has started never hangs while its reactor runs.
LoopTerminates ==
    [](pc = "loop" => <>(result # "pending" \/ reactor = "stopped"))

=============================================================================
