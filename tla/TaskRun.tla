------------------------------- MODULE TaskRun -------------------------------
(***************************************************************************)
(* The body of a task once its settings are valid: the tail of task_run() *)
(* in src/src/libmeasurement_kit/engine.cpp, which emits status.started,  *)
(* runs Runnable::begin() and Runnable::end() on the task's reactor, and  *)
(* emits status.end with the combined error; and the callback chain of    *)
(* Runnable::begin() / end() in nettests/runnable.cpp.  Task::interrupt() *)
(* runs on another thread and stops the reactor.                          *)
(*                                                                         *)
(* Every asynchronous step of the chain is one reactor callback; a        *)
(* stopped reactor dispatches none of them, and run_with_initial_event()  *)
(* returns.  The measurement loop is one step with its outcome here;      *)
(* MeasurementLoop.tla models it.  Errors are named by their origin.      *)
(***************************************************************************)
EXTENDS Naturals, Sequences

Errors == {"NoError", "GenericError", "BouncerError", "OpenReportError",
           "InputFileError", "LoopError", "CloseError"}

VARIABLES
    ignoreOpenError,  \* options.get("ignore_open_report_error", true)
    pc,               \* where the begin()/end() chain is
    reactor,          \* "idle" before run, "running", or "stopped"
    interrupted,      \* TaskImpl::interrupted
    ipc,              \* progress of Task::interrupt(): "no", "stopping", "done"
    error,            \* the `error` local of task_run()
    beginError,       \* history: the error begin() passed to its callback
    closeCalled,      \* history: report.close() was called by end()
    endFailure        \* the "failure" of status.end, "none" until emitted

vars == <<ignoreOpenError, pc, reactor, interrupted, ipc,
          error, beginError, closeCalled, endFailure>>

PCs == {"started", "initial", "bouncer", "geoip", "resolver", "open", "inputs",
        "loop", "close", "quiesce", "ended"}

TypeOK ==
    /\ ignoreOpenError \in BOOLEAN
    /\ pc \in PCs
    /\ reactor \in {"idle", "running", "stopped"}
    /\ interrupted \in BOOLEAN
    /\ ipc \in {"no", "stopping", "done"}
    /\ error \in Errors
    /\ beginError \in Errors \cup {"none"}
    /\ closeCalled \in BOOLEAN
    /\ endFailure \in Errors \cup {"none"}

\* Settings were validated and the logger routed; status.started is next.
Init ==
    /\ ignoreOpenError \in BOOLEAN
    /\ pc = "started"
    /\ reactor = "idle"
    /\ interrupted = FALSE
    /\ ipc = "no"
    /\ error = "GenericError"
    /\ beginError = "none"
    /\ closeCalled = FALSE
    /\ endFailure = "none"

\* A reactor callback of the chain moves from `from` to `to`.
Step(from, to) ==
    /\ pc = from
    /\ reactor = "running"
    /\ pc' = to

\* Mutant: begin()'s callback calls end() only when begin() succeeded.
BeginCallbackSkipsEnd(err) ==
    /\ error' = err
    /\ beginError' = err
    /\ pc' = IF err = "NoError" THEN "close" ELSE "quiesce"

\* begin()'s callback: error = err; runnable->end(...).
BeginCallback(err) ==
    /\ error' = err
    /\ beginError' = err
    /\ pc' = "close"

-----------------------------------------------------------------------------

\* emit status.started, then run_with_initial_event() starts the reactor.
Started ==
    /\ pc = "started"
    /\ pc' = "initial"
    /\ reactor' = IF reactor = "idle" THEN "running" ELSE reactor
    /\ UNCHANGED <<ignoreOpenError, interrupted, ipc, error,
                   beginError, closeCalled, endFailure>>

\* The initial event: return at once if interrupted, else begin().
InitialEvent ==
    /\ Step("initial", IF interrupted THEN "quiesce" ELSE "bouncer")
    /\ UNCHANGED <<ignoreOpenError, reactor, interrupted, ipc,
                   error, beginError, closeCalled, endFailure>>

\* query_bouncer(): skipped, or post_net_tests() succeeds; or it fails,
\* which an invalid "no_bouncer" option does even when the bouncer is not
\* used (as do a network failure and "no collector found").  A failure
\* goes straight to begin's callback.
QueryBouncer ==
    /\ \/ /\ Step("bouncer", "geoip")
          /\ UNCHANGED <<error, beginError>>
       \/ /\ pc = "bouncer" /\ reactor = "running"
          /\ BeginCallback("BouncerError")
    /\ UNCHANGED <<ignoreOpenError, reactor, interrupted, ipc,
                   closeCalled, endFailure>>

\* geoip_lookup(): every failure degrades to a warning.
GeoipLookup ==
    /\ Step("geoip", "resolver")
    /\ UNCHANGED <<ignoreOpenError, reactor, interrupted, ipc,
                   error, beginError, closeCalled, endFailure>>

\* resolver_lookup(): a failure is only logged.
ResolverLookup ==
    /\ Step("resolver", "open")
    /\ UNCHANGED <<ignoreOpenError, reactor, interrupted, ipc,
                   error, beginError, closeCalled, endFailure>>

\* open_report(): a failure aborts begin() only when
\* ignore_open_report_error is false.
OpenReport ==
    /\ pc = "open" /\ reactor = "running"
    /\ \/ /\ pc' = "inputs"
          /\ UNCHANGED <<error, beginError>>
       \/ /\ ~ignoreOpenError
          /\ BeginCallback("OpenReportError")
    /\ UNCHANGED <<ignoreOpenError, reactor, interrupted, ipc,
                   closeCalled, endFailure>>

\* process_input_filepaths(), run synchronously in open_report's callback.
ProcessInputs ==
    /\ pc = "inputs" /\ reactor = "running"
    /\ \/ /\ pc' = "loop"
          /\ UNCHANGED <<error, beginError>>
       \/ BeginCallback("InputFileError")
    /\ UNCHANGED <<ignoreOpenError, reactor, interrupted, ipc,
                   closeCalled, endFailure>>

\* mk::parallel calls begin's callback with the loop's outcome.
LoopEnd ==
    /\ pc = "loop" /\ reactor = "running"
    /\ \E err \in {"NoError", "LoopError"} : BeginCallback(err)
    /\ UNCHANGED <<ignoreOpenError, reactor, interrupted, ipc,
                   closeCalled, endFailure>>

\* The callback task_run() passes to end():
\* `if (error != NoError()) { error = err; }`.
EndCallback(error0, err) == IF error0 # "NoError" THEN err ELSE error0

\* Runnable::end(): report.close(), whose callback calls task_run()'s.
CloseReport ==
    /\ pc = "close" /\ reactor = "running"
    /\ \E err \in {"NoError", "CloseError"} : error' = EndCallback(error, err)
    /\ closeCalled' = TRUE
    /\ pc' = "quiesce"
    /\ UNCHANGED <<ignoreOpenError, reactor, interrupted, ipc,
                   beginError, endFailure>>

\* Mutant: run_with_initial_event() does not return after reactor->stop().
EmitEndOnlyWhenQuiet ==
    /\ pc = "quiesce"
    /\ endFailure' = error
    /\ pc' = "ended"
    /\ UNCHANGED <<ignoreOpenError, reactor, interrupted, ipc,
                   error, beginError, closeCalled>>

\* run_with_initial_event() returns when nothing is left to dispatch or the
\* reactor was stopped; task_run() emits status.end with `error`.
EmitEnd ==
    /\ pc # "ended"
    /\ pc = "quiesce" \/ (reactor = "stopped" /\ pc # "started")
    /\ endFailure' = error
    /\ pc' = "ended"
    /\ UNCHANGED <<ignoreOpenError, reactor, interrupted, ipc,
                   error, beginError, closeCalled>>

\* Task::interrupt(), first half: reactor->stop().  Stopping a reactor that
\* is not running yet may be remembered or lost, as the Reactor decides.
\* interrupt() is idempotent and may be called again at any time.
InterruptStop ==
    /\ ipc \in {"no", "done"}
    /\ ipc' = "stopping"
    /\ \/ reactor' = "stopped"
       \/ /\ reactor = "idle"
          /\ UNCHANGED reactor
    /\ UNCHANGED <<ignoreOpenError, pc, interrupted, error,
                   beginError, closeCalled, endFailure>>

\* Task::interrupt(), second half: interrupted = true.
InterruptFlag ==
    /\ ipc = "stopping"
    /\ ipc' = "done"
    /\ interrupted' = TRUE
    /\ UNCHANGED <<ignoreOpenError, pc, reactor, error,
                   beginError, closeCalled, endFailure>>

\* task_run() has returned.
Ended ==
    /\ pc = "ended"
    /\ UNCHANGED vars

Next ==
    \/ Started \/ InitialEvent \/ QueryBouncer \/ GeoipLookup \/ ResolverLookup
    \/ OpenReport \/ ProcessInputs \/ LoopEnd \/ CloseReport \/ EmitEnd
    \/ InterruptStop \/ InterruptFlag \/ Ended

\* The task's own thread keeps running the reactor, and a thread inside
\* interrupt() finishes it; nobody is obliged to call interrupt().
TaskSteps ==
    \/ Started \/ InitialEvent \/ QueryBouncer \/ GeoipLookup \/ ResolverLookup
    \/ OpenReport \/ ProcessInputs \/ LoopEnd \/ CloseReport \/ EmitEnd

Spec == Init /\ [][Next]_vars /\ WF_vars(TaskSteps) /\ WF_vars(InterruptFlag)

-----------------------------------------------------------------------------
(* Properties                                                              *)

\* Unless the task was interrupted, every path through begin(), the early
\* error returns included, reaches end() and closes the report before
\* status.end is emitted.
ReportClosedUnlessInterrupted ==
    pc = "ended" /\ ipc = "no" => closeCalled

\* task_run() always returns and emits status.end, also when interrupt()
\* stops the reactor in the middle of the chain.
TaskRunReturns == <>(pc = "ended")

\* What spec section 7 asks: no failure is silent.  When begin() fails,
\* status.end reports that failure.
EndCarriesBeginError ==
    pc = "ended" /\ beginError \notin {"none", "NoError"} => endFailure = beginError

=============================================================================
