--------------------------- MODULE MeasurementLoop ---------------------------
(***************************************************************************)
(* The measurement loop of src/src/libmeasurement_kit/nettests/runnable.cpp*)
(* Runnable::begin starts `parallelism` logical workers with mk::parallel; *)
(* each runs Runnable::run_next_measurement, which pops the next input of  *)
(* the shared FIFO `inputs`, runs the test's main() asynchronously, then   *)
(* writes the entry with report.write_entry() asynchronously, and          *)
(* reschedules itself with reactor->call_soon().                           *)
(*                                                                         *)
(* All workers are multiplexed on one reactor thread, so each callback is  *)
(* one atomic step; the steps of different workers interleave in any order *)
(* because main() and write_entry() complete whenever their I/O does.      *)
(* An input is identified by its position in the initial input list.      *)
(***************************************************************************)
EXTENDS Integers, Sequences, SequencesExt, FiniteSets

CONSTANTS
    NumInputs,                  \* inputs.size() when the loop starts
    Parallelism,                \* options "parallelism" (default 3)
    IgnoreWriteEntryErrorOpts,  \* the values "ignore_write_entry_error" may take
    MaxRuntimes,                \* the values "max_runtime" may take (-1: unset)
    Instants                    \* the values time_now() - beginning may take

ASSUME /\ NumInputs \in Nat
       /\ Parallelism \in Nat \ {0}
       /\ IgnoreWriteEntryErrorOpts \subseteq BOOLEAN /\ IgnoreWriteEntryErrorOpts # {}
       /\ MaxRuntimes \subseteq Nat \cup {-1} /\ MaxRuntimes # {}
       /\ Instants \subseteq Nat /\ 0 \in Instants

Workers == 0 .. Parallelism - 1     \* mk::range<size_t>(parallelism)

Keys == {"status.measurement_start", "measurement", "status.measurement_submission",
         "failure.measurement_submission", "status.measurement_done"}

VARIABLES
    ignoreWriteError, \* options.get("ignore_write_entry_error", true)
    maxRt,            \* options.get("max_runtime", -1.0)
    now,              \* time_now() - beginning, the time since begin()
    inputs,           \* Runnable::inputs, the shared FIFO of inputs
    currentEntry,     \* *current_entry, shared by all workers
    wst,              \* what each worker is doing
    widx,             \* saved_current_entry of the worker's measurement
    winput,           \* next_input of the worker's measurement
    werr,             \* the error each finished worker passed to its cb
    result,           \* the error mk::parallel passes to begin's callback
    events            \* history: the events emitted through the logger

vars == <<ignoreWriteError, maxRt, now, inputs, currentEntry,
          wst, widx, winput, werr, result, events>>

Event(k, i, x) == [key |-> k, idx |-> i, input |-> x]

TypeOK ==
    /\ ignoreWriteError \in BOOLEAN
    /\ maxRt \in MaxRuntimes
    /\ now \in Instants
    /\ inputs \in Seq(1..NumInputs)
    /\ currentEntry \in 0..NumInputs
    /\ wst \in [Workers -> {"next", "measuring", "writing", "done"}]
    /\ widx \in [Workers -> 0..NumInputs]
    /\ winput \in [Workers -> 0..NumInputs]
    /\ werr \in [Workers -> BOOLEAN]
    /\ result \in {"pending", "ok", "error"}
    /\ events \in Seq([key : Keys, idx : 0..NumInputs, input : 0..NumInputs])

\* begin(): num_entries = inputs.size(); current_entry = 0; mk::parallel
\* starts every worker's first run_next_measurement.
Init ==
    /\ ignoreWriteError \in IgnoreWriteEntryErrorOpts
    /\ maxRt \in MaxRuntimes
    /\ now = 0
    /\ inputs = [i \in 1..NumInputs |-> i]
    /\ currentEntry = 0
    /\ wst = [w \in Workers |-> "next"]
    /\ widx = [w \in Workers |-> 0]
    /\ winput = [w \in Workers |-> 0]
    /\ werr = [w \in Workers |-> FALSE]
    /\ result = "pending"
    /\ events = <<>>

-----------------------------------------------------------------------------

\* Mutant: mk::parallel calls back as soon as one worker has finished.
FinishFirst(w, err) ==
    /\ wst' = [wst EXCEPT ![w] = "done"]
    /\ werr' = [werr EXCEPT ![w] = err]
    /\ result' = IF result = "pending" THEN IF err THEN "error" ELSE "ok" ELSE result

\* Worker w calls its cb(err); mk::parallel calls begin's callback once the
\* last worker has called back, with an error iff some worker failed.
Finish(w, err) ==
    /\ wst' = [wst EXCEPT ![w] = "done"]
    /\ werr' = [werr EXCEPT ![w] = err]
    /\ result' = IF \A v \in Workers \ {w} : wst[v] = "done"
                 THEN IF \E v \in Workers : werr'[v] THEN "error" ELSE "ok"
                 ELSE "pending"

\* The wall clock moves to a later instant.  The clock is only read for
\* the budget, so it is followed only when max_runtime is set.
Tick ==
    /\ maxRt >= 0
    /\ \E t \in Instants : t > now /\ now' = t
    /\ UNCHANGED <<ignoreWriteError, maxRt, inputs, currentEntry,
                   wst, widx, winput, werr, result, events>>

\* Mutant: the budget test with >= instead of >.
OverBudgetAtBoundary ==
    maxRt >= 0 /\ 10 * now >= 9 * maxRt

\* max_rt >= 0.0 && delta > max_rt - max_rt / 10.0, in integer arithmetic
\* (delta > max_rt - max_rt / 10 iff 10 * delta > 9 * max_rt).
OverBudget ==
    maxRt >= 0 /\ 10 * now > 9 * maxRt

\* Mutant: ++*current_entry before the end-of-input check.
RunNextEarlyBump(w) ==
    /\ wst[w] = "next"
    /\ currentEntry' = currentEntry + 1
    /\ \/ /\ OverBudget \/ inputs = <<>>
          /\ Finish(w, FALSE)
          /\ UNCHANGED <<inputs, widx, winput, events>>
       \/ /\ ~OverBudget
          /\ inputs # <<>>
          /\ inputs' = Tail(inputs)
          /\ widx' = [widx EXCEPT ![w] = currentEntry]
          /\ winput' = [winput EXCEPT ![w] = Head(inputs)]
          /\ events' = Append(events, Event("status.measurement_start", currentEntry, Head(inputs)))
          /\ wst' = [wst EXCEPT ![w] = "measuring"]
          /\ UNCHANGED <<werr, result>>
    /\ UNCHANGED <<ignoreWriteError, maxRt, now>>

\* Mutant: inputs.front() taken without inputs.pop_front().
RunNextNoPop(w) ==
    /\ wst[w] = "next"
    /\ \/ /\ OverBudget \/ inputs = <<>>
          /\ Finish(w, FALSE)
          /\ UNCHANGED <<inputs, currentEntry, widx, winput, events>>
       \/ /\ ~OverBudget
          /\ inputs # <<>>
          /\ widx' = [widx EXCEPT ![w] = currentEntry]
          /\ winput' = [winput EXCEPT ![w] = Head(inputs)]
          /\ currentEntry' = currentEntry + 1
          /\ events' = Append(events, Event("status.measurement_start", currentEntry, Head(inputs)))
          /\ wst' = [wst EXCEPT ![w] = "measuring"]
          /\ UNCHANGED <<inputs, werr, result>>
    /\ UNCHANGED <<ignoreWriteError, maxRt, now>>

\* Mutant: at the end of input the worker returns without calling cb.
RunNextForgetsCb(w) ==
    /\ wst[w] = "next"
    /\ \/ /\ OverBudget
          /\ Finish(w, FALSE)
          /\ UNCHANGED <<inputs, currentEntry, widx, winput, events>>
       \/ /\ ~OverBudget
          /\ inputs = <<>>
          /\ UNCHANGED <<inputs, currentEntry, wst, widx, winput, werr, result, events>>
       \/ /\ ~OverBudget
          /\ inputs # <<>>
          /\ inputs' = Tail(inputs)
          /\ widx' = [widx EXCEPT ![w] = currentEntry]
          /\ winput' = [winput EXCEPT ![w] = Head(inputs)]
          /\ currentEntry' = currentEntry + 1
          /\ events' = Append(events, Event("status.measurement_start", currentEntry, Head(inputs)))
          /\ wst' = [wst EXCEPT ![w] = "measuring"]
          /\ UNCHANGED <<werr, result>>
    /\ UNCHANGED <<ignoreWriteError, maxRt, now>>

\* run_next_measurement(): stop on budget or end of input; otherwise pop
\* the front input, take and bump current_entry, setup(), emit
\* status.measurement_start and call main().
RunNext(w) ==
    /\ wst[w] = "next"
    /\ \/ /\ OverBudget
          /\ Finish(w, FALSE)
          /\ UNCHANGED <<inputs, currentEntry, widx, winput, events>>
       \/ /\ ~OverBudget
          /\ inputs = <<>>
          /\ Finish(w, FALSE)
          /\ UNCHANGED <<inputs, currentEntry, widx, winput, events>>
       \/ /\ ~OverBudget
          /\ inputs # <<>>
          /\ inputs' = Tail(inputs)
          /\ widx' = [widx EXCEPT ![w] = currentEntry]
          /\ winput' = [winput EXCEPT ![w] = Head(inputs)]
          /\ currentEntry' = currentEntry + 1
          /\ events' = Append(events, Event("status.measurement_start", currentEntry, Head(inputs)))
          /\ wst' = [wst EXCEPT ![w] = "measuring"]
          /\ UNCHANGED <<werr, result>>
    /\ UNCHANGED <<ignoreWriteError, maxRt, now>>

\* main()'s callback: build the entry, teardown(), fill_entry(), emit
\* "measurement" and call report.write_entry().
MainDone(w) ==
    /\ wst[w] = "measuring"
    /\ events' = Append(events, Event("measurement", widx[w], winput[w]))
    /\ wst' = [wst EXCEPT ![w] = "writing"]
    /\ UNCHANGED <<ignoreWriteError, maxRt, now, inputs, currentEntry,
                   widx, winput, werr, result>>

\* Mutant: status.measurement_done emitted before the submission outcome.
WriteDoneEarlyDone(w) ==
    /\ wst[w] = "writing"
    /\ LET i == widx[w]
           x == winput[w]
       IN \/ /\ events' = events \o << Event("status.measurement_done", i, x),
                                      Event("status.measurement_submission", i, x) >>
             /\ wst' = [wst EXCEPT ![w] = "next"]
             /\ UNCHANGED <<werr, result>>
          \/ /\ ignoreWriteError
             /\ events' = events \o << Event("status.measurement_done", i, x),
                                      Event("failure.measurement_submission", i, x) >>
             /\ wst' = [wst EXCEPT ![w] = "next"]
             /\ UNCHANGED <<werr, result>>
          \/ /\ ~ignoreWriteError
             /\ events' = Append(events, Event("failure.measurement_submission", i, x))
             /\ Finish(w, TRUE)
    /\ UNCHANGED <<ignoreWriteError, maxRt, now, inputs, currentEntry, widx, winput>>

\* write_entry()'s callback with the report's aggregate result.  A failure
\* emits failure.measurement_submission and, unless ignore_write_entry_error,
\* ends this worker with the error; otherwise the worker emits
\* status.measurement_done and schedules its next measurement.
WriteDone(w) ==
    /\ wst[w] = "writing"
    /\ LET i == widx[w]
           x == winput[w]
       IN \/ /\ events' = events \o << Event("status.measurement_submission", i, x),
                                      Event("status.measurement_done", i, x) >>
             /\ wst' = [wst EXCEPT ![w] = "next"]
             /\ UNCHANGED <<werr, result>>
          \/ /\ ignoreWriteError
             /\ events' = events \o << Event("failure.measurement_submission", i, x),
                                      Event("status.measurement_done", i, x) >>
             /\ wst' = [wst EXCEPT ![w] = "next"]
             /\ UNCHANGED <<werr, result>>
          \/ /\ ~ignoreWriteError
             /\ events' = Append(events, Event("failure.measurement_submission", i, x))
             /\ Finish(w, TRUE)
    /\ UNCHANGED <<ignoreWriteError, maxRt, now, inputs, currentEntry, widx, winput>>

\* mk::parallel has called begin's callback: the loop is over.
LoopDone ==
    /\ result # "pending"
    /\ UNCHANGED vars

Next ==
    \/ LoopDone
    \/ Tick
    \/ \E w \in Workers : RunNext(w) \/ MainDone(w) \/ WriteDone(w)

\* The reactor runs every pending callback; main() calls back exactly once
\* (the test contract) and write_entry() completes or fails.  Time is not
\* assumed to pass: Tick has no fairness.
Fairness ==
    \A w \in Workers : WF_vars(RunNext(w)) /\ WF_vars(MainDone(w)) /\ WF_vars(WriteDone(w))

Spec == Init /\ [][Next]_vars /\ Fairness

-----------------------------------------------------------------------------
(* Properties                                                              *)

Starts == SelectSeq(events, LAMBDA e : e.key = "status.measurement_start")

\* Every input is measured at most once and in list order, whatever the
\* interleaving of the parallel workers: the k-th measurement started is
\* the k-th input and carries idx k - 1 (inputs.pop_front() and
\* ++*current_entry happen in the same reactor callback).
InputsTakenInOrderOnce ==
    \A k \in 1..Len(Starts) : Starts[k].input = k /\ Starts[k].idx = k - 1

\* The lifecycles of one measurement's events, whatever the other workers do.
Submitted == <<"status.measurement_start", "measurement",
               "status.measurement_submission", "status.measurement_done">>
NotSubmitted == <<"status.measurement_start", "measurement",
                  "failure.measurement_submission", "status.measurement_done">>

KeysOf(i) ==
    LET es == SelectSeq(events, LAMBDA e : e.idx = i)
    IN [k \in 1..Len(es) |-> es[k].key]

\* The events of one measurement are emitted in the order start,
\* measurement, submission (or its failure), done, each at most once and
\* all with the same input, although workers interleave their events.
PerMeasurementOrder ==
    \A i \in 0..NumInputs - 1 :
        /\ IsPrefix(KeysOf(i), Submitted) \/ IsPrefix(KeysOf(i), NotSubmitted)
        /\ \A a, b \in 1..Len(events) :
               events[a].idx = i /\ events[b].idx = i => events[a].input = events[b].input

\* The budget as the spec words it: more time has passed than max_runtime
\* less its 10% tolerance.
BudgetSpent ==
    maxRt >= 0 /\ 10 * now > 9 * maxRt

\* begin's callback runs only after every worker has called back; it gets
\* an error exactly when a write failed with ignore_write_entry_error false,
\* and success means every input was taken or the budget ran out strictly:
\* a worker must not stop at the boundary delta = max_rt - max_rt / 10.
LoopOutcome ==
    result # "pending" =>
        /\ \A w \in Workers : wst[w] = "done"
        /\ (result = "error") <=>
               (~ignoreWriteError /\ \E k \in 1..Len(events) : events[k].key = "failure.measurement_submission")
        /\ result = "ok" => inputs = <<>> \/ BudgetSpent

\* The loop always ends: mk::parallel eventually calls begin's callback.
LoopTerminates == <>(result # "pending")

\* The spec (section 4.3): with ignore_write_entry_error false, a failed
\* write aborts the whole loop, so no measurement starts after it.
FatalWriteErrorStopsLoop ==
    ~ignoreWriteError =>
        \A a, b \in 1..Len(events) :
            a < b /\ events[a].key = "failure.measurement_submission"
                => events[b].key # "status.measurement_start"

=============================================================================
