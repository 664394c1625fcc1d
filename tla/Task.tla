-------------------------------- MODULE Task --------------------------------
(***************************************************************************)
(* The thread-isolated task of src/src/libmeasurement_kit/engine.cpp:     *)
(* mk::engine::Task, its TaskImpl (deque, mutex, condition variable,      *)
(* atomic `running`) and the process-wide Semaphore that serialises task  *)
(* bodies.                                                                 *)
(*                                                                         *)
(* Every task has two actors: the worker thread spawned by Task::Task and *)
(* the controller thread that constructed it and then runs the canonical  *)
(* polling loop of the FFI (`while (!is_done()) wait_for_next_event();`   *)
(* followed by destruction, which joins the worker).                      *)
(*                                                                         *)
(* An event is identified by its emission rank: the n-th event that the   *)
(* worker of a task pushes is the number n.  The body of the task         *)
(* (task_run) is abstracted here to "emit a bounded, nondeterministic     *)
(* number of events"; TaskRun.tla models what those events are.  Of the  *)
(* body, the model keeps the one step whose effect outlives the task:     *)
(* Runnable::open_report() (runnable.cpp) picks the report's file name    *)
(* and report.open() creates the file.  All tasks are taken to run the    *)
(* same test in the same second, so a generated name                      *)
(* report-<test_name>-<timestamp>-<idx>.njson is its idx.                 *)
(***************************************************************************)
EXTENDS Naturals, Sequences, SequencesExt, FiniteSets

CONSTANTS
    Tasks,      \* the Task objects alive in the process
    MaxEvents,  \* bound on the events one task emits (status.queued included)
    NoTask,     \* the holder of a free Semaphore
    OldReports, \* idx of the report files an earlier run left in the directory
    UserPath    \* an output_filepath given in the settings

ASSUME /\ Tasks # {}
       /\ NoTask \notin Tasks
       /\ MaxEvents \in Nat \ {0, 1}
       /\ OldReports \subseteq Nat

\* The synthetic event returned by wait_for_next_event once the task is over.
TaskTerminated == 0

VARIABLES
    running,    \* TaskImpl::running (std::atomic_bool)
    deque,      \* TaskImpl::deque, guarded by TaskImpl::mutex
    mtx,        \* "ctrl" while the controller holds TaskImpl::mutex across steps
    semaphore,  \* the task whose worker holds the static Semaphore
    wpc,        \* program counter of the worker thread
    notifying,  \* the worker has yet to call cond.notify_all()
    cpc,        \* program counter of the controller thread
    emitted,    \* history: how many events the worker has pushed
    delivered,  \* history: the events wait_for_next_event returned, in order
    rpc,        \* the body's progress through open_report()
    path,       \* Runnable::output_filepath between the name check and report.open():
                \* an idx or UserPath; -1 outside that window
    files       \* the idx of the report files in the working directory

vars == <<running, deque, mtx, semaphore, wpc, notifying, cpc, emitted, delivered,
          rpc, path, files>>
reportVars == <<rpc, path, files>>

WorkerPCs == {"spawn", "queued", "acquire", "body", "release", "exited"}
CtrlPCs   == {"start", "loop", "wait", "checked", "waiting", "woken", "join", "gone"}

TypeOK ==
    /\ running \in [Tasks -> BOOLEAN]
    /\ deque \in [Tasks -> Seq(1..MaxEvents)]
    /\ mtx \in [Tasks -> {"none", "ctrl"}]
    /\ semaphore \in Tasks \cup {NoTask}
    /\ wpc \in [Tasks -> WorkerPCs]
    /\ notifying \in [Tasks -> BOOLEAN]
    /\ cpc \in [Tasks -> CtrlPCs]
    /\ emitted \in [Tasks -> 0..MaxEvents]
    /\ delivered \in [Tasks -> Seq(0..MaxEvents)]
    /\ rpc \in [Tasks -> {"none", "generated", "done"}]
    /\ path \in [Tasks -> Nat \cup {-1, UserPath}]
    /\ files \subseteq Nat

\* Task::Task has created TaskImpl (running false, empty deque) and spawned
\* the thread; the constructor is blocked on the barrier's future.
Init ==
    /\ running = [t \in Tasks |-> FALSE]
    /\ deque = [t \in Tasks |-> <<>>]
    /\ mtx = [t \in Tasks |-> "none"]
    /\ semaphore = NoTask
    /\ wpc = [t \in Tasks |-> "spawn"]
    /\ notifying = [t \in Tasks |-> FALSE]
    /\ cpc = [t \in Tasks |-> "start"]
    /\ emitted = [t \in Tasks |-> 0]
    /\ delivered = [t \in Tasks |-> <<>>]
    /\ rpc = [t \in Tasks |-> "none"]
    /\ path = [t \in Tasks |-> -1]
    /\ files = OldReports

-----------------------------------------------------------------------------
(* Worker thread                                                           *)

\* emit(): push the event under the mutex; notify_all() follows unlocked.
Emit(t) ==
    /\ mtx[t] = "none"
    /\ ~notifying[t]
    /\ emitted[t] < MaxEvents
    /\ emitted' = [emitted EXCEPT ![t] = @ + 1]
    /\ deque' = [deque EXCEPT ![t] = Append(@, emitted[t] + 1)]
    /\ notifying' = [notifying EXCEPT ![t] = TRUE]

\* cond.notify_all(): wakes the controller if it is blocked in cond.wait().
Notify(t) ==
    /\ notifying[t]
    /\ notifying' = [notifying EXCEPT ![t] = FALSE]
    /\ cpc' = [cpc EXCEPT ![t] = IF @ = "waiting" THEN "woken" ELSE @]
    /\ UNCHANGED <<running, deque, mtx, semaphore, wpc, emitted, delivered>>
    /\ UNCHANGED reportVars

\* The lambda starts: running = true; barrier.set_value().
ThreadStart(t) ==
    /\ wpc[t] = "spawn"
    /\ running' = [running EXCEPT ![t] = TRUE]
    /\ wpc' = [wpc EXCEPT ![t] = "queued"]
    /\ UNCHANGED <<deque, mtx, semaphore, notifying, cpc, emitted, delivered>>
    /\ UNCHANGED reportVars

\* The "status.queued" event is emitted before taking the semaphore.
EmitQueued(t) ==
    /\ wpc[t] = "queued"
    /\ Emit(t)
    /\ wpc' = [wpc EXCEPT ![t] = "acquire"]
    /\ UNCHANGED <<running, mtx, semaphore, cpc, delivered>>
    /\ UNCHANGED reportVars

\* Mutant: acquiring the semaphore without waiting for it to be free.
AcquireUnguarded(t) ==
    /\ wpc[t] = "acquire"
    /\ ~notifying[t]
    /\ semaphore' = t
    /\ wpc' = [wpc EXCEPT ![t] = "body"]
    /\ UNCHANGED <<running, deque, mtx, notifying, cpc, emitted, delivered>>
    /\ UNCHANGED reportVars

\* semaphore.acquire(): blocks while another task body runs.
Acquire(t) ==
    /\ wpc[t] = "acquire"
    /\ ~notifying[t]
    /\ semaphore = NoTask
    /\ semaphore' = t
    /\ wpc' = [wpc EXCEPT ![t] = "body"]
    /\ UNCHANGED <<running, deque, mtx, notifying, cpc, emitted, delivered>>
    /\ UNCHANGED reportVars

\* task_run() emits one more event (log, status.*, measurement, ...).
BodyEmit(t) ==
    /\ wpc[t] = "body"
    /\ Emit(t)
    /\ UNCHANGED <<running, mtx, semaphore, wpc, cpc, delivered>>
    /\ UNCHANGED reportVars

\* Mutant: the name is used without the existence check.
FirstFreeNoRetry(fs, idx) == idx

\* generate_output_filepath(): from idx 0, while a file with the name
\* exists (std::ifstream(...).good()), try the next idx.
RECURSIVE FirstFree(_, _)
FirstFree(fs, idx) == IF idx \in fs THEN FirstFree(fs, idx + 1) ELSE idx

\* open_report(): with no output_filepath in the settings, generate one.
OpenReport(t) ==
    /\ wpc[t] = "body"
    /\ ~notifying[t]
    /\ rpc[t] = "none"
    /\ \E given \in {"", UserPath} :
          path' = [path EXCEPT ![t] = IF given = "" THEN FirstFree(files, 0) ELSE given]
    /\ rpc' = [rpc EXCEPT ![t] = "generated"]
    /\ UNCHANGED <<running, deque, mtx, semaphore, wpc, notifying, cpc, emitted, delivered, files>>

\* add_reporter(FileReporter) unless no_file_report, then report.open():
\* the FileReporter creates the file.
ReportOpen(t) ==
    /\ wpc[t] = "body"
    /\ ~notifying[t]
    /\ rpc[t] = "generated"
    /\ \E fileReport \in BOOLEAN :
          files' = IF fileReport /\ path[t] \in Nat THEN files \cup {path[t]} ELSE files
    /\ rpc' = [rpc EXCEPT ![t] = "done"]
    /\ path' = [path EXCEPT ![t] = -1]
    /\ UNCHANGED <<running, deque, mtx, semaphore, wpc, notifying, cpc, emitted, delivered>>

\* task_run() returns, after any number of events of its own (none when
\* disabled_events silences all of them), and not inside open_report();
\* then running = false, written without holding TaskImpl::mutex, and
\* notify_all().
BodyReturn(t) ==
    /\ wpc[t] = "body"
    /\ ~notifying[t]
    /\ rpc[t] # "generated"
    /\ running' = [running EXCEPT ![t] = FALSE]
    /\ notifying' = [notifying EXCEPT ![t] = TRUE]
    /\ wpc' = [wpc EXCEPT ![t] = "release"]
    /\ UNCHANGED <<deque, mtx, semaphore, cpc, emitted, delivered>>
    /\ UNCHANGED reportVars

\* Mutant: a return path that forgets semaphore.release().
ReleaseForgotten(t) ==
    /\ wpc[t] = "release"
    /\ ~notifying[t]
    /\ wpc' = [wpc EXCEPT ![t] = "exited"]
    /\ UNCHANGED <<running, deque, mtx, semaphore, notifying, cpc, emitted, delivered>>
    /\ UNCHANGED reportVars

\* semaphore.release(); the thread function returns.
Release(t) ==
    /\ wpc[t] = "release"
    /\ ~notifying[t]
    /\ semaphore' = NoTask
    /\ wpc' = [wpc EXCEPT ![t] = "exited"]
    /\ UNCHANGED <<running, deque, mtx, notifying, cpc, emitted, delivered>>
    /\ UNCHANGED reportVars

-----------------------------------------------------------------------------
(* Controller thread                                                       *)

\* started.wait() returns once the worker has set the barrier.
CtorReturn(t) ==
    /\ cpc[t] = "start"
    /\ wpc[t] # "spawn"
    /\ cpc' = [cpc EXCEPT ![t] = "loop"]
    /\ UNCHANGED <<running, deque, mtx, semaphore, wpc, notifying, emitted, delivered>>
    /\ UNCHANGED reportVars

\* Mutant: is_done() that only looks at `running`.
IsDoneRunningOnly(t) ==
    /\ cpc[t] = "loop"
    /\ mtx[t] = "none"
    /\ cpc' = [cpc EXCEPT ![t] = IF ~running[t] THEN "join" ELSE "wait"]
    /\ UNCHANGED <<running, deque, mtx, semaphore, wpc, notifying, emitted, delivered>>
    /\ UNCHANGED reportVars

\* is_done(): under the mutex, running == false && deque.empty().
IsDone(t) ==
    /\ cpc[t] = "loop"
    /\ mtx[t] = "none"
    /\ cpc' = [cpc EXCEPT ![t] = IF ~running[t] /\ deque[t] = <<>> THEN "join" ELSE "wait"]
    /\ UNCHANGED <<running, deque, mtx, semaphore, wpc, notifying, emitted, delivered>>
    /\ UNCHANGED reportVars

\* Mutant: cond.wait(lock) without the predicate, then deque.front(): a
\* wakeup with an empty deque reads an event that was never pushed.
WaitCheckNoRecheck(t) ==
    /\ cpc[t] \in {"wait", "woken"}
    /\ mtx[t] = "none"
    /\ \/ /\ cpc[t] = "woken"
          /\ delivered' = [delivered EXCEPT ![t] =
                 Append(@, IF deque[t] = <<>> THEN MaxEvents + 1 ELSE Head(deque[t]))]
          /\ deque' = [deque EXCEPT ![t] = IF @ = <<>> THEN @ ELSE Tail(@)]
          /\ cpc' = [cpc EXCEPT ![t] = "loop"]
          /\ UNCHANGED mtx
       \/ /\ cpc[t] = "wait"
          /\ mtx' = [mtx EXCEPT ![t] = "ctrl"]
          /\ cpc' = [cpc EXCEPT ![t] = "checked"]
          /\ UNCHANGED <<deque, delivered>>
    /\ UNCHANGED <<running, semaphore, wpc, notifying, emitted>>
    /\ UNCHANGED reportVars

\* Mutant: the `running` test done before the deque test, so the final
\* marker may overtake events still queued.
WaitCheckStoppedFirst(t) ==
    /\ cpc[t] \in {"wait", "woken"}
    /\ mtx[t] = "none"
    /\ \/ /\ ~running[t]
          /\ delivered' = [delivered EXCEPT ![t] = Append(@, TaskTerminated)]
          /\ cpc' = [cpc EXCEPT ![t] = "loop"]
          /\ UNCHANGED <<deque, mtx>>
       \/ /\ running[t]
          /\ deque[t] # <<>>
          /\ delivered' = [delivered EXCEPT ![t] = Append(@, Head(deque[t]))]
          /\ deque' = [deque EXCEPT ![t] = Tail(@)]
          /\ cpc' = [cpc EXCEPT ![t] = "loop"]
          /\ UNCHANGED mtx
       \/ /\ deque[t] = <<>>
          /\ running[t]
          /\ mtx' = [mtx EXCEPT ![t] = "ctrl"]
          /\ cpc' = [cpc EXCEPT ![t] = "checked"]
          /\ UNCHANGED <<deque, delivered>>
    /\ UNCHANGED <<running, semaphore, wpc, notifying, emitted>>
    /\ UNCHANGED reportVars

\* wait_for_next_event(): lock, evaluate the predicate of cond.wait(); if it
\* holds, pop the front event or, with an empty deque, return task_terminated.
WaitCheck(t) ==
    /\ cpc[t] \in {"wait", "woken"}
    /\ mtx[t] = "none"
    /\ \/ /\ deque[t] # <<>>
          /\ delivered' = [delivered EXCEPT ![t] = Append(@, Head(deque[t]))]
          /\ deque' = [deque EXCEPT ![t] = Tail(@)]
          /\ cpc' = [cpc EXCEPT ![t] = "loop"]
          /\ UNCHANGED mtx
       \/ /\ deque[t] = <<>>
          /\ ~running[t]
          /\ delivered' = [delivered EXCEPT ![t] = Append(@, TaskTerminated)]
          /\ cpc' = [cpc EXCEPT ![t] = "loop"]
          /\ UNCHANGED <<deque, mtx>>
       \/ /\ deque[t] = <<>>
          /\ running[t]
          /\ mtx' = [mtx EXCEPT ![t] = "ctrl"]
          /\ cpc' = [cpc EXCEPT ![t] = "checked"]
          /\ UNCHANGED <<deque, delivered>>
    /\ UNCHANGED <<running, semaphore, wpc, notifying, emitted>>
    /\ UNCHANGED reportVars

\* cond.wait(lock): atomically release the mutex and block.
CtrlBlock(t) ==
    /\ cpc[t] = "checked"
    /\ mtx' = [mtx EXCEPT ![t] = "none"]
    /\ cpc' = [cpc EXCEPT ![t] = "waiting"]
    /\ UNCHANGED <<running, deque, semaphore, wpc, notifying, emitted, delivered>>
    /\ UNCHANGED reportVars

\* cond.wait() returns without a notify, as std::condition_variable may;
\* the predicate form of the wait then re-checks (WaitCheck).
SpuriousWakeup(t) ==
    /\ cpc[t] = "waiting"
    /\ cpc' = [cpc EXCEPT ![t] = "woken"]
    /\ UNCHANGED <<running, deque, mtx, semaphore, wpc, notifying, emitted, delivered>>
    /\ UNCHANGED reportVars

\* ~Task(): join the worker thread.
Join(t) ==
    /\ cpc[t] = "join"
    /\ wpc[t] = "exited"
    /\ cpc' = [cpc EXCEPT ![t] = "gone"]
    /\ UNCHANGED <<running, deque, mtx, semaphore, wpc, notifying, emitted, delivered>>
    /\ UNCHANGED reportVars

-----------------------------------------------------------------------------
Next ==
    \E t \in Tasks :
        \/ ThreadStart(t) \/ EmitQueued(t) \/ Acquire(t) \/ BodyEmit(t)
        \/ BodyReturn(t) \/ Notify(t) \/ Release(t)
        \/ CtorReturn(t) \/ IsDone(t) \/ WaitCheck(t) \/ CtrlBlock(t) \/ Join(t)
        \/ SpuriousWakeup(t) \/ OpenReport(t) \/ ReportOpen(t)

\* Both threads are OS threads that the scheduler keeps running: weak
\* fairness on every step of either.  emit() blocks on TaskImpl::mutex,
\* which a controller woken spuriously over and over takes and releases
\* in turn, so the worker's emits are strongly fair: a thread blocked on a
\* mutex that is free infinitely often gets it.  A spurious wakeup may
\* happen but is never guaranteed, so it has no fairness.  open_report()
\* goes on to report.open() in the same call, so that step is weakly fair;
\* whether the body reaches open_report() at all is the body's choice.
Fairness ==
    \A t \in Tasks :
        /\ WF_vars(ThreadStart(t)) /\ SF_vars(EmitQueued(t))
        /\ WF_vars(Acquire(t)) /\ SF_vars(BodyEmit(t) \/ BodyReturn(t))
        /\ WF_vars(Notify(t)) /\ WF_vars(Release(t))
        /\ WF_vars(CtorReturn(t)) /\ WF_vars(IsDone(t))
        /\ WF_vars(WaitCheck(t)) /\ WF_vars(CtrlBlock(t)) /\ WF_vars(Join(t))
        /\ WF_vars(ReportOpen(t))

Spec == Init /\ [][Next]_vars /\ Fairness

-----------------------------------------------------------------------------
(* Properties                                                              *)

\* The events 1..n, in emission order.
Emitted(n) == [i \in 1..n |-> i]

\* The Task's event queue, seen through the worker's progress, as the
\* abstract channel of EventChannel.tla: the channel is open until
\* task_run() returns (running = false, engine.cpp), its queue is the
\* deque and its output what wait_for_next_event() returned.
Chan(t) == INSTANCE EventChannel
               WITH sent <- emitted[t], queue <- deque[t], out <- delivered[t],
                    open <- wpc[t] \in {"spawn", "queued", "acquire", "body"},
                    Terminated <- TaskTerminated

\* Every Task implements the FIFO channel: wait_for_next_event() returns
\* the pushed events once each and in emission order, and returns
\* task_terminated only after task_run() has returned and every event has
\* been taken (the queue is drained before the final marker,
\* engine.cpp:131-144), whatever the interleaving of emit(), the
\* unlocked `running = false` and the controller's predicate.
EventChannelRefined ==
    /\ \A t \in Tasks : Chan(t)!Init
    /\ [][\A t \in Tasks : [Chan(t)!Next]_(Chan(t)!chanVars)]_vars

\* Drain-before-done: when is_done() lets the controller stop polling, the
\* worker has returned from task_run and every event it emitted has been
\* handed to the controller (engine.cpp:111-117).
DoneMeansDrained ==
    \A t \in Tasks :
        cpc[t] \in {"join", "gone"} =>
            /\ wpc[t] \in {"release", "exited"}
            /\ SelectSeq(delivered[t], LAMBDA e : e # TaskTerminated) = Emitted(emitted[t])

\* At most one task body runs at any time (the static Semaphore), even
\* though each worker announces status.queued before taking it.
AtMostOneBody ==
    Cardinality({t \in Tasks : wpc[t] = "body"}) <= 1

\* No report is written over another file: from the moment
\* generate_output_filepath() has found a free name (runnable.cpp:334) to
\* the moment report.open() creates the file, no other task of the
\* process creates a file of that name, and no file an earlier run left
\* has it.  The check and the creation are separate steps; what keeps a
\* second task from creating the same name in between is the static
\* Semaphore around task_run().
NameStillFree ==
    \A t \in Tasks : rpc[t] = "generated" /\ path[t] \in Nat => path[t] \notin files

\* Every task body eventually runs and its thread exits: the semaphore is
\* released on every path, so no task starves behind another.
EveryTaskRuns ==
    \A t \in Tasks : <>(wpc[t] = "exited")

\* The controller's polling loop eventually ends and the Task is destroyed:
\* wait_for_next_event never blocks forever once the worker has stopped.
ControllerTerminates ==
    \A t \in Tasks : <>(cpc[t] = "gone")

=============================================================================
