# TLA+ models of the Measurement Kit task engine

These modules model the task engine of Measurement Kit (`src/src/libmeasurement_kit/engine.cpp`
and `src/src/libmeasurement_kit/nettests/runnable.cpp`) for the TLC model
checker. `PROJECT.json` lists every component, run, mutant, source mapping, finding
and hazard. This file explains them.

## 1. The system

A client creates a `mk::engine::Task` with a JSON settings object. Then it polls
`is_done()` / `wait_for_next_event()` until it receives `task_terminated`, and
destroys the Task. Several parts take part:

| Part | Source | State | Operations |
|---|---|---|---|
| Task / event queue | engine.cpp 41-151 | `TaskImpl`: deque, mutex, condition variable, atomic `running`, `interrupted`; process-wide static `Semaphore` | `Task()` (spawns the worker, waits on a promise barrier), worker lambda (status.queued, acquire, `task_run`, running=false, notify, release), `is_done`, `wait_for_next_event`, `interrupt`, `~Task` (join) |
| Dispatcher | engine.cpp 153-522 | the settings JSON, the Runnable under construction, the enabled-event set | shape check, shallow validation of known settings, removal of unknown keys, name lookup, copying of options/annotations/inputs/input_filepaths, log level, disabled events, logger routing; every fatal case emits `log` + `failure.startup` and returns |
| Run phase of `task_run` | engine.cpp 522-549 | `error`, the Task's reactor | status.started, `run_with_initial_event`, the `interrupted` check, `begin` → `end`, status.end |
| Runnable begin/end chain | runnable.cpp 164-479 | options, probe identity, the report, inputs | `query_bouncer`, `geoip_lookup`, `resolver_lookup`, `open_report`, `process_input_filepaths`, `mk::parallel` over `run_next_measurement`, `end` (report.close) |
| Measurement loop | runnable.cpp 39-162 | shared `inputs` FIFO, shared `current_entry`, per-worker measurement | pop + setup + measurement_start + `main`; main's callback (entry, teardown, `measurement` event, `write_entry`); write's callback (submission or failure, done, `call_soon` next) |
| Report | not under src/ (spec 4.3) | per-sink state | open / write_entry / close with fan-out and retry of the failed subset only |
| ooni utilities | ooni/utils.cpp | none | `scrub`, regex helpers, forwarding wrappers |
| mkgeoip | include/measurement_kit/vendor/mkgeoip.h, jni/vendor_mkgeoip_FFI.cpp | the Ubuntu parser's `probe_ip` string | `parser_new`, `get_probe_ip`, `parser_delete`, MMDB open / lookup of ASN, CC, organisation |
| Orchestrator client | ooni/orchestrate.cpp | the `Auth` record and its saved file; the `Client` metadata | `Auth::load`/`loads`/`dump`/`dumps`/`is_valid`; `Client::register_probe`/`find_location`/`update`, each run later on a worker thread |
| FFI/JNI, CLI helpers, legacy headers | jni/, measurement_kit/utils.cpp, ooni_test.hpp, ... | none of their own | marshalling, option tables, older API |

These parts interact across two threads. Each Task has a worker thread and a
controller thread (the caller of the API). The worker emits events into the
deque. The controller pops them. `interrupt()` is called from any thread and
stops the Task's reactor. The whole begin/end chain and the measurement loop
run as callbacks on that one reactor thread. "Parallelism" in the loop means
N logical workers whose callbacks interleave.

Hard behaviours in this code:
- the lost-wakeup window in the Task's condition-variable protocol;
- drain-before-done in `is_done`;
- the process-wide Semaphore;
- interrupt racing the reactor start and the callback chain;
- the combination of the errors of begin and close;
- interleaved parallel workers sharing one FIFO and one counter;
- the partial failure of one worker under `ignore_write_entry_error=false`;
- the retry semantics of the Report;
- stale probe state in `geoip_lookup`;
- the termination of `scrub`.

## 2. Modules

### Task.tla (engine.cpp 41-151, runnable.cpp 295-344)

This module models N tasks, each with a worker and a controller.

State:
- `running`, `deque`, `mtx` (the controller holds the mutex between its predicate check and `cond.wait`), `semaphore`;
- `wpc`/`cpc`, the program counters of the two threads;
- `notifying`, a `notify_all()` that is still to be issued after the unlock;
- the histories `emitted` and `delivered`.

An event is its emission rank. The body of `task_run` is abstracted to
"emit at least one and at most MaxEvents events". The model keeps one
step of the body whose effect outlives the task: `Runnable::open_report`.
- `OpenReport` takes the `output_filepath` of the settings (`UserPath`),
  or the first free name of `generate_output_filepath`. That is the
  recursive `FirstFree`, which tries idx 0, 1, ... while a file of that
  name exists.
- `ReportOpen` is `report.open()`. Its FileReporter creates the file
  unless `no_file_report` is set.

`files` holds the report files in the directory, starting with
`OldReports` from an earlier run. All tasks are taken to run the same test
in the same second, the case in which their generated names can collide,
so a name is its idx.

Actions, worker side:
- `ThreadStart`, `EmitQueued`, `Acquire`, `BodyEmit`, `BodyReturn`
  (`running=false` written without the mutex, then notify), `Notify`, `Release`.

Actions, controller side:
- `CtorReturn` (the promise barrier), `IsDone`, `WaitCheck` (lock, predicate,
  pop or `task_terminated`, or keep the lock and go to wait), `CtrlBlock`
  (`cond.wait` releases the lock and blocks), `SpuriousWakeup`, `Join`.

`SpuriousWakeup` is the fault `std::condition_variable` allows: `cond.wait`
returns without a notify. The code waits with its predicate, so the
controller goes back to `WaitCheck` and re-checks. No fairness is given to
it, because a spurious wakeup is allowed but never guaranteed.

Fairness is weak fairness on every step of each thread, because both are OS
threads. The worker's emits get strong fairness instead. A controller that
is woken spuriously again and again takes and releases `TaskImpl::mutex`
in turn, so a worker blocked in `emit()` is enabled only now and then. The
assumption is that a thread blocked on a mutex that is free infinitely
often eventually gets it. With weak fairness alone, TLC shows a task body
starving behind such a controller. `ReportOpen` is weakly fair because
`open_report` goes on to `report.open()` in the same call. `OpenReport`
has no fairness, because the body may fail before it gets there.

`EventChannel.tla` is the abstract promise of one Task's queue: a producer
`Put`s numbered events while open, the consumer `Take`s them in FIFO
order, `Close` ends production, and only a closed, empty channel yields
`Terminated`. `Task.tla` instantiates it once per task (`Chan(t)`), mapping
`sent`, `queue` and `out` to the task's `emitted`, `deque` and `delivered`,
and `open` to "the worker has not yet left `task_run`".
`EventChannelRefined` states that every step of the detailed model is a
step, or a stutter, of every task's channel.

### TaskRun.tla (engine.cpp 119-123 and 522-549; runnable.cpp 164-479)

This module models the run phase of `task_run` once the settings are valid.
The pc runs through status.started, the initial event, each step of begin's
chain, close, and a quiescing state until status.end.

State:
- `reactor` is idle, running or stopped;
- `interrupted` and `ipc` model the two halves of `interrupt()`, which may be
  called again at any time;
- `error` is `task_run`'s local;
- the histories `beginError`, `closeCalled` and `endFailure`.

Every callee is one step with the outcomes the code distinguishes:
- the bouncer fails or succeeds (an invalid `no_bouncer` fails even when the bouncer is skipped);
- geoip and resolver never fail;
- open fails fatally only when `ignore_open_report_error` is false;
- input files can fail;
- the loop ends with or without an error;
- close ends with or without an error.

A stopped reactor dispatches nothing more, and `run_with_initial_event`
returns (`EmitEnd`). `reactor->stop()` on a reactor that is not yet running
may be remembered or lost. The Reactor is outside src/, so both outcomes are
allowed. Fairness: the task thread keeps running the reactor
(`WF(TaskSteps)`), and a thread inside `interrupt()` finishes it
(`WF(InterruptFlag)`). Nobody is obliged to call `interrupt()`.

### Dispatcher.tla (engine.cpp 73-82, 153-549)

This module models every statement of `task_run` before the run:
- the shape check;
- `validate_known_settings_shallow`;
- `remove_unknown_settings_and_warn`;
- the name lookup;
- the loops over options, annotations, inputs, input_filepaths and
  disabled_events, one element per step;
- the two paths and log_level;
- the routing of the logger into `emit()`, then status.started.

After that, the Runnable may emit events through the routing, and the
module ends with status.end.

A settings object is a function from its keys to abstract JSON values, and
`Wrong` stands for a value of a type the position does not allow. An object
setting is the sequence of its values in key order. The `MK_ENUM_*` tables
are generated from `engine.h`, which is not in the repository, so they are
constants. The known settings are taken from spec section 6.

`Init` ranges over every settings object with at most `MaxKeys` keys, so
the pipeline is a deterministic function of its input. `StartupOutcome`
and `RunnableFromSettings` compare that step-by-step pipeline with a
declarative reading of the settings (`Acceptable`). No fairness is needed,
because only safety is checked.

### Geoip.tla (runnable.cpp 164-293)

This module models `geoip_lookup` over repeated calls. Its comment says the
reset at the top is there "when calling multiple times".

The options are fixed for a run:
- the three `save_real_probe_*` flags;
- whether each override is present;
- whether each database path is set.

Actions:
- `GeoipLookup`: reset, overrides, then either stash `real_probe_ip_` and
  return, or start `ip_lookup`;
- `IpLookupFailed`;
- `IpLookupDone`: `real_probe_ip_`, then the country and the ASN answers,
  each present or failed, with the first-space split of the ASN answer.

The callback uses the save flags that the call captured. History variables
record what this call's lookups found.

### Mkgeoip.tla (mkgeoip.h 101-268, vendor_mkgeoip_FFI.cpp 33-78)

This module models the Ubuntu parser as an object that outlives a call:
- `ParserNew`;
- `GetProbeIp`, with the tag search and the character loop `ScanIp` as a
  RECURSIVE operator;
- `ParserDelete`.

`ProbeIpOf` is the reference definition of the IP a response carries,
written without the parser.

It also models the MaxMind handle as the JNI bindings drive it. The state
is the Java side's `handle` ("0" or "open") and the handle's
`saved_string` (`saved`). The actions are:
- `MMDBOpen`: `mkgeoip_mmdb_open` (`MmdbOpen`) may fail and give 0;
- `MMDBLookupCC` and `MMDBLookupOrg`, through `JniLookupString`. The C
  lookup `LookupUtf8` / `MmdbLookupOrg` assigns `saved_string` on a hit
  and returns its `c_str()`, which `NewStringUTF` copies in the same step
  (`lastLookup` is the returned string);
- `MMDBLookupASN`: the uninitialised `int64_t rv` of a miss is a choice
  among `Garbage`;
- `MMDBClose`.

libmaxminddb is the constant `DB`, which gives each IP its answers or
`Null`. The MMDB actions are in the run so that every operation of the
handle is checked for its type; no property is stated about them, because
the wrappers copy the string before anything else can touch
`saved_string` and nothing under src/ keeps the pointer.

### Orchestrate.tla (ooni/orchestrate.cpp 40-69, 168-229)

Nothing under src/ calls the orchestrator API, so the caller is the
environment: it may `Load`, `Dump`, change its Client (`SetMeta`) or make
a `ClientCall` at any time, and the worker runs queued calls (`RunCall`) in
any order.

- The saved file is `NoFile` (`slurp` fails), `Garbage` (not JSON) or an
  object. `loads` assigns the keys in a fixed order and the first missing
  or ill-typed key throws, so an object is abstracted to the record it
  holds plus `good`, the number of keys that are usable before the first
  bad one. `Loads` keeps the fields assigned before the throw.
- `Dump` writes every key. `overwrite_file` is outside src/, so a failure
  leaves either the old file or a truncated one.
- A `ClientCall` queues a lambda holding a copy of the Client. `update`
  also moves the caller's Auth into it, which leaves the caller's strings
  empty (`Moved`).
- `do_register_probe`, `do_find_location` and `do_update` are outside
  src/. `RunCall` takes the call off the queue; what the server answers
  reaches nothing the model keeps.
- `is_valid` and `ClientMetadata::as_json` only read state, so they are
  not actions.

### MeasurementLoop.tla (runnable.cpp 39-162, 448-462)

`Parallelism` workers share `inputs` and `currentEntry`. Each worker is in
"next", "measuring" or "writing", or is "done".

Actions:
- `RunNext` has three disjuncts: budget exhausted, end of input, and pop +
  measurement_start.
- `MainDone` emits `measurement`.
- `WriteDone` has three disjuncts: submitted, tolerated failure, and fatal
  failure, which ends the worker with an error and emits no
  measurement_done.
- `Tick` moves the clock `now` (`time_now() - beginning`) to any later
  instant of `Instants` (only if `max_runtime` is set, since only the
  budget reads it). `OverBudget` is the test at line 47,
  `delta > max_rt - max_rt/10`, as `10 * now > 9 * maxRt`.

`Finish` is `mk::parallel`: begin's callback runs once the last worker has
called back, with an error if any did. This comes from the spec, because
`parallel.hpp` is not in the repository. All callbacks run on one reactor,
so each is atomic. Fairness is on the reactor's callbacks and not on `Tick`.

### Runnable.tla (runnable.cpp 406-464)

This module composes TaskRun and MeasurementLoop through two named
instances. The loop's callbacks (`LoopStep(w)`) run only while the chain
is at "loop" and the reactor is running, so an interrupt stops them too.
The callback in which the last worker calls back is the one in which
`mk::parallel` calls begin's callback, so the loop's outcome and
`TR!BeginCallback` happen in one step (`LoopError`). `Tick` may happen at
any time, because the clock starts in `begin`. Fairness: weak fairness on
the chain's own steps (not on `interrupt()`, which nobody is obliged to
call), on the second half of an `interrupt()` once begun, and on each
worker's callbacks. All are callbacks of the task thread's reactor, or an
OS thread that has entered `interrupt()`.

### Scrub.tla and ProbeScrub.tla (ooni/utils.cpp 65-71)

`Scrub.tla` models `scrub(s, ip)` as its loop: `ScrubCall` stores the
arguments, and each `ScrubStep` runs one iteration, `find` from `p`, then
`replace` with "[REDACTED]", keeping `p` at the match. `Redacted` is the
reference: the leftmost non-overlapping replacement of every occurrence,
written recursively. Strings are TLA+ strings, so `Find` and `Replace`
are `SubSeq` and `\o`. `MaxText` bounds the text; a step that would
exceed it goes to "cut", where the model stops following the loop.

`ProbeScrub.tla` composes it with Geoip.tla: after each `geoip_lookup`
call that has set `real_probe_ip_`, an entry containing that address
(`Entries`) is scrubbed with it, as the test code does before writing an
entry. The scrub runs synchronously, so `WF(ScrubLoop)` is justified.

## 3. Runs

| Run | Config | Checks | Result |
|---|---|---|---|
| task_safety | MC_Task.cfg: 2 tasks, 3 events each, one old report file (idx 0) | TypeOK, EventChannelRefined, DoneMeansDrained, AtMostOneBody, EveryTaskRuns, NameStillFree | pass |
| task_hang | MC_TaskHang.cfg: 1 task, 2 events | ControllerTerminates | **violation**: lost wakeup |
| runnable | MC_Runnable.cfg: 2 inputs, 2 workers, all options, max_runtime -1, 0 or 10, clock at 0, 9 or 10, interrupt anywhere | TypeOK, InputsTakenInOrderOnce, PerMeasurementOrder, LoopOutcome, ReportClosedUnlessInterrupted, TaskRunReturns, LoopTerminates | pass |
| loop_abort | MC_LoopAbort.cfg: ignore_write_entry_error=false | FatalWriteErrorStopsLoop | **violation**: other workers continue |
| taskrun_end | MC_TaskRunEnd.cfg | EndCarriesBeginError | **violation**: begin's error is overwritten |
| dispatcher | MC_Dispatcher.cfg: all known keys and one unknown, at most 3 per object, lists of up to 2 | TypeOK, StartupOutcome, RunnableFromSettings | pass |
| dispatcher_log | MC_DispatcherLog.cfg | LogDisabledSilencesLog | **violation**: warnings bypass disabled_events |
| geoip | MC_Geoip.cfg: all 256 option combinations, 2 calls, 2 addresses, ASN answers of up to 3 symbols, the probe_ip override an address, a scrub after each call | IdentityFromThisCall, ScrubRedacts, ScrubTerminates | pass |
| scrub_hang | MC_GeoipScrubHang.cfg: the probe_ip override contains "RED" | ScrubTerminates | **violation**: scrub never returns |
| mkgeoip_parse | MC_Mkgeoip.cfg: bodies of up to 4 symbols, one call; any sequence of MMDB open, lookups and close over a known and an unknown IP | TypeOK, FirstCallReturnsResponseIp | pass |
| mkgeoip_reuse | MC_MkgeoipReuse.cfg: two calls on one parser | EveryCallReturnsResponseIp | **violation**: probe_ip accumulates |
| orchestrate | MC_Orchestrate.cfg: one non-empty value per field, any starting Auth and file, two Client values, two calls | TypeOK, LoadRestoresDump | pass |

Findings:
1. **Lost wakeup (engine.cpp:104).** The controller checks the predicate
   (running, deque empty) and keeps the lock. The worker writes
   `running=false` without the lock and calls `notify_all()` before the
   controller waits. The controller then blocks in `cond.wait` forever.
2. **Fatal write errors do not abort the loop (runnable.cpp:145).** Only
   the failing worker calls back. The others keep popping inputs.
3. **status.end loses begin's error (engine.cpp:533).** The test
   `if (error != NoError()) error = err;` replaces a begin failure with
   close's result. It also drops a close failure after a successful begin.
4. **Warnings bypass disabled_events (engine.cpp:307, 495).** Warnings about
   unknown keys and unknown disabled events are pushed with `emit()` before
   the routing is set up. So `disabled_events: ["log"]` still yields `log`
   events, against spec scenario B.
5. **The mkgeoip parser accumulates (mkgeoip.h:148).** `probe_ip += ch` is
   never reset. A second call returns the first IP followed by the second.
6. **scrub() can loop forever (utils.cpp:67).** After a replacement the
   search restarts at the match, not after the marker. When the address
   occurs in "[REDACTED]" (here the override "RED"), every step finds a
   new occurrence inside the marker it just wrote and the text grows
   without end. With the empty address, `find` matches at `p` forever.
   The test code scrubs `real_probe_ip_`, which can be a `probe_ip`
   override the user chose.

Bounds:
- Two tasks with three events each are enough for the two bodies to
  contend for the Semaphore while events are queued on both sides of the
  stop. They are also enough for one task to create report idx 1 after an
  old idx 0, and for the other task to then have to skip both. A task with
  no_file_report or with a given path leaves its generated name free for
  the next task.
- Settings with up to three keys let a failure in one loop follow a
  successful copy in another. Lists of two let an element that is skipped
  (an empty option or an unknown event) precede one that is checked.
- Bodies of four symbols hold the two tags with up to two characters
  between them, before them or after them.
- Two inputs and two workers are enough for one worker to start a
  measurement while the other is between its main and its write callbacks,
  for either to see the end of input, and for an interrupt to land between
  any two callbacks. Three inputs took almost three minutes in the
  composition.
- A budget of 10 has its tolerance boundary at 9, so the clock instants
  0, 9 and 10 give a worker before, exactly at and past the boundary; a
  budget of 0 is spec scenario C. The model reaches the state where
  `max_runtime` is 0, the clock still reads 0 and the first input is
  measured (the test is strict); the spec says no input is measured, but
  whether `time_now()` can return the same value twice depends on code
  outside src/, so this is a hazard, not a finding.
- For the MaxMind handle, one IP with a different country code and
  organisation is enough for a lookup of one kind to follow a lookup of
  the other with a different `saved_string`. A second IP that misses
  leaves `saved_string` alone between two hits. The null ip, the 0 handle
  and close-then-reopen are all reached.
- For the orchestrator, one non-empty value per string field is enough:
  the empty value is what a move or a default leaves, so every field
  takes two values, and a partial load shows as a mix of the two. Two
  calls let a dump, a move or a partial load fall between two loads.
- Scrub texts of at most 40 characters hold an entry with two occurrences
  of an address of up to 10 characters after both are redacted; two
  addresses, one a prefix of the other ("10.0.0.1", "10.0.0.10"), make a
  partial match possible.

Each passing property has a mutant in `PROJECT.json`: a plausible bug in a
mapped definition that TLC catches with the run's own configuration. The
`TypeOK` of Geoip and of Scrub is defined but not checked, because no
plausible bug of that code breaks a type there.

Deadlock checking:
- The Task runs set `CHECK_DEADLOCK FALSE`, because the program really can
  stop there (finding 1).
- The other runs keep deadlock checking on. Where the code really stops,
  the model has an explicit stuttering step (`LoopDone`, `Ended`,
  `Returned`, `Finished`).

## 4. What is not modelled

- The Report class and its sinks: they are not under src/, so a model
  would check spec section 4.3 against itself. The loop and TaskRun model
  `open`, `write_entry` and `close` by the outcomes the code distinguishes.
- `parallelism` 0 (runnable.cpp:454): what `mk::parallel` does with no
  functions is in `parallel.hpp`, which is not in the repository.
- File-system races of `generate_output_filepath` (runnable.cpp:334) with
  another process: another process writing to the same directory is
  outside the program. Within one process `NameStillFree` checks that no
  other task takes the name between the check and the creation.
- Option and annotation numbers are one abstract value. An unsigned JSON
  integer above INT64_MAX wraps to a negative `int64_t` (engine.cpp:371,
  398). What the wrapped value does next depends on Scalar and
  `mk::range`, which are not in the repository, so this is listed as a
  hazard.
- The Task FFI and mkcurl JNI wrappers (src/jni): argument marshalling.
  `MMDBLookupASN` never releases the string it pins, a leak that is
  listed as a hazard.
- More than one Java caller of an MMDB handle, and a lookup through a
  handle after `MMDBClose`. The Java side is not in the repository and
  nothing under src/ shares or reuses a handle, so neither is a hazard
  of this code.
- The staleness of `probe_network_name` and `real_probe_ip_` across
  `geoip_lookup()` calls. Geoip.tla reaches it (an answer without a name,
  a skipped ASN lookup, a failed `ip_lookup()`), but only probe_ip,
  probe_asn and probe_cc are promised a reset (runnable.cpp:164-165), so
  no property asserts more; it is listed as a hazard.
- The mkcurl bindings and the CLI helpers (marshalling and option tables).
- `Auth::is_valid` and `ClientMetadata::as_json`, which only read state.
  `Client::list_tasks` and the `orchestrate::Task` methods only throw
  `NotImplementedError`.
- `extract_html_title`, `is_private_ipv4_addr` and `represent_string`
  (ooni/utils.cpp). They are regex, UTF-8 and base64 conversions that
  nothing under src/ calls. `resolver_lookup` and `find_location` there
  only forward to code outside src/.
- Two defects that are visible at a single line and need no sequence of
  steps, so they are hazards without a run:
  - `mkgeoip_mmdb_lookup_asn` returns its uninitialised `int64_t rv` on a
    miss (mkgeoip.h:233), although the header promises zero;
  - `Auth::loads` leaves the fields before a bad key overwritten
    (orchestrate.cpp:50). No comment or spec promises otherwise, so this
    is not a finding.
- The legacy headers, which are not called by the engine.
