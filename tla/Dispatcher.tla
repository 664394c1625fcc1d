----------------------------- MODULE Dispatcher -----------------------------
(***************************************************************************)
(* The settings pipeline of task_run() in                                  *)
(* src/src/libmeasurement_kit/engine.cpp: the shape check, the shallow     *)
(* validation of the known settings, the removal of unknown keys, the     *)
(* lookup of the task name, the element-wise copy of options,             *)
(* annotations, inputs and input_filepaths into the Runnable, log_level,  *)
(* disabled_events, and the routing of the logger's output into the       *)
(* task's event queue; then the events of the run, through that routing.  *)
(*                                                                         *)
(* A settings object is a function from its keys to abstract JSON values; *)
(* Wrong is a value of a JSON type the key does not allow.  An object     *)
(* (options, annotations) is the sequence of its values in key order;     *)
(* its i-th key is i.  The tables that engine.h generates with the        *)
(* MK_ENUM_* macros (known settings, tasks, log levels, events) are not   *)
(* in the repository; they are the CONSTANTS and definitions below, as    *)
(* the spec's section 6 lists them.                                       *)
(***************************************************************************)
EXTENDS Integers, Sequences, SequencesExt, FiniteSets, TLC

CONSTANTS
    Keys,       \* top-level keys a settings object may carry
    Names,      \* candidate values of "name"
    Tasks,      \* MK_ENUM_TASKS: the names make_runnable() knows
    LevelNames, \* candidate values of "log_level"
    LogLevels,  \* MK_ENUM_LOG_LEVELS
    Events,     \* MK_ENUM_EVENTS
    MaxKeys,    \* bound on the keys of one settings object
    MaxList,    \* bound on the length of a JSON array or object
    MaxRunEvents, \* bound on the events the Runnable emits while running
    Wrong,      \* a JSON value of a type the position does not allow
    NotObject   \* a settings value that is not a JSON object

\* MK_ENUM_SETTINGS: each known setting's JSON type; "name" is mandatory.
SettingType == [name |-> "string", options |-> "object", annotations |-> "object",
                inputs |-> "array", input_filepaths |-> "array",
                log_filepath |-> "string", output_filepath |-> "string",
                log_level |-> "string", disabled_events |-> "array"]
Known == DOMAIN SettingType
Mandatory == {"name"}

ASSUME /\ Tasks \subseteq Names /\ "WARNING" \in LogLevels
       /\ "log" \in Events /\ MaxKeys \in Nat /\ MaxList \in Nat /\ MaxRunEvents \in Nat

\* Values of an option or annotation: a string, the empty string, a
\* number (the integer and the float branch do the same), or another JSON
\* type.
OptionValues == {"str", "", "num", Wrong}

\* What a key may hold in the settings a client passes.
ValuesOf(k) ==
    CASE k = "name"      -> Names \cup {Wrong}
      [] k = "log_level" -> LevelNames \cup {Wrong}
      [] k \in {"log_filepath", "output_filepath"} -> {"path", Wrong}
      [] k \in {"options", "annotations"} -> SeqOf(OptionValues, MaxList) \cup {Wrong}
      [] k \in {"inputs", "input_filepaths"} -> SeqOf({"str", Wrong}, MaxList) \cup {Wrong}
      [] k = "disabled_events" -> SeqOf(Events \cup {"bogus", Wrong}, MaxList) \cup {Wrong}
      [] OTHER -> {"x"}

\* The JSON objects over exactly the keys D, each holding a value it may
\* hold.
RECURSIVE Objects(_)
Objects(D) ==
    IF D = {} THEN {<<>>}
    ELSE LET k == CHOOSE k \in D : TRUE
         IN {f @@ (k :> v) : f \in Objects(D \ {k}), v \in ValuesOf(k)}

\* The key sets of the settings objects considered.
KeySets == {D \in SUBSET Keys : Cardinality(D) <= MaxKeys}

\* An event in the queue: its key and, for "log", its severity.
Ev(k) == [key |-> k, level |-> "-"]
Log(l) == [key |-> "log", level |-> l]

Stages == {"shape", "validate", "remove", "name", "options", "annotations", "inputs",
           "input_filepaths", "paths", "log_level", "disabled_events", "route",
           "run", "returned"}

VARIABLES
    settings,  \* the settings JSON, as task_run() edits it
    pc,        \* the statement of task_run() that is next
    idx,       \* the index of the element the current loop is at
    deque,     \* events pushed to the task's queue by emit()
    runnable,  \* what has been copied into the Runnable
    enabled,   \* the enabled_events local
    logRouted, \* the logger's on_log callback emits "log" events
    routed,    \* events the logger's on_event_ex callbacks emit
    runEvents, \* events the Runnable has emitted through its logger
    given      \* history: the settings the client passed

vars == <<settings, pc, idx, deque, runnable, enabled, logRouted, routed, runEvents, given>>

NoRunnable == [name |-> "none", options |-> {}, annotations |-> {}, inputs |-> <<>>,
               inputFilepaths |-> <<>>, logfile |-> FALSE, output |-> FALSE,
               verbosity |-> "WARNING"]

TypeOK ==
    /\ settings = NotObject \/ DOMAIN settings \subseteq Keys
    /\ pc \in Stages
    /\ idx \in 1..MaxList + 1
    /\ deque \in Seq([key : Events \cup {"failure.startup"}, level : {"-", "ERR", "WARNING", "INFO"}])
    /\ runnable.options \subseteq (1..MaxList) \X {"str", "num"}
    /\ runnable.annotations \subseteq 1..MaxList
    /\ runnable.inputs \in SeqOf({"str"}, MaxList)
    /\ runnable.verbosity \in LogLevels \cup {"WARNING"}
    /\ enabled \subseteq Events /\ routed \subseteq Events
    /\ logRouted \in BOOLEAN
    /\ runEvents \in 0..MaxRunEvents

Init ==
    /\ \/ settings = NotObject
       \/ \E D \in KeySets : settings \in Objects(D)
    /\ given = settings
    /\ pc = "shape"
    /\ idx = 1
    /\ deque = <<>>
    /\ runnable = NoRunnable
    /\ enabled = Events
    /\ logRouted = FALSE
    /\ routed = {}
    /\ runEvents = 0

-----------------------------------------------------------------------------
(* Helpers of task_run()                                                   *)

\* emit_settings_failure(): a log event at MK_LOG_ERR, then failure.startup;
\* every caller returns at once.
Fail ==
    /\ deque' = deque \o <<Log("ERR"), Ev("failure.startup")>>
    /\ pc' = "returned"

\* emit_settings_warning(): a log event at MK_LOG_WARNING.
Warn == Log("WARNING")

\* The loop over an array or object setting at stage `st`: with no such
\* setting, or past its last element, go on to stage `next`.
LoopDone(st, next) ==
    /\ pc = st
    /\ ~(st \in DOMAIN settings /\ idx <= Len(settings[st]))
    /\ pc' = next
    /\ idx' = 1

\* The element the loop at stage `st` is at.
Elem(st) ==
    /\ pc = st
    /\ st \in DOMAIN settings
    /\ idx <= Len(settings[st])

Elt(st) == settings[st][idx]

\* The warnings validate_known_settings_shallow() emits: one for a missing
\* mandatory setting and one for each known setting of the wrong type.
ValidationWarnings(s) ==
    Cardinality({k \in Mandatory : k \notin DOMAIN s})
      + Cardinality({k \in DOMAIN s \cap Known : s[k] = Wrong})

-----------------------------------------------------------------------------
(* The statements of task_run()                                            *)

\* `settings` must be a JSON object.
CheckShape ==
    /\ pc = "shape"
    /\ \/ /\ settings = NotObject
          /\ Fail
       \/ /\ settings # NotObject
          /\ pc' = "validate"
          /\ UNCHANGED deque
    /\ UNCHANGED <<settings, idx, runnable, enabled, logRouted, routed, runEvents, given>>

\* validate_known_settings_shallow() warns about every missing mandatory
\* and every mistyped known setting; any of them fails the task.
ValidateShallow ==
    /\ pc = "validate"
    /\ LET n == ValidationWarnings(settings)
           ws == [i \in 1..n |-> Warn]
       IN \/ /\ n > 0
             /\ deque' = deque \o ws \o <<Log("ERR"), Ev("failure.startup")>>
             /\ pc' = "returned"
          \/ /\ n = 0
             /\ pc' = "remove"
             /\ UNCHANGED deque
    /\ UNCHANGED <<settings, idx, runnable, enabled, logRouted, routed, runEvents, given>>

\* remove_unknown_settings_and_warn(): a warning per unknown key, then the
\* unknown keys are erased.
RemoveUnknown ==
    /\ pc = "remove"
    /\ LET unexpected == DOMAIN settings \ Known
       IN /\ deque' = deque \o [i \in 1..Cardinality(unexpected) |-> Warn]
          /\ settings' = Restrict(settings, DOMAIN settings \cap Known)
    /\ pc' = "name"
    /\ UNCHANGED <<idx, runnable, enabled, logRouted, routed, runEvents, given>>

\* make_runnable(): a known task name, or a failure.
MakeRunnable ==
    /\ pc = "name"
    /\ \/ /\ settings["name"] \in Tasks
          /\ runnable' = [runnable EXCEPT !.name = settings["name"]]
          /\ pc' = "options"
          /\ UNCHANGED deque
       \/ /\ settings["name"] \notin Tasks
          /\ Fail
          /\ UNCHANGED runnable
    /\ UNCHANGED <<settings, idx, enabled, logRouted, routed, runEvents, given>>

\* Mutant: the empty string is stored like any other string.
CopyOptionKeepsEmpty ==
    /\ Elem("options")
    /\ \/ /\ Elt("options") \in {"str", "", "num"}
          /\ runnable' = [runnable EXCEPT !.options = @ \cup {<<idx, Elt("options")>>}]
          /\ idx' = idx + 1
          /\ UNCHANGED <<pc, deque>>
       \/ /\ Elt("options") = Wrong
          /\ Fail
          /\ UNCHANGED <<idx, runnable>>
    /\ UNCHANGED <<settings, enabled, logRouted, routed, runEvents, given>>

\* Mutant: an option of another type is reported, but the loop goes on.
CopyOptionNoReturn ==
    /\ Elem("options")
    /\ \/ /\ Elt("options") = ""
          /\ idx' = idx + 1
          /\ UNCHANGED <<pc, deque, runnable>>
       \/ /\ Elt("options") \in {"str", "num"}
          /\ runnable' = [runnable EXCEPT !.options = @ \cup {<<idx, Elt("options")>>}]
          /\ idx' = idx + 1
          /\ UNCHANGED <<pc, deque>>
       \/ /\ Elt("options") = Wrong
          /\ deque' = deque \o <<Log("ERR"), Ev("failure.startup")>>
          /\ idx' = idx + 1
          /\ UNCHANGED <<pc, runnable>>
    /\ UNCHANGED <<settings, enabled, logRouted, routed, runEvents, given>>

\* One option: an empty string is skipped, a string, integer or float is
\* stored under its key, any other type fails the task.
CopyOption ==
    /\ Elem("options")
    /\ \/ /\ Elt("options") = ""
          /\ idx' = idx + 1
          /\ UNCHANGED <<pc, deque, runnable>>
       \/ /\ Elt("options") \in {"str", "num"}
          /\ runnable' = [runnable EXCEPT !.options = @ \cup {<<idx, Elt("options")>>}]
          /\ idx' = idx + 1
          /\ UNCHANGED <<pc, deque>>
       \/ /\ Elt("options") = Wrong
          /\ Fail
          /\ UNCHANGED <<idx, runnable>>
    /\ UNCHANGED <<settings, enabled, logRouted, routed, runEvents, given>>

OptionsDone ==
    /\ LoopDone("options", "annotations")
    /\ UNCHANGED <<settings, deque, runnable, enabled, logRouted, routed, runEvents, given>>

\* One annotation: a string is stored, an integer or a float is stored as
\* its std::to_string(), any other type fails the task.
CopyAnnotation ==
    /\ Elem("annotations")
    /\ \/ /\ Elt("annotations") \in {"str", "", "num"}
          /\ runnable' = [runnable EXCEPT !.annotations = @ \cup {idx}]
          /\ idx' = idx + 1
          /\ UNCHANGED <<pc, deque>>
       \/ /\ Elt("annotations") = Wrong
          /\ Fail
          /\ UNCHANGED <<idx, runnable>>
    /\ UNCHANGED <<settings, enabled, logRouted, routed, runEvents, given>>

AnnotationsDone ==
    /\ LoopDone("annotations", "inputs")
    /\ UNCHANGED <<settings, deque, runnable, enabled, logRouted, routed, runEvents, given>>

\* One input: a string is appended to the Runnable's inputs, any other
\* type fails the task.
CopyInput ==
    /\ Elem("inputs")
    /\ \/ /\ Elt("inputs") = "str"
          /\ runnable' = [runnable EXCEPT !.inputs = Append(@, Elt("inputs"))]
          /\ idx' = idx + 1
          /\ UNCHANGED <<pc, deque>>
       \/ /\ Elt("inputs") = Wrong
          /\ Fail
          /\ UNCHANGED <<idx, runnable>>
    /\ UNCHANGED <<settings, enabled, logRouted, routed, runEvents, given>>

InputsDone ==
    /\ LoopDone("inputs", "input_filepaths")
    /\ UNCHANGED <<settings, deque, runnable, enabled, logRouted, routed, runEvents, given>>

\* One input file path, the same way.
CopyInputFilepath ==
    /\ Elem("input_filepaths")
    /\ \/ /\ Elt("input_filepaths") = "str"
          /\ runnable' = [runnable EXCEPT !.inputFilepaths = Append(@, Elt("input_filepaths"))]
          /\ idx' = idx + 1
          /\ UNCHANGED <<pc, deque>>
       \/ /\ Elt("input_filepaths") = Wrong
          /\ Fail
          /\ UNCHANGED <<idx, runnable>>
    /\ UNCHANGED <<settings, enabled, logRouted, routed, runEvents, given>>

InputFilepathsDone ==
    /\ LoopDone("input_filepaths", "paths")
    /\ UNCHANGED <<settings, deque, runnable, enabled, logRouted, routed, runEvents, given>>

\* log_filepath and output_filepath are copied when present.
CopyPaths ==
    /\ pc = "paths"
    /\ runnable' = [runnable EXCEPT !.logfile = "log_filepath" \in DOMAIN settings,
                                    !.output = "output_filepath" \in DOMAIN settings]
    /\ pc' = "log_level"
    /\ UNCHANGED <<settings, idx, deque, enabled, logRouted, routed, runEvents, given>>

\* log_level_atoi(): whether a name is one of MK_ENUM_LOG_LEVELS.
LogLevelAtoi(s) == s \in LogLevels

\* is_event_valid(): whether a name is one of MK_ENUM_EVENTS.
IsEventValid(s) == s \in Events

\* Mutant: a known log_level is checked but never applied.
SetLogLevelIgnored ==
    /\ pc = "log_level"
    /\ \/ /\ ~("log_level" \in DOMAIN settings /\ ~LogLevelAtoi(settings["log_level"]))
          /\ runnable' = [runnable EXCEPT !.verbosity = "WARNING"]
          /\ pc' = "disabled_events"
          /\ UNCHANGED deque
       \/ /\ "log_level" \in DOMAIN settings
          /\ ~LogLevelAtoi(settings["log_level"])
          /\ Fail
          /\ UNCHANGED runnable
    /\ UNCHANGED <<settings, idx, enabled, logRouted, routed, runEvents, given>>

\* log_level: MK_LOG_WARNING unless given; a name log_level_atoi() does not
\* know fails the task.
SetLogLevel ==
    /\ pc = "log_level"
    /\ \/ /\ "log_level" \notin DOMAIN settings
          /\ runnable' = [runnable EXCEPT !.verbosity = "WARNING"]
          /\ pc' = "disabled_events"
          /\ UNCHANGED deque
       \/ /\ "log_level" \in DOMAIN settings
          /\ LogLevelAtoi(settings["log_level"])
          /\ runnable' = [runnable EXCEPT !.verbosity = settings["log_level"]]
          /\ pc' = "disabled_events"
          /\ UNCHANGED deque
       \/ /\ "log_level" \in DOMAIN settings
          /\ ~LogLevelAtoi(settings["log_level"])
          /\ Fail
          /\ UNCHANGED runnable
    /\ UNCHANGED <<settings, idx, enabled, logRouted, routed, runEvents, given>>

\* One entry of disabled_events: a non-string fails the task, an unknown
\* event name is warned about and skipped, a known one is disabled.
DisableEvent ==
    /\ Elem("disabled_events")
    /\ \/ /\ Elt("disabled_events") = Wrong
          /\ Fail
          /\ UNCHANGED <<idx, enabled>>
       \/ /\ IsEventValid(Elt("disabled_events"))
          /\ enabled' = enabled \ {Elt("disabled_events")}
          /\ idx' = idx + 1
          /\ UNCHANGED <<pc, deque>>
       \/ /\ Elt("disabled_events") # Wrong /\ ~IsEventValid(Elt("disabled_events"))
          /\ deque' = Append(deque, Warn)
          /\ idx' = idx + 1
          /\ UNCHANGED <<pc, enabled>>
    /\ UNCHANGED <<settings, runnable, logRouted, routed, runEvents, given>>

DisabledEventsDone ==
    /\ LoopDone("disabled_events", "route")
    /\ UNCHANGED <<settings, deque, runnable, enabled, logRouted, routed, runEvents, given>>

\* The logger's on_log callback emits "log" events when "log" is enabled;
\* an on_event_ex callback is installed for every other enabled event;
\* then the logger emits status.started.
Route ==
    /\ pc = "route"
    /\ logRouted' = ("log" \in enabled)
    /\ routed' = enabled \ {"log"}
    /\ deque' = IF "status.started" \in routed' THEN Append(deque, Ev("status.started")) ELSE deque
    /\ pc' = "run"
    /\ UNCHANGED <<settings, idx, runnable, enabled, runEvents, given>>

\* While the task runs, the Runnable's logger emits a log line (which its
\* verbosity lets through) or an event; emit() queues what is routed.
RunnableEmit ==
    /\ pc = "run"
    /\ runEvents < MaxRunEvents
    /\ \E e \in Events \ {"status.started", "status.end"} :
          deque' = IF e = "log"
                   THEN IF logRouted THEN Append(deque, Log("INFO")) ELSE deque
                   ELSE IF e \in routed THEN Append(deque, Ev(e)) ELSE deque
    /\ runEvents' = runEvents + 1
    /\ UNCHANGED <<settings, pc, idx, runnable, enabled, logRouted, routed, given>>

\* run_with_initial_event() returns; the logger emits status.end.
RunEnd ==
    /\ pc = "run"
    /\ deque' = IF "status.end" \in routed THEN Append(deque, Ev("status.end")) ELSE deque
    /\ pc' = "returned"
    /\ UNCHANGED <<settings, idx, runnable, enabled, logRouted, routed, runEvents, given>>

\* task_run() has returned.
Returned ==
    /\ pc = "returned"
    /\ UNCHANGED vars

Next ==
    \/ CheckShape \/ ValidateShallow \/ RemoveUnknown \/ MakeRunnable
    \/ CopyOption \/ OptionsDone \/ CopyAnnotation \/ AnnotationsDone
    \/ CopyInput \/ InputsDone \/ CopyInputFilepath \/ InputFilepathsDone
    \/ CopyPaths \/ SetLogLevel \/ DisableEvent \/ DisabledEventsDone
    \/ Route \/ RunnableEmit \/ RunEnd \/ Returned

Spec == Init /\ [][Next]_vars

-----------------------------------------------------------------------------
(* Properties                                                              *)

\* The settings are acceptable, read without the pipeline: an object whose
\* known keys have their types, with a name make_runnable() knows, options
\* and annotations of scalar values, string inputs and input file paths, a
\* known log level, and string entries in disabled_events.
Acceptable(s) ==
    /\ s # NotObject
    /\ Mandatory \subseteq DOMAIN s
    /\ \A k \in DOMAIN s \cap Known : s[k] # Wrong
    /\ s["name"] \in Tasks
    /\ \A k \in DOMAIN s \cap {"options", "annotations", "inputs",
                               "input_filepaths", "disabled_events"} :
          \A i \in 1..Len(s[k]) : s[k][i] # Wrong
    /\ "log_level" \in DOMAIN s => s["log_level"] \in LogLevels

FailureCount == Cardinality({i \in 1..Len(deque) : deque[i].key = "failure.startup"})

\* Every path of task_run() that returns early (the shape check, the
\* shallow validation, an unknown name, and the type checks inside the
\* options, annotations, inputs, input_filepaths, log_level and
\* disabled_events loops) emits exactly one failure.startup, as the last
\* event, right after a log event at error level, and the task never
\* starts; acceptable settings emit none and start it.
StartupOutcome ==
    pc = "returned" =>
      IF Acceptable(given)
      THEN FailureCount = 0 /\ runnable.name \in Tasks /\ enabled \subseteq routed \cup {"log"}
      ELSE /\ FailureCount = 1
           /\ Last(deque) = Ev("failure.startup")
           /\ deque[Len(deque) - 1] = Log("ERR")
           /\ routed = {} /\ ~logRouted

\* What reaches the Runnable once the task runs: every option that is a
\* non-empty string, an integer or a float under its own key, every
\* annotation, the inputs and input file paths in order, and the
\* verbosity given; the enabled events are the known ones less every known
\* entry of disabled_events.
RunnableFromSettings ==
    pc = "run" =>
      LET field(k) == IF k \in DOMAIN given THEN given[k] ELSE <<>>
      IN /\ runnable.options = {<<i, field("options")[i]>> :
                                  i \in {j \in DOMAIN field("options") : field("options")[j] # ""}}
         /\ runnable.annotations = DOMAIN field("annotations")
         /\ runnable.inputs = field("inputs")
         /\ runnable.inputFilepaths = field("input_filepaths")
         /\ runnable.verbosity = IF "log_level" \in DOMAIN given THEN given["log_level"] ELSE "WARNING"
         /\ enabled = Events \ ToSet(field("disabled_events"))

\* Spec section 8, scenario B: disabled_events ["log"] results in zero
\* "log" events, whatever the verbosity.
LogDisabledSilencesLog ==
    pc \in {"run", "returned"} /\ FailureCount = 0 /\ "log" \notin enabled =>
        \A i \in 1..Len(deque) : deque[i].key # "log"

=============================================================================
