---------------------------- MODULE MC_Dispatcher ----------------------------
(* Instantiates Dispatcher.tla with two task names (one known), two log   *)
(* level names (one known) and three event keys.                          *)
EXTENDS Dispatcher

MCNames == {"Foo", "Bar"}
MCTasks == {"Foo"}
MCLevelNames == {"INFO", "LOUD"}
MCLogLevels == {"INFO", "WARNING"}
MCEvents == {"log", "status.started", "status.end"}

\* Every known setting and one unknown key.
MCKeys == {"name", "options", "annotations", "inputs", "input_filepaths", "log_filepath",
           "output_filepath", "log_level", "disabled_events", "extra"}
=============================================================================
