\* The probe_ip override is a string that occurs in "[REDACTED]"; the
\* engine copies any non-empty string option (engine.cpp:358-368).  The
\* model stops following a scrub() loop whose string outgrows MaxText, so
\* the state where it does has no successor.
CONSTANTS
    RealIps <- MCRealIps
    Countries <- MCCountries
    MaxInfo = 3
    MaxCalls = 2
    OverrideIp = "RED"
    MaxText = 40
SPECIFICATION Spec
PROPERTY ScrubTerminates
CHECK_DEADLOCK FALSE
