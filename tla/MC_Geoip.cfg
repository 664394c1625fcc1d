\* Every combination of options, two calls, every lookup outcome, and a
\* scrub() of the entry after each; the probe_ip override is an address.
CONSTANTS
    RealIps <- MCRealIps
    Countries <- MCCountries
    MaxInfo = 3
    MaxCalls = 2
    OverrideIp = "192.0.2.1"
    MaxText = 40
SPECIFICATION Spec
INVARIANT IdentityFromThisCall
INVARIANT ScrubRedacts
PROPERTY ScrubTerminates
