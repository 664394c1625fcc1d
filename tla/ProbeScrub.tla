------------------------------ MODULE ProbeScrub ------------------------------
(***************************************************************************)
(* Geoip.tla composed with Scrub.tla: geoip_lookup() stores the address   *)
(* to scrub in options["real_probe_ip_"] (runnable.cpp:202 and :227),     *)
(* and a test later calls mk::ooni::scrub() on a string of its entry with *)
(* that option.  scrub() is synchronous and runs on the reactor thread,   *)
(* so no geoip_lookup() step happens while a scrub loop runs.  The        *)
(* strings a test scrubs are modelled by the ways the address can occur   *)
(* in them: twice, with text between or back to back.                     *)
(***************************************************************************)
EXTENDS Naturals, Sequences

CONSTANTS RealIps, Countries, MaxInfo, MaxCalls, OverrideIp, MaxText

VARIABLES
    opts, pc, save, probe, networkName, realIp, calls, found, country, info,
    text, pos, ip, orig, spc

G == INSTANCE Geoip
S == INSTANCE Scrub

geoipVars == <<opts, pc, save, probe, networkName, realIp, calls, found, country, info>>
scrubVars == <<text, pos, ip, orig, spc>>
vars == <<geoipVars, scrubVars>>

\* Strings of an entry in which the address x occurs.
Entries(x) == {x \o "," \o x, x \o x}

Init == G!Init /\ S!Init

\* A geoip_lookup() step, between two scrub() calls.
GeoipStep ==
    /\ spc \in {"idle", "returned"}
    /\ G!Next
    /\ UNCHANGED scrubVars

\* A test scrubs a string with options["real_probe_ip_"].
Scrub ==
    /\ realIp # "none"
    /\ \E s \in Entries(realIp) : S!ScrubCall(s, realIp)
    /\ UNCHANGED geoipVars

\* An iteration of scrub()'s loop, or its return.
ScrubLoop ==
    /\ S!ScrubStep
    /\ UNCHANGED geoipVars

Next == GeoipStep \/ Scrub \/ ScrubLoop

\* The reactor thread runs scrub() to its end once it is called.
Spec == Init /\ [][Next]_vars /\ WF_vars(ScrubLoop)

-----------------------------------------------------------------------------
(* Properties                                                              *)

\* geoip_lookup()'s identity comes from the current call alone (Geoip.tla).
IdentityFromThisCall == G!IdentityFromThisCall

\* When scrub() returns, every occurrence of the address geoip_lookup()
\* stored, including back-to-back ones, has been replaced once by
\* "[REDACTED]": the loop that rescans from the marker it has just written
\* gives the left-to-right, non-overlapping replacement.
ScrubRedacts ==
    spc = "returned" => text = S!Redacted(orig, ip)

\* scrub() returns on the entry of whatever address geoip_lookup() stored
\* in real_probe_ip_: the loop never rewrites the marker it has written.
\* It holds for the addresses ip_lookup() returns and an override that
\* does not occur in "[REDACTED]" (run geoip); an override that does
\* occur in it makes the loop grow the text forever (run scrub_hang).
ScrubTerminates ==
    [](spc = "loop" => <>(spc = "returned"))

=============================================================================
