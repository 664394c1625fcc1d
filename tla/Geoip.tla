------------------------------- MODULE Geoip --------------------------------
(***************************************************************************)
(* Runnable::geoip_lookup() in src/src/libmeasurement_kit/nettests/       *)
(* runnable.cpp: the probe identity (probe_ip, probe_asn, probe_cc,       *)
(* probe_network_name) and the real_probe_ip_ option, over repeated calls *)
(* (the code resets the identity "when calling multiple times").          *)
(*                                                                         *)
(* The options are fixed for a run: the three save_real_probe_* flags,    *)
(* whether each probe_* override is present, and whether the two         *)
(* database paths are set.  A call resets the identity, applies the       *)
(* overrides, and either finishes at once or starts ip_lookup(), whose    *)
(* callback (capturing the save flags by value) runs later on the         *)
(* reactor.  The ASN database answers "<asn> <network name>"; an answer   *)
(* is a short sequence over "a" and " ".                                  *)
(***************************************************************************)
EXTENDS Naturals, Sequences, SequencesExt

CONSTANTS
    RealIps,   \* addresses ip_lookup() may find
    Countries, \* country codes the country database may answer
    MaxInfo,   \* bound on the length of an ASN database answer
    MaxCalls,  \* bound on the geoip_lookup() calls
    OverrideIp \* the value of the "probe_ip" option, when present

Default == [ip |-> "127.0.0.1", asn |-> <<"A", "S", "0">>, cc |-> "ZZ"]
Override == [ip |-> OverrideIp, asn |-> <<"o", "v">>, cc |-> "OV"]
Space == " "
AsnInfos == SeqOf({"a", Space}, MaxInfo)

\* Options of the Runnable that geoip_lookup() reads.
OptionSets == [saveIp : BOOLEAN, saveAsn : BOOLEAN, saveCc : BOOLEAN,
               ovIp : BOOLEAN, ovAsn : BOOLEAN, ovCc : BOOLEAN,
               countryPath : BOOLEAN, asnPath : BOOLEAN]

VARIABLES
    opts,        \* the options
    pc,          \* "idle", "lookup" (ip_lookup() in flight) or "done"
    save,        \* the save flags the pending callback captured
    probe,       \* [ip, asn, cc] of the Runnable
    networkName, \* probe_network_name
    realIp,      \* options["real_probe_ip_"], "none" until set
    calls,       \* geoip_lookup() calls so far
    found,       \* history: this call's ip_lookup() result, "none" if none
    country,     \* history: this call's country answer, {} if none
    info         \* history: this call's ASN database answer, {} if none

vars == <<opts, pc, save, probe, networkName, realIp, calls, found, country, info>>

TypeOK ==
    /\ opts \in OptionSets
    /\ pc \in {"idle", "lookup", "done"}
    /\ save \in [ip : BOOLEAN, asn : BOOLEAN, cc : BOOLEAN]
    /\ probe.ip \in {Default.ip, Override.ip} \cup RealIps
    /\ probe.cc \in {Default.cc, Override.cc} \cup Countries
    /\ probe.asn \in {Default.asn, Override.asn} \cup AsnInfos
    /\ networkName \in AsnInfos
    /\ realIp \in {"none", Default.ip, Override.ip} \cup RealIps
    /\ calls \in 0..MaxCalls

Init ==
    /\ opts \in OptionSets
    /\ pc = "idle"
    /\ save = [ip |-> FALSE, asn |-> FALSE, cc |-> FALSE]
    /\ probe = Default
    /\ networkName = <<>>
    /\ realIp = "none"
    /\ calls = 0
    /\ found = "none"
    /\ country = {}
    /\ info = {}

-----------------------------------------------------------------------------
(* Operations                                                              *)

\* Mutant: probe_network_name = asninfo.substr(p), the space kept.
SplitAsnNameWithSpace(a, old) ==
    LET p == SelectInSeq(a, LAMBDA c : c = Space)
    IN IF p = 0 THEN [asn |-> a, name |-> old]
       ELSE [asn |-> SubSeq(a, 1, p - 1),
             name |-> IF Len(a) > p THEN SubSeq(a, p, Len(a)) ELSE old]

\* The first-space split of an ASN answer: probe_asn is the text before
\* the space; probe_network_name the text after it, when there is any.
SplitAsn(a, old) ==
    LET p == SelectInSeq(a, LAMBDA c : c = Space)
    IN IF p = 0 THEN [asn |-> a, name |-> old]
       ELSE [asn |-> SubSeq(a, 1, p - 1),
             name |-> IF Len(a) > p THEN SubSeq(a, p + 1, Len(a)) ELSE old]

\* The options geoip_lookup() reads at a call: the save flags, less those
\* an override satisfies.
SaveFlags(o) == [ip |-> o.saveIp /\ ~o.ovIp, asn |-> o.saveAsn /\ ~o.ovAsn,
                 cc |-> o.saveCc /\ ~o.ovCc]

\* The identity after the reset and the overrides.
Overridden(o) ==
    [ip  |-> IF o.saveIp /\ o.ovIp THEN Override.ip ELSE Default.ip,
     asn |-> IF o.saveAsn /\ o.ovAsn THEN Override.asn ELSE Default.asn,
     cc  |-> IF o.saveCc /\ o.ovCc THEN Override.cc ELSE Default.cc]

\* Mutant: probe_asn is not reset at the start of a call.
GeoipLookupNoAsnReset ==
    /\ pc \in {"idle", "done"}
    /\ calls < MaxCalls
    /\ LET s == SaveFlags(opts)
           p == [Overridden(opts) EXCEPT !.asn = IF opts.saveAsn /\ opts.ovAsn
                                                  THEN Override.asn ELSE probe.asn]
       IN /\ probe' = p
          /\ save' = s
          /\ \/ /\ ~s.ip /\ ~s.asn /\ ~s.cc
                /\ realIp' = p.ip
                /\ pc' = "done"
             \/ /\ s.ip \/ s.asn \/ s.cc
                /\ pc' = "lookup"
                /\ UNCHANGED realIp
    /\ calls' = calls + 1
    /\ found' = "none" /\ country' = {} /\ info' = {}
    /\ UNCHANGED <<opts, networkName>>

\* geoip_lookup(): reset the identity, apply the overrides; with nothing
\* left to save, stash probe_ip as real_probe_ip_ and call back; else
\* start ip_lookup().
GeoipLookup ==
    /\ pc \in {"idle", "done"}
    /\ calls < MaxCalls
    /\ LET s == SaveFlags(opts)
           p == Overridden(opts)
       IN /\ probe' = p
          /\ save' = s
          /\ \/ /\ ~s.ip /\ ~s.asn /\ ~s.cc
                /\ realIp' = p.ip
                /\ pc' = "done"
             \/ /\ s.ip \/ s.asn \/ s.cc
                /\ pc' = "lookup"
                /\ UNCHANGED realIp
    /\ calls' = calls + 1
    /\ found' = "none" /\ country' = {} /\ info' = {}
    /\ UNCHANGED <<opts, networkName>>

\* ip_lookup() fails: two warnings, then the callback.
IpLookupFailed ==
    /\ pc = "lookup"
    /\ pc' = "done"
    /\ UNCHANGED <<opts, save, probe, networkName, realIp, calls, found, country, info>>

\* ip_lookup() finds ip: probe_ip if saving it, real_probe_ip_ always; then
\* the country and the ASN databases when their flag and path are set and
\* the GeoipCache instance exists; a failed resolution leaves the value.
IpLookupDone ==
    /\ pc = "lookup"
    /\ \E ip \in RealIps, inst \in BOOLEAN, ccOk \in BOOLEAN, c \in Countries,
          asnOk \in BOOLEAN, a \in AsnInfos :
         LET useCc == save.cc /\ opts.countryPath /\ inst /\ ccOk
             useAsn == save.asn /\ opts.asnPath /\ inst /\ asnOk
             split == SplitAsn(a, networkName)
         IN /\ probe' = [ip |-> IF save.ip THEN ip ELSE probe.ip,
                          cc |-> IF useCc THEN c ELSE probe.cc,
                          asn |-> IF useAsn THEN split.asn ELSE probe.asn]
            /\ networkName' = IF useAsn THEN split.name ELSE networkName
            /\ realIp' = ip
            /\ found' = ip
            /\ country' = IF useCc THEN {c} ELSE {}
            /\ info' = IF useAsn THEN {a} ELSE {}
    /\ pc' = "done"
    /\ UNCHANGED <<opts, save, calls>>

\* No more calls.
Finished ==
    /\ pc = "done"
    /\ calls = MaxCalls
    /\ UNCHANGED vars

Next == GeoipLookup \/ IpLookupFailed \/ IpLookupDone \/ Finished

Spec == Init /\ [][Next]_vars

-----------------------------------------------------------------------------
(* Properties                                                              *)

\* The ASN part of a database answer, read declaratively: the prefix
\* without a space that is the whole answer or is followed by a space.
AsnPartOf(a) ==
    CHOOSE x \in {SubSeq(a, 1, n) : n \in 0..Len(a)} :
        /\ \A i \in 1..Len(x) : x[i] # Space
        /\ Len(x) = Len(a) \/ a[Len(x) + 1] = Space

\* The network name of a database answer, read declaratively: the
\* non-empty text that follows the ASN part and one space.
NamesOf(a) ==
    {y \in {SubSeq(a, n, Len(a)) : n \in 1..Len(a)} : a = AsnPartOf(a) \o <<Space>> \o y}

\* After every geoip_lookup() call the identity comes from that call
\* alone: the override when its save flag is set, else what this call's
\* lookups found (the IP only when save_real_probe_ip is set), else the
\* sentinel; never a value left over from an earlier call.  In particular
\* the real IP reaches probe_ip, and so the report, only on request.  An
\* answer "<asn> <name>" of this call gives both halves: the ASN before the
\* first space and the network name after it.
IdentityFromThisCall ==
    pc = "done" =>
      /\ probe.ip = IF opts.saveIp /\ opts.ovIp THEN Override.ip
                    ELSE IF opts.saveIp /\ found # "none" THEN found
                    ELSE Default.ip
      /\ probe.cc = IF opts.saveCc /\ opts.ovCc THEN Override.cc
                    ELSE IF country # {} THEN CHOOSE c \in country : TRUE
                    ELSE Default.cc
      /\ probe.asn = IF opts.saveAsn /\ opts.ovAsn THEN Override.asn
                     ELSE IF info # {} THEN AsnPartOf(CHOOSE a \in info : TRUE)
                     ELSE Default.asn
      /\ \A a \in info : \A y \in NamesOf(a) : networkName = y

=============================================================================
