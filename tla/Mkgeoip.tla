------------------------------ MODULE Mkgeoip ------------------------------
(***************************************************************************)
(* The vendored GeoIP helpers of                                            *)
(* src/include/measurement_kit/vendor/mkgeoip.h, as the JNI bindings of     *)
(* src/jni/vendor_mkgeoip_FFI.cpp drive them.                               *)
(*                                                                         *)
(* The Ubuntu parser is an object that outlives a call:                    *)
(* mkgeoip_ubuntu_parser_get_probe_ip() extracts the text between <Ip> and *)
(* </Ip> of an HTTP response body, drops white space, lower-cases it,      *)
(* checks every character and appends it to the parser's probe_ip string.  *)
(* A body is a sequence of characters over a small alphabet in which the   *)
(* two tags are single symbols (neither tag occurs inside an IP address,   *)
(* so finding a tag is finding its symbol).                                *)
(*                                                                         *)
(* The MaxMind database is a handle, a jlong on the Java side, holding one *)
(* saved_string that mkgeoip_mmdb_lookup_cc() and _org() overwrite and    *)
(* return c_str() of; the JNI wrappers copy it with NewStringUTF() before  *)
(* they return.  The database itself is the constant DB: for each IP, its  *)
(* country code, organisation and ASN, or Null where the lookup misses.   *)
(* mkgeoip_mmdb_lookup_asn() leaves its int64_t result uninitialised on a  *)
(* miss; the value read is whatever the stack held, a choice among Garbage.*)
(***************************************************************************)
EXTENDS Integers, Sequences, SequencesExt

CONSTANTS
    MaxBodyLen,  \* bound on the length of a response body
    MaxCalls,    \* bound on the get_probe_ip calls of one run
    Ips,         \* IP strings a caller looks up
    Texts,       \* country codes and organisation names the database holds
    Asns,        \* ASNs the database holds
    DB,          \* [Ips -> [cc, org, asn]]: the database content, Null on a miss
    Garbage,     \* values an uninitialised int64_t may hold (0 among them)
    Null         \* a NULL const char *

ASSUME /\ MaxBodyLen \in Nat /\ MaxCalls \in Nat \ {0}
       /\ Asns \subseteq Nat \ {0} /\ Asns # {}
       /\ Garbage \subseteq Nat /\ Garbage # {}
       /\ DB \in [Ips -> [cc : Texts \cup {Null}, org : Texts \cup {Null},
                          asn : Asns \cup {Null}]]

OpenTag == "<Ip>"
CloseTag == "</Ip>"

\* A digit, an upper-case hex letter, white space, and a character that
\* cannot occur in an IP address.
Chars == {"1", "A", " ", "#"}

Bodies == UNION {[1..n -> Chars \cup {OpenTag, CloseTag}] : n \in 0..MaxBodyLen}

\* A response: whether curl succeeded with status 200, and its body.
Responses == {[ok |-> FALSE, body |-> <<>>]} \cup {[ok |-> TRUE, body |-> b] : b \in Bodies}

\* isspace(), tolower() and the accepted characters, over the alphabet.
IsSpace(ch) == ch = " "
ToLower(ch) == IF ch = "A" THEN "a" ELSE ch
IsIpChar(ch) == ch \in {"1", "a"}   \* isdigit || 'a'..'f' || '.' || ':'

VARIABLES
    parser,       \* the parser's probe_ip string, or Null when no parser exists
    calls,        \* get_probe_ip calls made so far
    used,         \* the parser has served a call already
    firstCall,    \* history: the last call was the first on its parser
    lastResponse, \* history: the response of the last call
    lastResult,   \* what the last get_probe_ip call returned
    handle,       \* the Java side's MMDB handle: "0" (the jlong 0), or "open"
    saved,        \* the handle's saved_string
    lastLookup,   \* the jstring the last JNI string lookup returned, or Null
    asnResult     \* what the last FFI.MMDBLookupASN returned, -1 before any

vars == <<parser, calls, used, firstCall, lastResponse, lastResult,
          handle, saved, lastLookup, asnResult>>
mmdbVars == <<handle, saved, lastLookup, asnResult>>
parserVars == <<parser, calls, used, firstCall, lastResponse, lastResult>>


TypeOK ==
    /\ parser \in Seq({"1", "a"}) \cup {Null}
    /\ calls \in 0..MaxCalls
    /\ used \in BOOLEAN
    /\ firstCall \in BOOLEAN
    /\ lastResponse \in Responses
    /\ lastResult \in Seq({"1", "a"}) \cup {Null}
    /\ handle \in {"0", "open"}
    /\ saved \in Texts \cup {""}
    /\ lastLookup \in Texts \cup {Null}
    /\ asnResult \in Asns \cup Garbage \cup {-1}

Init ==
    /\ parser = Null
    /\ calls = 0
    /\ used = FALSE
    /\ firstCall = FALSE
    /\ lastResponse = [ok |-> FALSE, body |-> <<>>]
    /\ lastResult = Null
    /\ handle = "0"
    /\ saved = ""
    /\ lastLookup = Null
    /\ asnResult = -1

-----------------------------------------------------------------------------

\* Mutant: the character is checked lower-cased but appended as read.
RECURSIVE ScanIpNoLower(_, _)
ScanIpNoLower(acc, rest) ==
    IF rest = <<>> THEN [ip |-> acc, ok |-> TRUE]
    ELSE IF IsSpace(Head(rest)) THEN ScanIpNoLower(acc, Tail(rest))
    ELSE IF ~IsIpChar(ToLower(Head(rest))) THEN [ip |-> acc, ok |-> FALSE]
    ELSE ScanIpNoLower(Append(acc, Head(rest)), Tail(rest))

\* The loop over the characters between the tags: skip white space, lower
\* the character, stop with failure at one no IP contains, else append it.
\* Returns the string built so far and whether the loop completed.
RECURSIVE ScanIp(_, _)
ScanIp(acc, rest) ==
    IF rest = <<>> THEN [ip |-> acc, ok |-> TRUE]
    ELSE IF IsSpace(Head(rest)) THEN ScanIp(acc, Tail(rest))
    ELSE IF ~IsIpChar(ToLower(Head(rest))) THEN [ip |-> acc, ok |-> FALSE]
    ELSE ScanIp(Append(acc, ToLower(Head(rest))), Tail(rest))

\* mkgeoip_ubuntu_parser_new(): a parser with an empty probe_ip.
ParserNew ==
    /\ parser = Null
    /\ parser' = <<>>
    /\ used' = FALSE
    /\ UNCHANGED <<calls, firstCall, lastResponse, lastResult>>
    /\ UNCHANGED mmdbVars

\* Mutant: body.substr(pos) keeps the <Ip> tag in front of the text.
GetProbeIpKeepsTag ==
    /\ parser # Null
    /\ calls < MaxCalls
    /\ \E r \in Responses :
         LET open  == SelectInSeq(r.body, LAMBDA c : c = OpenTag)
             after == SubSeq(r.body, Max({open, 1}), Len(r.body))
             close == SelectInSeq(after, LAMBDA c : c = CloseTag)
             scan  == ScanIp(parser, SubSeq(after, 1, close - 1))
         IN /\ lastResponse' = r
            /\ \/ /\ ~r.ok \/ r.body = <<>> \/ open = 0 \/ close = 0
                  /\ lastResult' = Null
                  /\ UNCHANGED parser
               \/ /\ r.ok /\ r.body # <<>> /\ open # 0 /\ close # 0
                  /\ parser' = scan.ip
                  /\ lastResult' = IF scan.ok THEN scan.ip ELSE Null
    /\ calls' = calls + 1
    /\ used' = TRUE
    /\ firstCall' = ~used
    /\ UNCHANGED mmdbVars

\* mkgeoip_ubuntu_parser_get_probe_ip(): NULL unless curl succeeded with
\* 200, a non-empty body, an <Ip> and a </Ip> after it; else the scan of the
\* text in between, appended to the parser's string, which is returned
\* unless the scan stopped on a bad character.
GetProbeIp ==
    /\ parser # Null
    /\ calls < MaxCalls
    /\ \E r \in Responses :
         LET open  == SelectInSeq(r.body, LAMBDA c : c = OpenTag)
             after == SubSeq(r.body, open + 1, Len(r.body))
             close == SelectInSeq(after, LAMBDA c : c = CloseTag)
             scan  == ScanIp(parser, SubSeq(after, 1, close - 1))
         IN /\ lastResponse' = r
            /\ \/ /\ ~r.ok \/ r.body = <<>> \/ open = 0 \/ close = 0
                  /\ lastResult' = Null
                  /\ UNCHANGED parser
               \/ /\ r.ok /\ r.body # <<>> /\ open # 0 /\ close # 0
                  /\ parser' = scan.ip
                  /\ lastResult' = IF scan.ok THEN scan.ip ELSE Null
    /\ calls' = calls + 1
    /\ used' = TRUE
    /\ firstCall' = ~used
    /\ UNCHANGED mmdbVars

\* mkgeoip_ubuntu_parser_delete().
ParserDelete ==
    /\ parser # Null
    /\ parser' = Null
    /\ UNCHANGED <<calls, used, firstCall, lastResponse, lastResult>>
    /\ UNCHANGED mmdbVars

-----------------------------------------------------------------------------
(* The MaxMind database                                                    *)

\* mkgeoip_mmdb_open(): NULL for a NULL path or when MMDB_open() fails,
\* else a new handle.
MmdbOpen == {"0", "open"}

\* mkgeoip_mmdb_lookup_cc() on a handle and a non-NULL ip: when
\* mkgeoip_lookup_mmdb() finds an entry (no gai or mmdb error) holding a
\* UTF-8 string at the path, saved_string becomes that string and rv its
\* c_str(); otherwise saved_string is left alone and rv is NULL.
LookupUtf8(s, ip, what) ==
    IF DB[ip][what] = Null THEN [saved |-> s, rv |-> Null]
    ELSE [saved |-> DB[ip][what], rv |-> DB[ip][what]]

\* mkgeoip_mmdb_lookup_org(): the same, at autonomous_system_organization.
MmdbLookupOrg(s, ip) == LookupUtf8(s, ip, "org")

\* mkgeoip_mmdb_lookup_asn() on a handle and a non-NULL ip: the uint32 ASN
\* of the entry, or the uninitialised rv on a miss.
MmdbLookupAsn(ip) == IF DB[ip].asn = Null THEN Garbage ELSE {DB[ip].asn}

\* FFI.MMDBOpen: 0 for a null path, else mkgeoip_mmdb_open().  The Java
\* side holds one handle at a time.
MMDBOpen ==
    /\ handle = "0"
    /\ handle' \in MmdbOpen
    /\ saved' = ""
    /\ UNCHANGED <<lastLookup, asnResult>>
    /\ UNCHANGED parserVars

\* FFI.MMDBLookupCC and FFI.MMDBLookupOrg: null for a 0 handle or a null
\* ip; else the C lookup, and NewStringUTF() of its result unless NULL.
JniLookupString(what, ip) ==
    /\ \/ /\ handle = "0" \/ ip = Null
          /\ lastLookup' = Null
          /\ UNCHANGED saved
       \/ /\ handle # "0" /\ ip # Null
          /\ LET r == LookupUtf8(saved, ip, what)
             IN /\ saved' = r.saved
                /\ lastLookup' = r.rv
    /\ UNCHANGED <<handle, asnResult>>
    /\ UNCHANGED parserVars

MMDBLookupCC == \E ip \in Ips \cup {Null} : JniLookupString("cc", ip)

MMDBLookupOrg == \E ip \in Ips \cup {Null} : JniLookupString("org", ip)

\* FFI.MMDBLookupASN: 0 for a 0 handle or a null ip, else
\* mkgeoip_mmdb_lookup_asn().
MMDBLookupASN ==
    /\ \E ip \in Ips \cup {Null} :
          asnResult' \in IF handle = "0" \/ ip = Null THEN {0} ELSE MmdbLookupAsn(ip)
    /\ UNCHANGED <<handle, saved, lastLookup>>
    /\ UNCHANGED parserVars

\* FFI.MMDBClose: mkgeoip_mmdb_close() deletes the handle and its
\* saved_string (on a 0 handle it deletes nothing).
MMDBClose ==
    /\ handle # "0"
    /\ handle' = "0"
    /\ saved' = ""
    /\ UNCHANGED <<lastLookup, asnResult>>
    /\ UNCHANGED parserVars

Next ==
    \/ ParserNew \/ GetProbeIp \/ ParserDelete
    \/ MMDBOpen \/ MMDBLookupCC \/ MMDBLookupOrg \/ MMDBLookupASN \/ MMDBClose

Spec == Init /\ [][Next]_vars

-----------------------------------------------------------------------------
(* Properties                                                              *)

\* What a response says the probe IP is, defined without the parser: the
\* text strictly between the first <Ip> and the first </Ip> after it, less
\* its white space and lower-cased, provided every other character can
\* occur in an IP; NULL when there is no such text or the response failed.
ProbeIpOf(r) ==
    LET Tags == {<<i, j>> \in (1..Len(r.body)) \X (1..Len(r.body)) :
                    /\ i < j
                    /\ r.body[i] = OpenTag /\ r.body[j] = CloseTag
                    /\ \A k \in 1..i - 1 : r.body[k] # OpenTag
                    /\ \A k \in i + 1..j - 1 : r.body[k] # CloseTag}
    IN IF ~r.ok \/ Tags = {} THEN Null
       ELSE LET t == CHOOSE t \in Tags : TRUE
                text == SelectSeq(SubSeq(r.body, t[1] + 1, t[2] - 1), LAMBDA c : ~IsSpace(c))
            IN IF \A k \in 1..Len(text) : IsIpChar(ToLower(text[k]))
               THEN [k \in 1..Len(text) |-> ToLower(text[k])]
               ELSE Null

\* The first call on a new parser returns exactly the IP its response
\* carries (tag search, white-space skipping, lower-casing and the
\* character check of mkgeoip_ubuntu_parser_get_probe_ip).
FirstCallReturnsResponseIp ==
    firstCall => lastResult = ProbeIpOf(lastResponse)

\* The header's contract: get_probe_ip "extracts the probe IP from
\* response", and the parser may be called again.  Every call returns the
\* IP of its own response, or NULL when that response carries none.
EveryCallReturnsResponseIp ==
    calls > 0 => lastResult = ProbeIpOf(lastResponse)

=============================================================================
