-------------------------------- MODULE Scrub --------------------------------
(***************************************************************************)
(* mk::ooni::scrub() of src/src/libmeasurement_kit/ooni/utils.cpp: the   *)
(* loop that replaces every occurrence of the real probe IP in a string   *)
(* with "[REDACTED]", one std::string::find() and replace() per step.     *)
(* Strings are TLA+ strings and positions are 1-based (the code's p + 1). *)
(*                                                                         *)
(* The loop restarts find() at the position of the marker it has just     *)
(* written, never after it.  A step that would grow the string beyond     *)
(* MaxText moves the loop to "cut": the loop is still running there, and  *)
(* only the model stops following it.                                     *)
(***************************************************************************)
EXTENDS Naturals, Sequences, FiniteSets

CONSTANT MaxText  \* bound on the length of the string being scrubbed

Marker == "[REDACTED]"

VARIABLES
    text,  \* the string s being scrubbed
    pos,   \* p + 1
    ip,    \* real_probe_ip
    orig,  \* history: the argument s of the call
    spc    \* "idle", "loop", "cut" (beyond MaxText) or "returned"

scrubVars == <<text, pos, ip, orig, spc>>

\* s.find(x, p) as a 1-based position, 0 for std::string::npos.
Find(s, x, from) ==
    LET hits == {i \in from .. Len(s) - Len(x) + 1 : SubSeq(s, i, i + Len(x) - 1) = x}
    IN IF hits = {} THEN 0 ELSE CHOOSE i \in hits : \A j \in hits : i <= j

\* s.replace(p, n, r).
Replace(s, p, n, r) == SubSeq(s, 1, p - 1) \o r \o SubSeq(s, p + n, Len(s))

TypeOK ==
    /\ text \in STRING
    /\ pos \in 1 .. MaxText + 1
    /\ spc \in {"idle", "loop", "cut", "returned"}
    /\ Len(text) <= MaxText

Init ==
    /\ text = "" /\ pos = 1 /\ ip = "" /\ orig = ""
    /\ spc = "idle"

\* scrub(s, real_probe_ip) is called: p = 0.
ScrubCall(s, x) ==
    /\ spc \in {"idle", "returned"}
    /\ text' = s /\ ip' = x /\ orig' = s
    /\ pos' = 1
    /\ spc' = "loop"

\* Mutant: an `if` where the code has `while`: one replacement only.
ScrubStepOnce ==
    /\ spc = "loop"
    /\ LET q == Find(text, ip, pos)
       IN \/ /\ q # 0
             /\ LET t == Replace(text, q, Len(ip), Marker)
                IN /\ text' = IF Len(t) <= MaxText THEN t ELSE text
                   /\ spc' = IF Len(t) <= MaxText THEN "returned" ELSE "cut"
             /\ pos' = q
          \/ /\ q = 0
             /\ spc' = "returned"
             /\ UNCHANGED <<text, pos>>
    /\ UNCHANGED <<ip, orig>>

\* Mutant: the replacement made on a copy of s, which stays unchanged.
ScrubStepOnCopy ==
    /\ spc = "loop"
    /\ LET q == Find(text, ip, pos)
       IN \/ /\ q # 0
             /\ pos' = q
             /\ UNCHANGED <<text, spc>>
          \/ /\ q = 0
             /\ spc' = "returned"
             /\ UNCHANGED <<text, pos>>
    /\ UNCHANGED <<ip, orig>>

\* One iteration of `while ((p = s.find(real_probe_ip, p)) != npos)
\* s = s.replace(p, real_probe_ip.size(), "[REDACTED]");` or, with no
\* match left, `return s`.
ScrubStep ==
    /\ spc = "loop"
    /\ LET q == Find(text, ip, pos)
       IN \/ /\ q # 0
             /\ LET t == Replace(text, q, Len(ip), Marker)
                IN /\ text' = IF Len(t) <= MaxText THEN t ELSE text
                   /\ spc' = IF Len(t) <= MaxText THEN "loop" ELSE "cut"
             /\ pos' = q
          \/ /\ q = 0
             /\ spc' = "returned"
             /\ UNCHANGED <<text, pos>>
    /\ UNCHANGED <<ip, orig>>

-----------------------------------------------------------------------------

\* The reference, for a non-empty x: every occurrence of x, left to right and not
\* overlapping, replaced by the marker, and the text after a replacement
\* searched from its end.
RECURSIVE Redacted(_, _)
Redacted(s, x) ==
    LET q == Find(s, x, 1)
    IN IF q = 0 THEN s
       ELSE SubSeq(s, 1, q - 1) \o Marker \o Redacted(SubSeq(s, q + Len(x), Len(s)), x)

=============================================================================
