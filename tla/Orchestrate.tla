----------------------------- MODULE Orchestrate -----------------------------
(***************************************************************************)
(* The orchestrator client state of src/src/libmeasurement_kit/ooni/       *)
(* orchestrate.cpp: the Auth record (auth_token, expiry_time, logged_in,  *)
(* username, password), its persistence through load()/loads() and        *)
(* dump()/dumps(), and the                                                 *)
(* Client calls register_probe(), find_location() and update(), each of   *)
(* which copies the Client (and moves the Auth) into a lambda that a      *)
(* background worker thread runs later.                                   *)
(*                                                                         *)
(* Nothing under src/ calls this API, so the caller is the environment:   *)
(* any operation may come next.  A string field is a member of a small    *)
(* set; "" is the empty string.  is_valid() only reads an Auth and the   *)
(* wall clock, so it is not an action.                                    *)
(*                                                                         *)
(* The saved file is what slurp() would read: NoFile (slurp fails),       *)
(* Garbage (not JSON), or a JSON object.  loads() reads the keys in the   *)
(* order auth_token, expiry_time, logged_in, username, password, so an    *)
(* object is the record it holds plus `good`, the number of keys, in that *)
(* order, that are present with the right type before the first missing  *)
(* or ill-typed one.                                                      *)
(***************************************************************************)
EXTENDS Naturals, FiniteSets

CONSTANTS
    Tokens,      \* auth_token values, "" included
    Users,       \* username values
    Passwords,   \* password values (make_password() picks one)
    Expiries,    \* expiry_time values
    Metas,       \* ClientMetadata values
    MaxCalls,    \* bound on Client calls
    NoFile, Garbage, None

Fields == 5
AuthRecs == [token : Tokens, expiry : Expiries \cup {""}, loggedIn : BOOLEAN,
             username : Users \cup {""}, password : Passwords \cup {""}]
Objects == [rec : AuthRecs, good : 0..Fields]
CallKinds == {"register_probe", "find_location", "update"}

VARIABLES
    auth,      \* the caller's Auth object
    file,      \* the saved file
    meta,      \* the caller's Client (its ClientMetadata)
    pending,   \* calls queued on the worker: [kind, meta, auth, id]
    calls,     \* Client calls so far
    dumped,    \* history: the record of the last dump() that succeeded, or None
    restored   \* history: <<dumped, loaded>> at the last load() that succeeded

vars == <<auth, file, meta, pending, calls, dumped, restored>>

TypeOK ==
    /\ auth \in AuthRecs
    /\ file \in Objects \cup {NoFile, Garbage}
    /\ meta \in Metas
    /\ pending \subseteq [kind : CallKinds, meta : Metas, auth : AuthRecs \cup {None},
                          id : 1..MaxCalls]
    /\ calls \in 0..MaxCalls
    /\ dumped \in AuthRecs \cup {None}

\* The header is not in the repository, so the Auth may start as any
\* record, and the file as anything a previous run or version left.
Init ==
    /\ auth \in AuthRecs
    /\ file \in Objects \cup {NoFile, Garbage}
    /\ meta \in Metas
    /\ pending = {}
    /\ calls = 0
    /\ dumped = None
    /\ restored = None

-----------------------------------------------------------------------------
(* Auth                                                                    *)

\* The keys loads() assigns, in the order of its statements.
KeyOrder == <<"token", "expiry", "loggedIn", "username", "password">>

\* Mutant: expiry_time read from the "auth_token" key.
LoadsExpiryFromToken(a, obj) ==
    [f \in DOMAIN a |->
        IF \E i \in 1..obj.good : KeyOrder[i] = f
        THEN IF f = "expiry" THEN obj.rec.token ELSE obj.rec[f]
        ELSE a[f]]

\* Mutant: loads() without the expiry_time assignment.
LoadsNoExpiry(a, obj) ==
    [f \in DOMAIN a |->
        IF \E i \in 1..obj.good : KeyOrder[i] = f /\ f # "expiry" THEN obj.rec[f] ELSE a[f]]

\* loads(): the json_process() lambda assigns field after field; json.at()
\* or the conversion throws at the first missing or ill-typed key, and the
\* fields assigned before it keep their new value.
Loads(a, obj) ==
    [f \in DOMAIN a |->
        IF \E i \in 1..obj.good : KeyOrder[i] = f THEN obj.rec[f] ELSE a[f]]

\* dumps(): all five keys with their values.
Dumps(a) == [rec |-> a, good |-> Fields]

\* load(path): slurp() the file, then loads() it.
Load ==
    /\ \/ /\ file \in {NoFile, Garbage}
          /\ UNCHANGED <<auth, restored>>
       \/ /\ file \in Objects
          /\ auth' = Loads(auth, file)
          /\ restored' = IF file.good = Fields
                         THEN <<dumped, auth'>> ELSE restored
    /\ UNCHANGED <<file, meta, pending, calls, dumped>>

\* dump(path): overwrite_file() with dumps().  The writer is outside src/:
\* a failure leaves the old file or a truncated one.
Dump ==
    /\ \/ /\ file' = Dumps(auth)
          /\ dumped' = auth
       \/ /\ file' \in {file, Garbage}
          /\ UNCHANGED dumped
    /\ UNCHANGED <<auth, meta, pending, calls, restored>>

-----------------------------------------------------------------------------
(* Client                                                                  *)

\* The caller changes its Client's metadata.
SetMeta ==
    /\ \E m \in Metas \ {meta} : meta' = m
    /\ UNCHANGED <<auth, file, pending, calls, dumped, restored>>

\* A moved-from Auth: the strings are left empty, the bool is copied.
Moved(a) == [a EXCEPT !.token = "", !.expiry = "", !.username = "", !.password = ""]

\* register_probe(), find_location(), update(): the lambda captures a copy
\* of the Client (`meta = *this`); update() also moves the Auth into it.
ClientCall(kind) ==
    /\ calls < MaxCalls
    /\ calls' = calls + 1
    /\ pending' = pending \cup {[kind |-> kind, meta |-> meta, id |-> calls + 1,
                                 auth |-> IF kind = "update" THEN auth ELSE None]}
    /\ auth' = IF kind = "update" THEN Moved(auth) ELSE auth
    /\ UNCHANGED <<file, meta, dumped, restored>>

\* The worker thread runs a queued lambda: a reactor runs do_*() with the
\* captured copy, stops, and calls the callback.
RunCall(c) ==
    /\ pending' = pending \ {c}
    /\ UNCHANGED <<auth, file, meta, calls, dumped, restored>>

\* No more calls and nothing queued.
Idle ==
    /\ calls = MaxCalls
    /\ pending = {}
    /\ UNCHANGED vars

Next ==
    \/ Load \/ Dump \/ SetMeta
    \/ \E k \in CallKinds : ClientCall(k)
    \/ \E c \in pending : RunCall(c)
    \/ Idle

Spec == Init /\ [][Next]_vars

-----------------------------------------------------------------------------
(* Properties                                                              *)

\* A load() that succeeds after a dump() restores exactly the Auth that
\* was dumped, whatever the caller did in between (moves, failed dumps,
\* failed or partial loads): dumps() and loads() agree on every field.
LoadRestoresDump ==
    restored # None /\ restored[1] # None => restored[1] = restored[2]

=============================================================================
