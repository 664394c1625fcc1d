---------------------------- MODULE EventChannel ----------------------------
(***************************************************************************)
(* What one mk::engine::Task promises its controller, abstractly: a       *)
(* one-producer, one-consumer FIFO channel of events.  The producer puts  *)
(* events numbered in emission order while it is open, and closes it once *)
(* its body has returned; the consumer takes events in order and, once   *)
(* the channel is closed and empty, receives the Terminated marker (the   *)
(* API's task_terminated event, returned by every later call).            *)
(*                                                                         *)
(* Only safety is stated: Task.tla shows that a controller can block for  *)
(* ever on a closed, empty channel (the lost wakeup of engine.cpp:104).   *)
(***************************************************************************)
EXTENDS Naturals, Sequences

CONSTANTS
    MaxEvents,  \* bound on the events put into the channel
    Terminated  \* the end-of-channel marker

VARIABLES
    sent,   \* how many events the producer has put
    queue,  \* events put and not yet taken, oldest first
    out,    \* what the consumer has received, in order
    open    \* the producer has not closed the channel

chanVars == <<sent, queue, out, open>>

Init ==
    /\ sent = 0
    /\ queue = <<>>
    /\ out = <<>>
    /\ open = TRUE

Put ==
    /\ open
    /\ sent < MaxEvents
    /\ sent' = sent + 1
    /\ queue' = Append(queue, sent + 1)
    /\ UNCHANGED <<out, open>>

Take ==
    /\ queue # <<>>
    /\ out' = Append(out, Head(queue))
    /\ queue' = Tail(queue)
    /\ UNCHANGED <<sent, open>>

Close ==
    /\ open
    /\ open' = FALSE
    /\ UNCHANGED <<sent, queue, out>>

Finish ==
    /\ ~open
    /\ queue = <<>>
    /\ out' = Append(out, Terminated)
    /\ UNCHANGED <<sent, queue, open>>

Next == Put \/ Take \/ Close \/ Finish

Spec == Init /\ [][Next]_chanVars

=============================================================================
