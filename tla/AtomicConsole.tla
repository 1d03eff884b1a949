---------------------------- MODULE AtomicConsole ----------------------------
(***************************************************************************)
(* The console queue as a debugging session uses it: adding a command and  *)
(* raising the event is one step, taking the event and the oldest command  *)
(* is another, and there is a command wherever the event is up.            *)
(*                                                                         *)
(* ConsoleQueue.tla, in which the two halves of either are apart, is shown *)
(* to implement this specification, and the console variables of           *)
(* UaeDebugSession.tla are shown to follow it.                             *)
(***************************************************************************)
EXTENDS Sequences

CONSTANT Commands

VARIABLES
    queue,    \* the commands that can be taken
    event     \* the auto-reset event

avars == <<queue, event>>

Init == queue = <<>> /\ event = FALSE

Add(c) ==
    /\ queue' = Append(queue, c)
    /\ event' = TRUE

\* One event, one command: with more of them queued the event is down again.
Take ==
    /\ event
    /\ queue # <<>>
    /\ event' = FALSE
    /\ queue' = Tail(queue)

Next == (\E c \in Commands : Add(c)) \/ Take

Spec == Init /\ [][Next]_avars
=============================================================================
