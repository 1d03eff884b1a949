---------------------------- MODULE AtomicEvent ----------------------------
(***************************************************************************)
(* What qd::ThreadEvent promises to its callers, without its mutex and     *)
(* condition variable: set, reset and a successful wait are atomic on one  *)
(* flag, a successful wait on an auto-reset event consumes the flag, and a *)
(* timed wait that gives up leaves the flag alone.                         *)
(* ThreadEvent.tla is shown to implement this specification, and           *)
(* ConsoleQueue.tla to use its event in accordance with it.                *)
(***************************************************************************)
CONSTANTS Threads, AutoReset

VARIABLES
    signaled,   \* the event's flag
    call        \* call[t]: the operation thread t is inside of

avars == <<signaled, call>>

Calls == {"set", "reset", "wait", "timedWait"}

Init == signaled = FALSE /\ call = [t \in Threads |-> "none"]

Invoke(t, op) ==
    /\ call[t] = "none"
    /\ call' = [call EXCEPT ![t] = op]
    /\ UNCHANGED signaled

\* A set takes effect, once; the call returns then or some time later.
Raise(t) ==
    /\ call[t] = "set"
    /\ signaled' = TRUE
    /\ \E after \in {"none", "setDone"} : call' = [call EXCEPT ![t] = after]

Return(t) ==
    /\ call[t] = "setDone"
    /\ call' = [call EXCEPT ![t] = "none"]
    /\ UNCHANGED signaled

\* A reset takes effect as it returns.
Lower(t) ==
    /\ call[t] = "reset"
    /\ signaled' = FALSE
    /\ call' = [call EXCEPT ![t] = "none"]

\* A wait returns: only when the flag is up, taking it down if auto-reset.
Pass(t) ==
    /\ call[t] \in {"wait", "timedWait"}
    /\ signaled
    /\ signaled' = ~AutoReset
    /\ call' = [call EXCEPT ![t] = "none"]

\* A timed wait gives up: the flag stays as it is.
GiveUp(t) ==
    /\ call[t] = "timedWait"
    /\ call' = [call EXCEPT ![t] = "none"]
    /\ UNCHANGED signaled

Next == \E t \in Threads :
    \/ \E op \in Calls : Invoke(t, op)
    \/ Raise(t) \/ Return(t) \/ Lower(t) \/ Pass(t) \/ GiveUp(t)

Spec == Init /\ [][Next]_avars
=============================================================================
