--------------------------- MODULE CommandChannel --------------------------
(***************************************************************************)
(* What the console queue promises: commands reach the debugger in the     *)
(* order they were added, none twice and none left out.                    *)
(***************************************************************************)
EXTENDS Naturals, Sequences

CONSTANT Commands

VARIABLES
    sent,       \* every command added so far, oldest first
    received    \* every command the debugger got, oldest first

cvars == <<sent, received>>

Init == sent = <<>> /\ received = <<>>

Send(c) ==
    /\ sent' = Append(sent, c)
    /\ UNCHANGED received

Receive ==
    /\ Len(received) < Len(sent)
    /\ received' = Append(received, sent[Len(received) + 1])
    /\ UNCHANGED sent

Next == (\E c \in Commands : Send(c)) \/ Receive

Spec == Init /\ [][Next]_cvars
=============================================================================
