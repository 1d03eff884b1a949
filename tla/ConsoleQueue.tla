---------------------------- MODULE ConsoleQueue ---------------------------
(***************************************************************************)
(* UaeConsoleQueue (quasar_app/uae_imp/uae_server_thread.cpp): the queue of *)
(* debugger commands between the threads that add them and the emulator    *)
(* thread, which sleeps on the queue's auto-reset event while it is        *)
(* stopped.  The event is the atomic one of AtomicEvent.tla.  addCmdToQueue *)
(* raises it after it has left the mutex, popConsoleCmdWait takes it down  *)
(* before it enters the mutex; those two gaps are the point of the module. *)
(***************************************************************************)
EXTENDS Naturals, Sequences, FiniteSets

CONSTANTS
    Producers,   \* threads that add commands
    Commands,    \* the commands, none of them empty
    MaxAdds      \* bound on the number of commands added

ASSUME QueueAssumption == IsFiniteSet(Producers) /\ MaxAdds \in Nat

VARIABLES
    m_consoleCmdQueue,
    m_bState,      \* the auto-reset event
    toSet,         \* producers that have pushed and not yet raised the event
    consumer,      \* where the emulator thread is
    added,         \* history: the commands pushed
    got            \* history: the commands popped

vars == <<m_consoleCmdQueue, m_bState, toSet, consumer, added, got>>

TypeOK ==
    /\ m_consoleCmdQueue \in Seq(Commands)
    /\ m_bState \in BOOLEAN
    /\ toSet \subseteq Producers
    /\ consumer \in {"elsewhere", "wait", "woken"}
    /\ added \in Seq(Commands)
    /\ got \in Seq(Commands)

Init ==
    /\ m_consoleCmdQueue = <<>>
    /\ m_bState = FALSE
    /\ toSet = {}
    /\ consumer = "elsewhere"
    /\ added = <<>>
    /\ got = <<>>

\* addCmdToQueue: lock, push, unlock ...
Push(p, c) ==
    /\ p \notin toSet
    /\ Len(added) < MaxAdds
    /\ m_consoleCmdQueue' = Append(m_consoleCmdQueue, c)
    /\ added' = Append(added, c)
    /\ toSet' = toSet \cup {p}
    /\ UNCHANGED <<m_bState, consumer, got>>

\* ... and raise the event.
SetEvent(p) ==
    /\ p \in toSet
    /\ m_bState' = TRUE
    /\ toSet' = toSet \ {p}
    /\ UNCHANGED <<m_consoleCmdQueue, consumer, added, got>>

\* Faulty: the event is taken down before the wait.
AskResets ==
    /\ consumer = "elsewhere"
    /\ consumer' = "wait"
    /\ m_bState' = FALSE
    /\ UNCHANGED <<m_consoleCmdQueue, toSet, added, got>>

\* The emulator thread, stopped in debug_1, asks for a command.
Ask ==
    /\ consumer = "elsewhere"
    /\ consumer' = "wait"
    /\ UNCHANGED <<m_consoleCmdQueue, m_bState, toSet, added, got>>

\* Faulty: a manual-reset event.
WakeManualReset ==
    /\ consumer = "wait"
    /\ m_bState
    /\ consumer' = "woken"
    /\ UNCHANGED <<m_consoleCmdQueue, m_bState, toSet, added, got>>

\* wait() returns and takes the event down.
Wake ==
    /\ consumer = "wait"
    /\ m_bState
    /\ m_bState' = FALSE
    /\ consumer' = "woken"
    /\ UNCHANGED <<m_consoleCmdQueue, toSet, added, got>>

\* Faulty: the head is returned and stays.
PopKeepsHead ==
    /\ consumer = "woken"
    /\ m_consoleCmdQueue # <<>>
    /\ got' = Append(got, Head(m_consoleCmdQueue))
    /\ consumer' = "elsewhere"
    /\ UNCHANGED <<m_consoleCmdQueue, m_bState, toSet, added>>

\* Under the mutex: pop the head and return it; on an empty queue take the
\* event down again and go back to wait ("Spurious wake").
PopOrWaitAgain ==
    /\ consumer = "woken"
    /\ IF m_consoleCmdQueue # <<>>
       THEN /\ got' = Append(got, Head(m_consoleCmdQueue))
            /\ m_consoleCmdQueue' = Tail(m_consoleCmdQueue)
            /\ consumer' = "elsewhere"
            /\ UNCHANGED m_bState
       ELSE /\ m_bState' = FALSE
            /\ consumer' = "wait"
            /\ UNCHANGED <<m_consoleCmdQueue, got>>
    /\ UNCHANGED <<toSet, added>>

Producer == \E p \in Producers : SetEvent(p) \/ \E c \in Commands : Push(p, c)

\* What the emulator thread does inside popConsoleCmdWait.
Answer == Wake \/ PopOrWaitAgain

Consumer == Ask \/ Answer

Next == Producer \/ Consumer

Spec == Init /\ [][Next]_vars

\* A producer inside addCmdToQueue raises the event in time, and the emulator
\* thread goes on with the popConsoleCmdWait it is inside of.  Nothing makes it
\* ask: after "g" debug_1 returns and the CPU may run for ever.
FairSpec ==
    /\ Spec
    /\ \A p \in Producers : WF_vars(SetEvent(p))
    /\ WF_vars(Answer)

----------------------------------------------------------------------------
\* Every command is popped once, in the order of the pushes: the two gaps and
\* the unlocked event never reorder, drop or repeat one.
InOrder == added = got \o m_consoleCmdQueue

One(b) == IF b THEN 1 ELSE 0

\* Each raised event, each event about to be raised and each wake-up that has
\* not popped yet stands for a queued command of its own.  (The converse fails:
\* two pushes before one wake-up leave a command without an event.)
WakeBudget ==
    Cardinality(toSet) + One(m_bState) + One(consumer = "woken")
        <= Len(m_consoleCmdQueue)

\* The consumer is never woken over an empty queue: the branch "Spurious wake"
\* is dead code, so its reset() cannot swallow the event of a command pushed
\* behind its back.
WakeFindsCommand == consumer = "woken" => m_consoleCmdQueue # <<>>

\* The queue is a FIFO channel.
Channel == INSTANCE CommandChannel WITH sent <- added, received <- got
ImplementsChannel == Channel!Spec

\* The two gaps can be thought away, as UaeDebugSession.tla does: a command is
\* added when an event is raised, the oldest one not heard of yet, whoever
\* raises it, and it is taken as the consumer wakes up.
heard ==
    SubSeq(m_consoleCmdQueue, IF consumer = "woken" THEN 2 ELSE 1,
           Len(m_consoleCmdQueue) - Cardinality(toSet))
Console == INSTANCE AtomicConsole WITH queue <- heard, event <- m_bState
ImplementsAtomicConsole == Console!Spec

\* An event that is up delivers a command, unless the emulator thread never
\* asks again: neither the way into the wait nor a pop before it loses it.
EventDelivers ==
    \A n \in 0..MaxAdds :
        (m_bState /\ Len(got) = n) ~> (Len(got) > n \/ [](consumer = "elsewhere"))
=============================================================================
