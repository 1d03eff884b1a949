----------------------- MODULE UaeDebugSession_proofs -----------------------
(***************************************************************************)
(* Safety of a debugging session, for any set of operations and any number *)
(* of requests.                                                            *)
(***************************************************************************)
EXTENDS UaeDebugSession, TLAPS

\* The operation the callback has in hand is a real one, and one of the four
\* that have a console command when it goes to the console.
Forwarding ==
    /\ ui \in {"route", "toConsole", "toQueue"} => uiOp \in Ops
    /\ ui = "toConsole" => uiOp \in ConsoleOps

\* Types alone are not inductive: what is queued depends on the UI's point.
Types == TypeOK /\ Forwarding

LEMMA InitTypes == Init => Types
<1> SUFFICES ASSUME Init PROVE Types
  OBVIOUS
<1>1. UiTypes /\ Forwarding
  <2>1. m_bQuitRequestPosted \in BOOLEAN
    BY DEF Init
  <2>2. ui \in UiPoints /\ uiOp = "none" /\ requests \in 0..MaxRequests /\ Forwarding
    BY SessionAssumption DEF Init, UiPoints, Forwarding
  <2> QED
    BY <2>1, <2>2 DEF UiTypes
<1>2. QueueTypes
  <2>1. m_pClientOpsStack \in Seq(QueuedOps) /\ m_consoleCmdQueue \in Seq(Commands)
    BY DEF Init
  <2>2. m_bState \in BOOLEAN
    BY DEF Init
  <2> QED
    BY <2>1, <2>2 DEF QueueTypes
<1>3. FlagTypes
  BY DEF Init, FlagTypes
<1>4. EngineTypes
  BY DEF Init, EngineTypes, TraceModes
<1>5. PointTypes
  BY DEF Init, PointTypes, EmuPoints
<1> QED
  BY <1>1, <1>2, <1>3, <1>4, <1>5 DEF Types, TypeOK

\* Variables left alone keep their types.
LEMMA Kept ==
    ASSUME Types
    PROVE  /\ UNCHANGED uiVars => UiTypes' /\ Forwarding'
           /\ UNCHANGED queueVars => QueueTypes'
           /\ UNCHANGED <<flagVars, m_debugMode>> => FlagTypes'
           /\ UNCHANGED engineVars => EngineTypes'
           /\ UNCHANGED emuVars => PointTypes'
BY DEF Types, TypeOK, Forwarding, UiTypes, QueueTypes, FlagTypes, EngineTypes,
   PointTypes,
   uiVars, queueVars, flagVars, engineVars, emuVars

\* Appending to a queue of commands.
LEMMA AddCmdTyped ==
    ASSUME m_consoleCmdQueue \in Seq(Commands), NEW c \in Commands, AddCmd(c)
    PROVE  m_consoleCmdQueue' \in Seq(Commands) /\ m_bState' \in BOOLEAN
BY DEF AddCmd

LEMMA RequestTypes ==
    ASSUME Types, NEW op \in Ops, Request(op)
    PROVE  Types'
<1>1. UiTypes' /\ Forwarding'
  BY SessionAssumption DEF Request, Types, TypeOK, UiTypes, UiPoints, Forwarding
<1>2. FlagTypes'
  BY DEF Request, MirroredMode, Types, TypeOK, FlagTypes, flagVars
<1>3. QueueTypes' /\ EngineTypes' /\ PointTypes'
  BY Kept DEF Request
<1> QED
  BY <1>1, <1>2, <1>3 DEF Types, TypeOK

LEMMA DestroyTypes ==
    ASSUME Types, DestroyBegin \/ DestroyQuit \/ DestroySendQ \/ DestroyJoin
    PROVE  Types'
<1>1. UiTypes' /\ Forwarding'
  BY DEF DestroyBegin, DestroyQuit, DestroySendQ, DestroyJoin, Types, TypeOK, UiTypes,
     UiPoints, Forwarding
<1>2. FlagTypes'
  BY DEF DestroyBegin, DestroyQuit, DestroySendQ, DestroyJoin, Types, TypeOK, FlagTypes,
     flagVars
<1>3. EngineTypes' /\ PointTypes'
  BY Kept DEF DestroyBegin, DestroyQuit, DestroySendQ, DestroyJoin
<1>4. QueueTypes'
  <2>1. CASE DestroySendQ
    BY <2>1, AddCmdTyped DEF DestroySendQ, Types, TypeOK, QueueTypes, Commands
  <2> QED
    BY <2>1, Kept DEF DestroyBegin, DestroyQuit, DestroyJoin
<1> QED
  BY <1>1, <1>2, <1>3, <1>4 DEF Types, TypeOK

LEMMA ForwardTypes ==
    ASSUME Types,
           \/ RequestToggleBreakpoint \/ Route \/ ForwardToConsole \/ ForwardToQueue
           \/ RequestQuit
    PROVE  Types'
<1>1. UiTypes' /\ Forwarding'
  <2>1. CASE RequestQuit
    <3>1. m_bQuitRequestPosted' \in BOOLEAN
      BY <2>1 DEF RequestQuit
    <3> QED
      BY <2>1, <3>1 DEF RequestQuit, Types, TypeOK, UiTypes, Forwarding
  <2>2. CASE RequestToggleBreakpoint \/ Route \/ ForwardToConsole \/ ForwardToQueue
    BY <2>2, SessionAssumption
       DEF RequestToggleBreakpoint, Route, ForwardToConsole, ForwardToQueue, Types,
       TypeOK,
       UiTypes, UiPoints, Forwarding
  <2> QED
    BY <2>1, <2>2
<1>2. FlagTypes' /\ EngineTypes' /\ PointTypes'
  BY Kept DEF RequestToggleBreakpoint, Route, ForwardToConsole, ForwardToQueue,
     RequestQuit
<1>3. QueueTypes'
  <2> USE DEF Types, TypeOK, QueueTypes
  <2>1. CASE RequestToggleBreakpoint
    BY <2>1, AddCmdTyped DEF RequestToggleBreakpoint, Commands
  <2>2. CASE Route
    BY <2>2, Kept DEF Route
  <2>3. CASE ForwardToConsole
    <3>1. ConsoleCommand(uiOp) \in Commands
      BY <2>3 DEF ForwardToConsole, Forwarding, ConsoleCommand, ConsoleOps, Commands
    <3> QED
      BY <2>3, <3>1, AddCmdTyped DEF ForwardToConsole
  <2>4. CASE ForwardToQueue
    BY <2>4 DEF ForwardToQueue, Forwarding, QueuedOps
  <2>5. CASE RequestQuit
    BY <2>5 DEF RequestQuit, QueuedOps
  <2> QED
    BY <2>1, <2>2, <2>3, <2>4, <2>5
<1> QED
  BY <1>1, <1>2, <1>3 DEF Types, TypeOK


----------------------------------------------------------------------------
\* An operation that is applied writes values of the right type.
LEMMA ApplyTypes ==
    ASSUME Types, NEW op \in QueuedOps, ApplyOperation(op)
    PROVE  /\ m_consoleCmdQueue' \in Seq(Commands) /\ m_bState' \in BOOLEAN
           /\ UNCHANGED modeChange => FlagTypes'
           /\ UNCHANGED <<bpEnabled, copperWatch, cycleEvent, debugSkipped>> => EngineTypes'
<1> USE DEF Types, TypeOK, QueueTypes, FlagTypes, EngineTypes, TraceModes
<1>1. CASE BreakIn
  BY <1>1 DEF BreakIn, ActivateDebugger
<1>2. CASE GoLive
  BY <1>2, AddCmdTyped DEF GoLive, Commands
<1>3. CASE op = "StepInto"
  <2>1. /\ m_debugMode' = "Break"
        /\ ActivateDebugger("rangePc")
        /\ AddCmd("t")
        /\ UNCHANGED <<quit_program, savestate_state>>
    BY <1>3 DEF ApplyOperation
  <2> QED
    BY <2>1, AddCmdTyped DEF ActivateDebugger, Commands
<1>4. CASE \E c \in Commands : JustCommand(c)
  BY <1>4, AddCmdTyped DEF JustCommand
<1>5. CASE ResetRequest
  BY <1>5 DEF ResetRequest, AskReset
<1>6. CASE SnapshotRequest("save") \/ SnapshotRequest("doRestore")
  BY <1>6 DEF SnapshotRequest
<1>7. CASE QuitRequest
  BY <1>7 DEF QuitRequest
<1> QED
  BY <1>1, <1>2, <1>3, <1>4, <1>5, <1>6, <1>7 DEF ApplyOperation, Commands

LEMMA DrainTypes ==
    ASSUME Types, BeginDrain \/ DrainOne \/ EndDrain
    PROVE  Types'
<1>1. CASE BeginDrain \/ EndDrain
  <2>1. PointTypes'
    BY <1>1 DEF BeginDrain, EndDrain, Types, TypeOK, PointTypes, EmuPoints
  <2> QED
    BY <1>1, <2>1, Kept DEF BeginDrain, EndDrain, Types, TypeOK
<1>2. CASE DrainOne
  <2>1. Head(m_pClientOpsStack) \in QueuedOps /\ Tail(m_pClientOpsStack) \in Seq(QueuedOps)
    BY <1>2 DEF DrainOne, Types, TypeOK, QueueTypes
  <2>2. ApplyOperation(Head(m_pClientOpsStack))
    BY <1>2 DEF DrainOne
  <2>3. QueueTypes' /\ FlagTypes' /\ EngineTypes'
    BY <1>2, <2>1, <2>2, ApplyTypes DEF DrainOne, RemainingOperations, QueueTypes
  <2> QED
    BY <1>2, <2>3, Kept DEF DrainOne, Types, TypeOK
<1> QED
  BY <1>1, <1>2

\* Chip set events.
LEMMA EventTypes ==
    ASSUME Types,
           TakeQuitRequest \/ SavestateCheck \/ CopperHit \/ CycleBreak \/ Specialties
    PROVE  Types'
<1>1. UiTypes' /\ Forwarding' /\ QueueTypes'
  BY Kept DEF TakeQuitRequest, SavestateCheck, CopperHit, CycleBreak, Specialties
<1>2. PointTypes'
  BY DEF TakeQuitRequest, SavestateCheck, CopperHit, CycleBreak, Specialties,
     emuVars, Types, TypeOK, PointTypes, EmuPoints
<1>3. FlagTypes'
  BY DEF TakeQuitRequest, SavestateCheck, AskReset, CopperHit, ActivateDebugger,
     CycleBreak, Specialties, Types, TypeOK, FlagTypes
<1>4. EngineTypes'
  BY DEF TakeQuitRequest, SavestateCheck, CopperHit, ActivateDebugger, CycleBreak,
     Specialties, engineVars, Types, TypeOK, EngineTypes, TraceModes
<1> QED
  BY <1>1, <1>2, <1>3, <1>4 DEF Types, TypeOK

\* debug() and debug_1().
LEMMA ConsoleTypes ==
    ASSUME Types, Debug \/ ConsoleLoop \/ ConsoleGet \/ ConsoleExec \/ LeaveDebug
    PROVE  Types'
<1>1. UiTypes' /\ Forwarding'
  BY Kept DEF Debug, ConsoleLoop, ConsoleGet, ConsoleExec, LeaveDebug
<1>2. CASE Debug
  <2>1. PointTypes'
    BY <1>2 DEF Debug, EnterConsole, Types, TypeOK, PointTypes, EmuPoints
  <2>2. FlagTypes'
    BY <1>2 DEF Debug, EnterConsole, Types, TypeOK, FlagTypes
  <2>3. EngineTypes'
    BY <1>2 DEF Debug, EnterConsole, Types, TypeOK, EngineTypes, TraceModes
  <2> QED
    BY <1>1, <1>2, <2>1, <2>2, <2>3, Kept DEF Debug, Types, TypeOK
<1>3. CASE ConsoleLoop
  <2>1. PointTypes'
    BY <1>3 DEF ConsoleLoop, Types, TypeOK, PointTypes, EmuPoints
  <2> QED
    BY <1>1, <1>3, <2>1, Kept DEF ConsoleLoop, Types, TypeOK
<1>4. CASE ConsoleGet
  <2>1. m_consoleCmdQueue' \in Seq(Commands) /\ PointTypes'
    BY <1>4 DEF ConsoleGet, Types, TypeOK, QueueTypes, PointTypes, EmuPoints
  <2>2. QueueTypes'
    BY <1>4, <2>1 DEF ConsoleGet, TakeEvent, Types, TypeOK, QueueTypes
  <2> QED
    BY <1>1, <1>4, <2>1, <2>2, Kept DEF ConsoleGet, Types, TypeOK
<1>5. CASE ConsoleExec
  <2>1. PointTypes'
    BY <1>5 DEF ConsoleExec, Types, TypeOK, PointTypes, EmuPoints
  <2>2. FlagTypes'
    BY <1>5 DEF ConsoleExec, Types, TypeOK, FlagTypes
  <2>3. EngineTypes'
    BY <1>5 DEF ConsoleExec, Types, TypeOK, EngineTypes, TraceModes
  <2> QED
    BY <1>1, <1>5, <2>1, <2>2, <2>3, Kept DEF ConsoleExec, Types, TypeOK
<1>6. CASE LeaveDebug
  <2>1. PointTypes'
    BY <1>6 DEF LeaveDebug, Types, TypeOK, PointTypes, EmuPoints
  <2>2. FlagTypes'
    BY <1>6 DEF LeaveDebug, TraceOn, Types, TypeOK, FlagTypes
  <2>3. EngineTypes'
    BY <1>6 DEF LeaveDebug, Types, TypeOK, EngineTypes, TraceModes
  <2> QED
    BY <1>1, <1>6, <2>1, <2>2, <2>3, Kept DEF LeaveDebug, Types, TypeOK
<1> QED
  BY <1>2, <1>3, <1>4, <1>5, <1>6

\* m68k_go's outer loop.
LEMMA GoTypes ==
    ASSUME Types, Go \/ GoReset \/ GoDebug \/ GoEnd
    PROVE  Types'
<1>1. UiTypes' /\ Forwarding' /\ QueueTypes'
  BY Kept DEF Go, GoReset, GoDebug, GoEnd
<1>2. PointTypes'
  BY DEF Go, GoReset, GoDebug, GoEnd, Types, TypeOK, PointTypes, FlagTypes, EmuPoints
<1>3. FlagTypes'
  BY DEF Go, GoReset, GoDebug, GoEnd, flagVars, Types, TypeOK, FlagTypes
<1>4. EngineTypes'
  BY DEF Go, GoReset, GoDebug, GoEnd, engineVars, Types, TypeOK, EngineTypes
<1> QED
  BY <1>1, <1>2, <1>3, <1>4 DEF Types, TypeOK

LEMMA NextTypes == Types /\ [Next]_vars => Types'
<1> SUFFICES ASSUME Types, [Next]_vars PROVE Types'
  OBVIOUS
<1>1. CASE UNCHANGED vars
  BY <1>1, Kept DEF vars, flagVars, Types, TypeOK
<1> QED
  BY <1>1, RequestTypes, DestroyTypes, ForwardTypes, DrainTypes, EventTypes,
     ConsoleTypes,
     GoTypes DEF Next, UiThread, EmuThread

\* Every reachable state satisfies the types and what they rest on.
THEOREM TypesInvariant == Spec => []Types
BY InitTypes, NextTypes, PTL DEF Spec

\* Every reachable state has the types declared for it.
THEOREM TypeCorrect == Spec => []TypeOK
BY TypesInvariant, PTL DEF Types

----------------------------------------------------------------------------
\* What the steps of a session do to the console: nothing, or a command is added
\* with its event, or console_get takes one.
LEMMA ConsoleStep ==
    ASSUME Types, [Next]_vars
    PROVE  \/ UNCHANGED <<m_consoleCmdQueue, m_bState>>
           \/ \E c \in Commands : AddCmd(c)
           \/ ConsoleGet
<1>1. CASE RequestToggleBreakpoint \/ DestroySendQ \/ ForwardToConsole
  <2>1. ForwardToConsole => ConsoleCommand(uiOp) \in Commands
    BY DEF ForwardToConsole, Types, Forwarding, ConsoleCommand, ConsoleOps, Commands
  <2> QED
    BY <1>1, <2>1 DEF RequestToggleBreakpoint, DestroySendQ, ForwardToConsole, Commands
<1>2. CASE DrainOne
  <2>1. ApplyOperation(Head(m_pClientOpsStack))
    BY <1>2 DEF DrainOne
  <2> QED
    BY <2>1 DEF ApplyOperation, BreakIn, GoLive, JustCommand, ResetRequest,
       SnapshotRequest, QuitRequest, Commands
<1>3. CASE \/ \E op \in Ops : Request(op)
           \/ Route \/ ForwardToQueue \/ RequestQuit \/ DestroyBegin \/ DestroyQuit
           \/ DestroyJoin
  BY <1>3 DEF Request, Route, ForwardToQueue, RequestQuit, DestroyBegin, DestroyQuit,
     DestroyJoin, queueVars
<1>4. CASE \/ BeginDrain \/ EndDrain \/ TakeQuitRequest \/ SavestateCheck \/ CopperHit
           \/ CycleBreak \/ Specialties \/ Debug \/ ConsoleLoop \/ ConsoleExec
           \/ LeaveDebug \/ Go \/ GoReset \/ GoDebug \/ GoEnd
  BY <1>4 DEF BeginDrain, EndDrain, TakeQuitRequest, SavestateCheck, CopperHit,
     CycleBreak, Specialties, Debug, ConsoleLoop, ConsoleExec, LeaveDebug, Go, GoReset,
     GoDebug, GoEnd, queueVars
<1>5. CASE UNCHANGED vars
  BY <1>5 DEF vars, queueVars
<1> QED
  BY <1>1, <1>2, <1>3, <1>4, <1>5 DEF Next, UiThread, EmuThread

\* The console's event is up only over a non-empty queue: commands are
\* appended with the event, and the only reader takes the event down.
LEMMA EventStep ==
    ASSUME Types, EventMeansCommand, [Next]_vars
    PROVE  EventMeansCommand'
<1> USE DEF EventMeansCommand
<1>1. ASSUME NEW c \in Commands, AddCmd(c) PROVE EventMeansCommand'
  BY <1>1 DEF AddCmd, Types, TypeOK, QueueTypes
<1>2. CASE UNCHANGED <<m_consoleCmdQueue, m_bState>>
  BY <1>2
<1>3. CASE ConsoleGet
  BY <1>3 DEF ConsoleGet, TakeEvent
<1> QED
  BY <1>1, <1>2, <1>3, ConsoleStep

\* popConsoleCmdWait never wakes over an empty queue.
THEOREM EventNeedsCommand == Spec => []EventMeansCommand
<1>1. Init => EventMeansCommand
  BY DEF Init, EventMeansCommand
<1> QED
  BY <1>1, EventStep, TypesInvariant, PTL DEF Spec

\* The console queue as a session sees it is the atomic console that
\* ConsoleQueue.tla is proved to implement, whatever the threads do with it.
Console == INSTANCE AtomicConsole WITH queue <- m_consoleCmdQueue, event <- m_bState

THEOREM SessionKeepsToConsole == Spec => Console!Spec
<1>1. Init => EventMeansCommand /\ Console!Init
  BY DEF Init, EventMeansCommand, Console!Init
<1>2. Types /\ EventMeansCommand /\ [Next]_vars => [Console!Next]_(Console!avars)
  <2> SUFFICES ASSUME Types, EventMeansCommand, [Next]_vars
               PROVE  Console!Next \/ UNCHANGED <<m_consoleCmdQueue, m_bState>>
    BY DEF Console!avars
  <2>1. ASSUME NEW c \in Commands, AddCmd(c) PROVE Console!Next
    BY <2>1 DEF AddCmd, Console!Next, Console!Add
  <2>2. CASE ConsoleGet
    BY <2>2 DEF ConsoleGet, TakeEvent, EventMeansCommand, Console!Next, Console!Take
  <2> QED
    BY <2>1, <2>2, ConsoleStep
<1> QED
  BY <1>1, <1>2, EventStep, TypesInvariant, PTL DEF Spec, Console!Spec

----------------------------------------------------------------------------
\* m68k_go never returns straight into the debugger.
LEMMA GoTargets ==
    ASSUME Types, Go
    PROVE  emu' \in {"exit", "goReset", "goDebug"}
BY DEF Types, TypeOK, FlagTypes, Go

\* A snapshot and a stop in the debugger exclude each other.
InDebugger == emu \in {"console", "wait", "exec", "leave"}

LEMMA SnapshotStep ==
    ASSUME Types, NoSnapshotWhileStopped, [Next]_vars
    PROVE  NoSnapshotWhileStopped'
<1> USE DEF NoSnapshotWhileStopped
<1> backTo \notin {"console", "wait", "exec", "leave"}
  BY DEF Types, TypeOK, PointTypes
<1>1. CASE UNCHANGED savestate_state /\ (emu' = emu \/ ~InDebugger')
  BY <1>1 DEF InDebugger
<1>2. CASE \/ \E op \in Ops : Request(op)
           \/ RequestToggleBreakpoint \/ RequestQuit \/ DestroyBegin \/ UiThread
           \/ UNCHANGED vars
  BY <1>1, <1>2 DEF Request, RequestToggleBreakpoint, RequestQuit, DestroyBegin,
     UiThread, Route,
     ForwardToConsole, ForwardToQueue, DestroyQuit, DestroySendQ, DestroyJoin, vars,
     emuVars, engineVars
<1>3. CASE DrainOne \/ SavestateCheck
  BY <1>3 DEF DrainOne, SavestateCheck, emuVars
<1>4. CASE Debug
  BY <1>4 DEF Debug, EnterConsole, SnapshotPending
<1>5. CASE ConsoleLoop \/ ConsoleGet \/ ConsoleExec
  BY <1>5 DEF ConsoleLoop, ConsoleGet, ConsoleExec, engineVars
<1>6. CASE LeaveDebug
  BY <1>6 DEF LeaveDebug
<1>7. CASE \/ BeginDrain \/ EndDrain \/ TakeQuitRequest \/ CopperHit \/ CycleBreak
           \/ Specialties \/ Go \/ GoReset \/ GoDebug \/ GoEnd
  BY <1>7, GoTargets
     DEF BeginDrain, EndDrain, TakeQuitRequest, CopperHit, CycleBreak, Specialties,
     GoReset, GoDebug, GoEnd, emuVars, engineVars
<1> QED
  BY <1>2, <1>3, <1>4, <1>5, <1>6, <1>7 DEF Next, EmuThread

\* No snapshot is pending while the CPU is stopped in the debugger.
THEOREM StopExcludesSnapshot == Spec => []NoSnapshotWhileStopped
<1>1. Init => NoSnapshotWhileStopped
  BY DEF Init, NoSnapshotWhileStopped
<1> QED
  BY <1>1, SnapshotStep, TypesInvariant, PTL DEF Spec

----------------------------------------------------------------------------
\* The UI can see that the CPU is stopped.
LEMMA VisibleStep ==
    ASSUME Types, StoppedIsVisible, [Next]_vars
    PROVE  StoppedIsVisible'
<1> USE DEF StoppedIsVisible, Closing
<1> backTo # "wait"
  BY DEF Types, TypeOK, PointTypes
<1>1. CASE \/ \E op \in Ops : Request(op)
           \/ RequestToggleBreakpoint \/ RequestQuit \/ DestroyBegin \/ UiThread
  BY <1>1 DEF Request, RequestToggleBreakpoint, RequestQuit, DestroyBegin, UiThread,
     Route,
     ForwardToConsole, ForwardToQueue, DestroyQuit, DestroySendQ, DestroyJoin,
     emuVars, flagVars
<1>2. CASE ConsoleLoop \/ ConsoleGet
  BY <1>2 DEF ConsoleLoop, ConsoleGet, uiVars, flagVars
<1>3. CASE DrainOne \/ SavestateCheck \/ TakeQuitRequest \/ CopperHit \/ CycleBreak
  BY <1>3 DEF DrainOne, SavestateCheck, TakeQuitRequest, CopperHit, CycleBreak, emuVars
<1>4. CASE Debug
  BY <1>4 DEF Debug, EnterConsole
<1>5. CASE ConsoleExec \/ LeaveDebug
  BY <1>5 DEF ConsoleExec, LeaveDebug
<1>6. CASE BeginDrain \/ EndDrain \/ Specialties \/ Go \/ GoReset \/ GoDebug \/ GoEnd
  BY <1>6, GoTargets DEF BeginDrain, EndDrain, Specialties, GoReset, GoDebug, GoEnd
<1>7. CASE UNCHANGED vars
  BY <1>7 DEF vars, uiVars, flagVars, emuVars
<1> QED
  BY <1>1, <1>2, <1>3, <1>4, <1>5, <1>6, <1>7 DEF Next, EmuThread

\* While the emulator thread waits for a command the forwarding callback sees
\* debugger_active, unless the window is closing.
THEOREM StopIsVisible == Spec => []StoppedIsVisible
<1>1. Init => StoppedIsVisible
  BY DEF Init, StoppedIsVisible
<1> QED
  BY <1>1, VisibleStep, TypesInvariant, PTL DEF Spec

----------------------------------------------------------------------------
\* A debugger that is active, or a breakpoint that is enabled, stays armed.
\* Armed speaks of the points where instructions execute; to come back to one
\* of them armed, debug() has to be entered with "debugging" up, left with a
\* trace condition or a scheduled break, and a reset has to go through debug().
ArmedInDebugger ==
    ~Closing /\ ~debugSkipped =>
        /\ emu \in {"debug", "console", "wait", "exec"} => debugging
        /\ emu = "leave" /\ debugger_active =>
             debugging /\ (trace_mode # "none" \/ cycleEvent)
        /\ emu \in {"go", "goReset", "goDebug"} /\ (debugger_active \/ bpEnabled) =>
             debugging
        /\ emu \in {"console", "wait", "exec"} => debugger_active

ArmedInv == Armed /\ ArmedInDebugger

LEMMA ArmedStep ==
    ASSUME Types, ArmedInv, [Next]_vars
    PROVE  ArmedInv'
<1> USE DEF ArmedInv, Armed, ArmedInDebugger, Closing
<1> backTo \in {"run", "goEnd"}
  BY DEF Types, TypeOK, PointTypes
<1>1. CASE \/ \E op \in Ops : Request(op)
           \/ RequestToggleBreakpoint \/ RequestQuit \/ DestroyBegin \/ UiThread
  BY <1>1 DEF Request, RequestToggleBreakpoint, RequestQuit, DestroyBegin, UiThread,
     Route,
     ForwardToConsole, ForwardToQueue, DestroyQuit, DestroySendQ, DestroyJoin,
     emuVars, flagVars, engineVars
<1>2. CASE BeginDrain \/ EndDrain \/ TakeQuitRequest \/ SavestateCheck \/ CycleBreak
  BY <1>2 DEF BeginDrain, EndDrain, TakeQuitRequest, SavestateCheck, CycleBreak,
     uiVars, emuVars, flagVars, engineVars
<1>3. CASE CopperHit
  BY <1>3 DEF CopperHit, ActivateDebugger, uiVars, emuVars
<1>4. CASE DrainOne
  <2>1. ApplyOperation(Head(m_pClientOpsStack))
    BY <1>4 DEF DrainOne
  <2>2. \/ UNCHANGED <<debugger_active, debugging, brk>>
        \/ ActivateDebugger("rangePc")
    BY <2>1 DEF ApplyOperation, BreakIn, GoLive, JustCommand, ResetRequest,
       SnapshotRequest, QuitRequest
  <2>3. UNCHANGED <<ui, emu, bpEnabled, cycleEvent, debugSkipped>> /\ emu = "drain"
    BY <1>4 DEF DrainOne, uiVars, emuVars
  <2>4. CASE UNCHANGED <<debugger_active, debugging, brk>>
    BY <2>3, <2>4
  <2>5. CASE ActivateDebugger("rangePc") /\ debugger_active
    BY <2>3, <2>5 DEF ActivateDebugger, Types, TypeOK, FlagTypes
  <2>6. CASE ActivateDebugger("rangePc") /\ ~debugger_active
    BY <2>3, <2>6 DEF ActivateDebugger, Types, TypeOK, FlagTypes
  <2> QED
    BY <2>2, <2>4, <2>5, <2>6
<1>5. CASE Specialties
  BY <1>5 DEF Specialties, uiVars, engineVars
<1>6. CASE Debug
  BY <1>6 DEF Debug, EnterConsole, uiVars
<1>7. CASE ConsoleLoop \/ ConsoleGet
  BY <1>7 DEF ConsoleLoop, ConsoleGet, uiVars, flagVars, engineVars
<1>8. CASE ConsoleExec
  BY <1>8 DEF ConsoleExec, Resuming, uiVars
<1>9. CASE LeaveDebug
  BY <1>9 DEF LeaveDebug, TraceOn, uiVars
<1>10. CASE Go
  BY <1>10, GoTargets DEF Go, uiVars, engineVars
<1>11. CASE GoReset \/ GoDebug \/ GoEnd
  BY <1>11 DEF GoReset, GoDebug, GoEnd, uiVars, flagVars, engineVars
<1>12. CASE UNCHANGED vars
  BY <1>12 DEF vars, uiVars, emuVars, flagVars, engineVars
<1> QED
  BY <1>1, <1>2, <1>3, <1>4, <1>5, <1>6, <1>7, <1>8, <1>9, <1>10, <1>11, <1>12
     DEF Next, EmuThread

\* The arming is never lost, but for debug()'s early return during a snapshot.
THEOREM ArmingKept == Spec => []Armed
<1>1. Init => ArmedInv
  BY DEF Init, ArmedInv, Armed, ArmedInDebugger
<1> QED
  BY <1>1, ArmedStep, TypesInvariant, PTL DEF Spec, ArmedInv

----------------------------------------------------------------------------
\* Where a break-in or a single step is on its way to the console: "t" is in
\* hand, debug() is being left with its trace mode, or the CPU runs with the
\* debugger active and a trace mode that the next look at debug() meets.
StopPending ==
    \/ emu = "exec" /\ cmd = "t"
    \/ emu = "leave" /\ debugger_active /\ trace_mode = "skipIns"
    \/ /\ emu \in {"run", "drain", "debug", "go", "goReset", "goDebug", "goEnd"}
       /\ debugger_active
       /\ trace_mode \in {"rangePc", "skipIns", "none"}

\* What may take a stop away: the program quits, or a snapshot swallows it.
Excused == QuitAsked \/ debugSkipped

StopKept == StopPending => StopPending' \/ emu' = "console" \/ Excused'

LEMMA StopStep ==
    ASSUME Types, ArmedInv, [Next]_vars
    PROVE  StopKept
<1> SUFFICES ASSUME StopPending, ~Excused' PROVE StopPending' \/ emu' = "console"
  BY DEF StopKept
<1> USE DEF StopPending, Excused, QuitAsked, Closing
<1> backTo \in {"run", "goEnd"}
  BY DEF Types, TypeOK, PointTypes
<1>1. CASE \/ \E op \in Ops : Request(op)
           \/ RequestToggleBreakpoint \/ RequestQuit \/ DestroyBegin \/ UiThread
  BY <1>1 DEF Request, RequestToggleBreakpoint, RequestQuit, DestroyBegin, UiThread,
     Route,
     ForwardToConsole, ForwardToQueue, DestroyQuit, DestroySendQ, DestroyJoin,
     emuVars, flagVars, engineVars
<1>2. CASE BeginDrain \/ EndDrain \/ TakeQuitRequest \/ SavestateCheck \/ CycleBreak
  BY <1>2 DEF BeginDrain, EndDrain, TakeQuitRequest, SavestateCheck, CycleBreak,
     uiVars, emuVars, flagVars, engineVars
<1>3. CASE CopperHit
  BY <1>3 DEF CopperHit, ActivateDebugger, emuVars
<1>4. CASE DrainOne
  <2>1. ApplyOperation(Head(m_pClientOpsStack)) /\ UNCHANGED emu
    BY <1>4 DEF DrainOne, emuVars
  <2>2. \/ UNCHANGED <<debugger_active, trace_mode>>
        \/ ActivateDebugger("rangePc")
    BY <2>1 DEF ApplyOperation, BreakIn, GoLive, JustCommand, ResetRequest,
       SnapshotRequest, QuitRequest
  <2> QED
    BY <1>4, <2>1, <2>2 DEF DrainOne, ActivateDebugger
<1>5. CASE Specialties
  BY <1>5 DEF Specialties, engineVars
<1>6. CASE Debug
  BY <1>6 DEF Debug, EnterConsole, TraceHits
<1>7. CASE ConsoleLoop \/ ConsoleGet
  BY <1>7 DEF ConsoleLoop, ConsoleGet
<1>8. CASE ConsoleExec
  \* In debug_line debugger_active is still up: only a quit would have lowered it.
  <2>1. debugger_active
    BY <1>8 DEF ConsoleExec, ArmedInv, ArmedInDebugger, uiVars
  <2> QED
    BY <1>8, <2>1 DEF ConsoleExec, Resuming
<1>9. CASE LeaveDebug
  BY <1>9 DEF LeaveDebug
<1>10. CASE Go
  BY <1>10, GoTargets DEF Go, engineVars, Types, TypeOK, FlagTypes
<1>11. CASE GoReset \/ GoDebug \/ GoEnd
  BY <1>11 DEF GoReset, GoDebug, GoEnd, flagVars, engineVars
<1>12. CASE UNCHANGED vars
  BY <1>12 DEF vars, emuVars, flagVars, engineVars
<1> QED
  BY <1>1, <1>2, <1>3, <1>4, <1>5, <1>6, <1>7, <1>8, <1>9, <1>10, <1>11, <1>12
     DEF Next, EmuThread

\* A break-in or a step under way is never dropped: no operation, copper event,
\* reset or pass through m68k_go takes it away before the console is reached.
\* What fairness adds to it is that the way is finished (BreakInStops and
\* StepComesBack).
THEOREM StopNeverDropped == Spec => [][StopKept]_vars
<1>1. Init => ArmedInv
  BY DEF Init, ArmedInv, Armed, ArmedInDebugger
<1>2. Types /\ ArmedInv /\ [Next]_vars => [StopKept]_vars
  BY StopStep
<1> QED
  BY <1>1, <1>2, ArmedStep, TypesInvariant, PTL DEF Spec

----------------------------------------------------------------------------
\* Once destroy() is past its quit flag and QuitCannotBeMissed holds, nothing
\* keeps the emulator thread from its end.

\* At goEnd debug() returned, or would have returned, to there; a command is in
\* hand exactly in debug_line.
PointsAgree ==
    /\ emu = "goEnd" => backTo = "goEnd"
    /\ (emu = "exec") <=> (cmd # "none")

LEMMA PointsStep ==
    ASSUME Types, PointsAgree, [Next]_vars
    PROVE  PointsAgree'
<1> USE DEF PointsAgree
<1> backTo \in {"run", "goEnd"} /\ "none" \notin Commands
  BY DEF Types, TypeOK, PointTypes, Commands
<1>1. CASE \/ \E op \in Ops : Request(op)
           \/ RequestToggleBreakpoint \/ RequestQuit \/ DestroyBegin \/ UiThread
           \/ TakeQuitRequest \/ SavestateCheck \/ CopperHit \/ CycleBreak \/ DrainOne
           \/ UNCHANGED vars
  BY <1>1 DEF Request, RequestToggleBreakpoint, RequestQuit, DestroyBegin, UiThread,
     Route,
     ForwardToConsole, ForwardToQueue, DestroyQuit, DestroySendQ, DestroyJoin,
     TakeQuitRequest, SavestateCheck, CopperHit, CycleBreak, DrainOne, vars, emuVars
<1>2. CASE \/ BeginDrain \/ EndDrain \/ Specialties \/ Debug \/ ConsoleLoop
           \/ LeaveDebug \/ Go \/ GoReset \/ GoDebug \/ GoEnd
  BY <1>2, GoTargets DEF BeginDrain, EndDrain, Specialties, Debug, EnterConsole,
     ConsoleLoop, LeaveDebug, Go, GoReset, GoDebug, GoEnd
<1>3. CASE ConsoleGet
  <2>1. m_consoleCmdQueue # <<>> => Head(m_consoleCmdQueue) \in Commands
    BY DEF Types, TypeOK, QueueTypes
  <2> QED
    BY <1>3, <2>1 DEF ConsoleGet
<1>4. CASE ConsoleExec
  BY <1>4 DEF ConsoleExec
<1> QED
  BY <1>1, <1>2, <1>3, <1>4 DEF Next, EmuThread

\* The quit is on its way: after "q" was sent a thread that is, or may yet come,
\* to wait for a command finds the event up.
QuitSure ==
    /\ ui \in {"quitCommand", "join", "closed"}
    /\ QuitCannotBeMissed
    /\ ui # "quitCommand" /\ emu \in {"debug", "console", "wait"} => m_bState

\* How far the emulator thread is from its end.
Distance ==
    CASE emu = "exit"              -> 0
      [] emu = "go"                -> 1
      [] emu \in {"run", "drain"}  -> 2
      [] emu = "leave"             -> 3
      [] emu = "exec"              -> 4
      [] emu = "wait"              -> 5
      [] emu = "console"           -> 6
      [] emu = "debug"             -> 7
      [] OTHER                     -> 8

QuitKept == QuitSure => QuitSure' /\ Distance' <= Distance

\* Taking the head of the console queue, and adding a command that resumes.
LEMMA ResumingTail ==
    ASSUME Types, m_consoleCmdQueue # <<>>,
           \A i \in DOMAIN m_consoleCmdQueue : m_consoleCmdQueue[i] \in Resuming
    PROVE  /\ Head(m_consoleCmdQueue) \in Resuming
           /\ \A i \in DOMAIN Tail(m_consoleCmdQueue) :
                  Tail(m_consoleCmdQueue)[i] \in Resuming
<1> DEFINE q == m_consoleCmdQueue
<1>1. q \in Seq(Commands)
  BY DEF Types, TypeOK, QueueTypes
<1> HIDE DEF q
<1>2. \A i \in DOMAIN Tail(q) : i + 1 \in DOMAIN q /\ Tail(q)[i] = q[i + 1]
  BY <1>1
<1>3. q # <<>> => 1 \in DOMAIN q /\ Head(q) = q[1]
  BY <1>1
<1> QED
  BY <1>2, <1>3 DEF q

LEMMA ResumingAppend ==
    ASSUME Types, NEW c \in Resuming, AddCmd(c),
           \A i \in DOMAIN m_consoleCmdQueue : m_consoleCmdQueue[i] \in Resuming
    PROVE  \A i \in DOMAIN m_consoleCmdQueue' : m_consoleCmdQueue'[i] \in Resuming
<1> DEFINE q == m_consoleCmdQueue
           r == m_consoleCmdQueue'
<1>1. q \in Seq(Commands) /\ r = Append(q, c) /\ c \in Commands
  BY DEF Types, TypeOK, QueueTypes, AddCmd, Resuming, Commands
<1> HIDE DEF q, r
<1>2. \A i \in DOMAIN r : (i \in DOMAIN q /\ r[i] = q[i]) \/ r[i] = c
  BY <1>1
<1> QED
  BY <1>2 DEF q, r

LEMMA QuitStep ==
    ASSUME Types, EventMeansCommand, PointsAgree, [Next]_vars
    PROVE  QuitKept
<1> SUFFICES ASSUME QuitSure PROVE QuitSure' /\ Distance' <= Distance
  BY DEF QuitKept
<1> USE DEF QuitSure, QuitCannotBeMissed
<1> backTo = "run" /\ emu # "goEnd" /\ quit_program \in {"quitAsked", "quit"}
  BY DEF PointsAgree
<1> emu \in EmuPoints
  BY DEF Types, TypeOK, PointTypes
<1>1. CASE UNCHANGED vars
  BY <1>1 DEF vars, uiVars, queueVars, flagVars, emuVars, Distance
<1>2. CASE \/ \E op \in Ops : Request(op)
           \/ RequestToggleBreakpoint \/ RequestQuit \/ DestroyBegin
           \/ Route \/ ForwardToConsole \/ ForwardToQueue \/ DestroyQuit
  BY <1>2 DEF Request, RequestToggleBreakpoint, RequestQuit, DestroyBegin, Route,
     ForwardToConsole,
     ForwardToQueue, DestroyQuit
<1>3. CASE DestroySendQ
  <2>1. "q" \in Resuming /\ AddCmd("q")
    BY <1>3 DEF DestroySendQ, Resuming
  <2>2. \A i \in DOMAIN m_consoleCmdQueue' : m_consoleCmdQueue'[i] \in Resuming
    BY <2>1, ResumingAppend
  <2> QED
    BY <1>3, <2>1, <2>2 DEF DestroySendQ, AddCmd, flagVars, emuVars, Distance
<1>4. CASE DestroyJoin
  BY <1>4 DEF DestroyJoin, queueVars, flagVars, emuVars, Distance
<1>5. CASE BeginDrain \/ EndDrain
  <2>1. UNCHANGED <<ui, queueVars, quit_program, modeChange, backTo, cmd>>
    BY <1>5 DEF BeginDrain, EndDrain, uiVars, flagVars
  <2>2. emu \in {"run", "drain"} /\ emu' \in {"run", "drain"}
    BY <1>5 DEF BeginDrain, EndDrain
  <2> QED
    BY <2>1, <2>2 DEF queueVars, Distance
<1>6. CASE DrainOne
  <2> DEFINE op == Head(m_pClientOpsStack)
  <2>1. ApplyOperation(op) /\ UNCHANGED <<ui, modeChange, emu, backTo, cmd>>
    BY <1>6 DEF DrainOne, uiVars, emuVars
  <2>2. /\ op # "CopperBreakpoint"
        /\ \A i \in DOMAIN m_pClientOpsStack' : m_pClientOpsStack'[i] # "CopperBreakpoint"
    <3> DEFINE s == m_pClientOpsStack
    <3>1. s \in Seq(QueuedOps) /\ s # <<>> /\ m_pClientOpsStack' = Tail(s)
      BY <1>6 DEF DrainOne, RemainingOperations, Types, TypeOK, QueueTypes
    <3> HIDE DEF s
    <3>2. \A i \in DOMAIN Tail(s) : i + 1 \in DOMAIN s /\ Tail(s)[i] = s[i + 1]
      BY <3>1
    <3>3. 1 \in DOMAIN s /\ Head(s) = s[1]
      BY <3>1
    <3> QED
      BY <3>1, <3>2, <3>3 DEF s
  <2>3. quit_program' \in {quit_program, "quit"}
    BY <2>1 DEF ApplyOperation, BreakIn, GoLive, JustCommand, ResetRequest, AskReset,
       SnapshotRequest, QuitRequest
  <2>4. UNCHANGED <<m_consoleCmdQueue, m_bState>> \/ \E c \in Resuming : AddCmd(c)
    <3> HIDE DEF op
    <3> QED
      BY <2>1, <2>2 DEF ApplyOperation, BreakIn, GoLive, JustCommand, ResetRequest,
         SnapshotRequest, QuitRequest, Resuming
  <2>5. \A i \in DOMAIN m_consoleCmdQueue' : m_consoleCmdQueue'[i] \in Resuming
    BY <2>4, ResumingAppend
  <2>6. emu = "drain"
    BY <1>6 DEF DrainOne
  <2> QED
    BY <2>1, <2>2, <2>3, <2>5, <2>6 DEF Distance
<1>7. CASE TakeQuitRequest \/ CopperHit \/ CycleBreak
  <2>1. /\ UNCHANGED <<ui, queueVars, emuVars>>
        /\ quit_program' \in {quit_program, "quit"} /\ modeChange'
    BY <1>7 DEF TakeQuitRequest, CopperHit, CycleBreak, uiVars
  <2> QED
    BY <2>1 DEF queueVars, emuVars, Distance
<1>8. CASE SavestateCheck
  BY <1>8 DEF SavestateCheck, AskReset, uiVars, queueVars, emuVars, Distance
<1>9. CASE Specialties
  BY <1>9 DEF Specialties, uiVars, queueVars, Distance
<1>10. CASE Debug
  <2>1. UNCHANGED <<ui, queueVars, quit_program, modeChange, backTo, cmd>>
    BY <1>10 DEF Debug, uiVars
  <2>2. emu = "debug" /\ emu' \in {"run", "console"}
    BY <1>10 DEF Debug, EnterConsole
  <2> QED
    BY <2>1, <2>2 DEF queueVars, Distance
<1>11. CASE ConsoleLoop
  BY <1>11 DEF ConsoleLoop, uiVars, queueVars, flagVars, Distance
<1>12. CASE ConsoleGet
  <2>1. m_consoleCmdQueue # <<>>
    BY <1>12 DEF ConsoleGet, TakeEvent, EventMeansCommand
  <2> QED
    BY <1>12, <2>1, ResumingTail DEF ConsoleGet, uiVars, flagVars, Distance
<1>13. CASE ConsoleExec
  <2>1. cmd \in Resuming
    BY <1>13 DEF ConsoleExec, PointsAgree
  <2>2. /\ UNCHANGED <<ui, queueVars, backTo>>
        /\ quit_program' \in {quit_program, "quitAsked"} /\ modeChange' /\ cmd' = "none"
    BY <1>13 DEF ConsoleExec, uiVars
  <2>3. emu = "exec" /\ emu' = "leave"
    BY <1>13, <2>1 DEF ConsoleExec
  <2> QED
    BY <2>2, <2>3 DEF queueVars, Distance
<1>14. CASE LeaveDebug
  BY <1>14 DEF LeaveDebug, TraceOn, uiVars, queueVars, Distance
<1>15. CASE Go
  BY <1>15 DEF Go, uiVars, queueVars, Distance
<1>16. CASE GoReset \/ GoDebug \/ GoEnd
  BY <1>16 DEF GoReset, GoDebug, GoEnd
<1> QED
  BY <1>1, <1>2, <1>3, <1>4, <1>5, <1>6, <1>7, <1>8, <1>9, <1>10, <1>11, <1>12, <1>13,
     <1>14, <1>15, <1>16 DEF Next, UiThread, EmuThread

\* Closing the window once QuitCannotBeMissed holds: the condition is never
\* lost again, the event is up wherever the emulator thread may come to wait, and
\* every step leaves the thread as near to its end as it was, or nearer.  What
\* fairness adds is that it moves (DestroyEndsClean).
THEOREM QuitNeverLost == Spec => [][QuitKept]_vars
<1>1. Init => EventMeansCommand /\ PointsAgree
  BY DEF Init, EventMeansCommand, PointsAgree
<1>2. Types /\ EventMeansCommand /\ PointsAgree /\ [Next]_vars => [QuitKept]_vars
  BY QuitStep
<1> QED
  BY <1>1, <1>2, EventStep, PointsStep, TypesInvariant, PTL DEF Spec
----------------------------------------------------------------------------
\* What may keep the window from closing is known.

\* No operation resets the machine, loads a snapshot or leaves a command in the
\* console that does not resume.
OrderlyOps ==
    Ops \cap {"Reset", "LoadSnapshot", "ToggleBreakpoint", "CopperBreakpoint"} = {}

Quitting == ui \in {"quitCommand", "join", "closed"}

\* With such operations only a quit lowers the CPU loop, and m68k_go is entered
\* for nothing else.
NothingResets ==
    /\ savestate_state \in {"none", "save"}
    /\ quit_program \in {"none", "quitAsked", "quit"}
    /\ modeChange \/ emu = "go" \/ Quitting => quit_program # "none"
    /\ Quitting => modeChange
    /\ emu \notin {"goReset", "goDebug", "goEnd"} /\ backTo = "run"
    /\ \A i \in DOMAIN m_consoleCmdQueue : m_consoleCmdQueue[i] \in Resuming
    /\ cmd \in Resuming \cup {"none"}

LEMMA OrderlyStep ==
    ASSUME OrderlyOps, Types, NothingResets, [Next]_vars
    PROVE  NothingResets'
<1> USE DEF NothingResets, Quitting
<1>1. CASE UNCHANGED vars
  BY <1>1 DEF vars, uiVars, queueVars, flagVars, engineVars, emuVars
<1>2. CASE (\E op \in Ops : Request(op)) \/ RequestQuit \/ DestroyBegin \/ Route \/ ForwardToQueue
  BY <1>2 DEF Request, RequestQuit, DestroyBegin, Route, ForwardToQueue, queueVars,
     flagVars,
     engineVars, emuVars
<1>3. CASE RequestToggleBreakpoint
  BY <1>3 DEF RequestToggleBreakpoint, OrderlyOps
<1>4. CASE ForwardToConsole
  <2>1. ConsoleCommand(uiOp) \in Resuming
    BY <1>4 DEF ForwardToConsole, Types, Forwarding, ConsoleOps, ConsoleCommand,
       Resuming
  <2>2. \A i \in DOMAIN m_consoleCmdQueue' : m_consoleCmdQueue'[i] \in Resuming
    BY <1>4, <2>1, ResumingAppend DEF ForwardToConsole
  <2> QED
    BY <1>4, <2>2 DEF ForwardToConsole, flagVars, engineVars, emuVars
<1>5. CASE DestroyQuit \/ DestroyJoin
  BY <1>5 DEF DestroyQuit, DestroyJoin, queueVars, flagVars, engineVars, emuVars
<1>6. CASE DestroySendQ
  <2>1. "q" \in Resuming
    BY DEF Resuming
  <2>2. \A i \in DOMAIN m_consoleCmdQueue' : m_consoleCmdQueue'[i] \in Resuming
    BY <1>6, <2>1, ResumingAppend DEF DestroySendQ
  <2> QED
    BY <1>6, <2>2 DEF DestroySendQ, flagVars, engineVars, emuVars
<1>7. CASE BeginDrain \/ EndDrain
  BY <1>7 DEF BeginDrain, EndDrain, uiVars, queueVars, flagVars, engineVars
<1>8. CASE DrainOne
  <2> DEFINE op == Head(m_pClientOpsStack)
  <2>1. op \in QueuedOps
    BY <1>8 DEF DrainOne, Types, TypeOK, QueueTypes
  <2>2. ApplyOperation(op) /\ UNCHANGED <<ui, modeChange, emu, backTo, cmd>>
    BY <1>8 DEF DrainOne, uiVars, emuVars
  <2> HIDE DEF op
  <2>3. /\ UNCHANGED <<m_consoleCmdQueue, m_bState>> \/ \E c \in Resuming : AddCmd(c)
        /\ quit_program' \in {quit_program, "quit"}
        /\ savestate_state' \in {savestate_state, "save"}
    BY <2>1, <2>2 DEF ApplyOperation, BreakIn, GoLive, JustCommand, ResetRequest,
       SnapshotRequest, QuitRequest, Resuming, OrderlyOps, QueuedOps
  <2>4. \A i \in DOMAIN m_consoleCmdQueue' : m_consoleCmdQueue'[i] \in Resuming
    BY <2>3, ResumingAppend
  <2> QED
    BY <2>2, <2>3, <2>4
<1>9. CASE TakeQuitRequest \/ SavestateCheck \/ CopperHit \/ CycleBreak
  <2>1. CASE TakeQuitRequest
    BY <1>9, <2>1 DEF TakeQuitRequest, uiVars, queueVars, engineVars, emuVars
  <2>2. CASE SavestateCheck
    BY <1>9, <2>2 DEF SavestateCheck, uiVars, queueVars, emuVars
  <2>3. CASE CopperHit \/ CycleBreak
    BY <1>9, <2>3 DEF CopperHit, CycleBreak, uiVars, queueVars, emuVars
  <2> QED
    BY <1>9, <2>1, <2>2, <2>3
<1>10. CASE Specialties
  BY <1>10 DEF Specialties, uiVars, queueVars, engineVars
<1>11. CASE Debug
  BY <1>11 DEF Debug, EnterConsole, uiVars, queueVars
<1>12. CASE ConsoleLoop
  BY <1>12 DEF ConsoleLoop, uiVars, queueVars, flagVars, engineVars
<1>13. CASE ConsoleGet
  <2>1. CASE m_consoleCmdQueue = <<>>
    BY <1>13, <2>1 DEF ConsoleGet, uiVars, flagVars, engineVars
  <2>2. CASE m_consoleCmdQueue # <<>>
    BY <1>13, <2>2, ResumingTail DEF ConsoleGet, uiVars, flagVars, engineVars
  <2> QED
    BY <2>1, <2>2
<1>14. CASE ConsoleExec
  BY <1>14 DEF ConsoleExec, uiVars, queueVars
<1>15. CASE LeaveDebug
  BY <1>15 DEF LeaveDebug, uiVars, queueVars
<1>16. CASE Go
  BY <1>16 DEF Go, uiVars, queueVars, engineVars
<1>17. CASE GoReset \/ GoDebug \/ GoEnd
  BY <1>17 DEF GoReset, GoDebug, GoEnd
<1> QED
  BY <1>1, <1>2, <1>3, <1>4, <1>5, <1>6, <1>7, <1>8, <1>9, <1>10, <1>11, <1>12, <1>13,
     <1>14, <1>15, <1>16, <1>17 DEF Next, UiThread, EmuThread

\* In a session without resets, loads and breakpoints closing the window cannot
\* hang: from the moment uae_quit has set its flag the condition of
\* DestroyEndsClean holds, wherever the emulator thread is and whatever is
\* queued.  With any of those four operations TLC finds it broken.
THEOREM OrderlyClose ==
    ASSUME OrderlyOps
    PROVE  Spec /\ savestate_state = "none" => [](Quitting => QuitSure)
<1>1. Init /\ savestate_state = "none" => NothingResets /\ (Quitting => QuitSure)
  BY DEF Init, NothingResets, Quitting
<1>2. Types /\ NothingResets /\ [Next]_vars => NothingResets'
  BY OrderlyStep
<1>3. Types /\ NothingResets /\ NothingResets' /\ (Quitting => QuitSure) /\ QuitKept
        /\ [Next]_vars /\ Types'
      => (Quitting => QuitSure)'
  <2> SUFFICES ASSUME Types, Types', NothingResets', Quitting => QuitSure, QuitKept,
                      [Next]_vars, Quitting'
               PROVE  QuitSure'
    OBVIOUS
  <2>1. CASE Quitting
    BY <2>1 DEF QuitKept
  <2>2. CASE ~Quitting
    <3>1. DestroyQuit
      BY <2>2 DEF Quitting, Next, Request, RequestToggleBreakpoint, RequestQuit,
         DestroyBegin, UiThread,
         Route, ForwardToConsole, ForwardToQueue, DestroySendQ, DestroyJoin, BeginDrain,
         TakeQuitRequest, SavestateCheck, CopperHit, CycleBreak, Specialties, EmuThread,
         DrainOne, EndDrain, Debug, ConsoleLoop, ConsoleGet, ConsoleExec, LeaveDebug,
         Go,
         GoReset, GoDebug, GoEnd, vars, uiVars
    <3>2. \A i \in DOMAIN m_pClientOpsStack' : m_pClientOpsStack'[i] # "CopperBreakpoint"
      BY DEF Types, TypeOK, QueueTypes, OrderlyOps, QueuedOps
    <3> QED
      BY <3>1, <3>2 DEF DestroyQuit, QuitSure, QuitCannotBeMissed, NothingResets,
         Quitting
  <2> QED
    BY <2>1, <2>2
<1>4. Init => EventMeansCommand /\ PointsAgree
  BY DEF Init, EventMeansCommand, PointsAgree
<1>5. Types /\ EventMeansCommand /\ PointsAgree /\ [Next]_vars => QuitKept
  BY QuitStep
<1> QED
  BY <1>1, <1>2, <1>3, <1>4, <1>5, EventStep, PointsStep, TypesInvariant, PTL DEF Spec

----------------------------------------------------------------------------
\* What may swallow a stop is known, too.

\* No operation saves or loads a snapshot.
NoSnapshots == Ops \cap {"SaveSnapshot", "LoadSnapshot"} = {}

\* A stop can only be dropped by a quit.
StopKeptButForQuit == StopPending => StopPending' \/ emu' = "console" \/ QuitAsked'

LEMMA SkippedStep ==
    ASSUME NoSnapshots, Types, savestate_state = "none" /\ ~debugSkipped, [Next]_vars
    PROVE  savestate_state' = "none" /\ ~debugSkipped'
<1>1. CASE DrainOne
  <2> DEFINE op == Head(m_pClientOpsStack)
  <2>1. op \in QueuedOps /\ ApplyOperation(op) /\ UNCHANGED debugSkipped
    BY <1>1 DEF DrainOne, Types, TypeOK, QueueTypes
  <2> HIDE DEF op
  <2> QED
    BY <2>1 DEF ApplyOperation, BreakIn, GoLive, JustCommand, ResetRequest,
       SnapshotRequest, QuitRequest, NoSnapshots, QueuedOps
<1>2. CASE Debug \/ SavestateCheck \/ GoReset
  <2>1. CASE Debug
    <3>1. ~SnapshotPending
      BY DEF SnapshotPending
    <3>2. UNCHANGED savestate_state
      BY <2>1 DEF Debug
    <3>3. UNCHANGED debugSkipped
      BY <2>1, <3>1, Zenon DEF Debug
    <3> QED
      BY <3>2, <3>3
  <2>2. CASE SavestateCheck \/ GoReset
    BY <2>2 DEF SavestateCheck, GoReset
  <2> QED
    BY <1>2, <2>1, <2>2
<1>3. CASE ~(DrainOne \/ Debug \/ SavestateCheck \/ GoReset)
  <2>1. UNCHANGED <<savestate_state, debugSkipped>>
    BY <1>3 DEF Next, Request, RequestToggleBreakpoint, RequestQuit, DestroyBegin,
       UiThread,
       Route, ForwardToConsole, ForwardToQueue, DestroyQuit, DestroySendQ, DestroyJoin,
       BeginDrain, TakeQuitRequest, CopperHit, CycleBreak, Specialties, EmuThread,
       EndDrain, ConsoleLoop, ConsoleGet, ConsoleExec, LeaveDebug, Go, GoDebug, GoEnd,
       vars, engineVars
  <2> QED
    BY <2>1
<1> QED
  BY <1>1, <1>2, <1>3

\* Snapshots are the only thing that takes a pause or a step away: in a session
\* without them nothing but a quit drops a stop under way, and an active
\* debugger or a breakpoint always keeps the CPU armed.
THEOREM OnlySnapshotsDropStops ==
    ASSUME NoSnapshots
    PROVE  Spec /\ savestate_state = "none" =>
               /\ [](debugger_active /\ emu \in {"run", "drain", "goEnd"} /\ ~Closing
                       => debugging /\ (brk \/ cycleEvent))
               /\ [][StopKeptButForQuit]_vars
<1>1. Types /\ savestate_state = "none" /\ ~debugSkipped /\ [Next]_vars
      => (savestate_state = "none" /\ ~debugSkipped)'
  BY SkippedStep
<1>2. Init => ~debugSkipped /\ ArmedInv
  BY DEF Init, ArmedInv, Armed, ArmedInDebugger
<1>3. Types /\ ArmedInv /\ ~debugSkipped' /\ [Next]_vars => [StopKeptButForQuit]_vars
  BY StopStep DEF StopKept, StopKeptButForQuit, Excused
<1>4. ArmedInv /\ ~debugSkipped =>
        (debugger_active /\ emu \in {"run", "drain", "goEnd"} /\ ~Closing
          => debugging /\ (brk \/ cycleEvent))
  BY DEF ArmedInv, Armed
<1> QED
  BY <1>1, <1>2, <1>3, <1>4, ArmedStep, TypesInvariant, PTL DEF Spec
=============================================================================
