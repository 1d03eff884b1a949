-------------------------- MODULE UaeDebugSession --------------------------
(***************************************************************************)
(* A debugging session on the UAE back end: the UI thread that forwards    *)
(* operations, the emulator thread that runs the CPU, drains the operation *)
(* queue once per frame and stops inside debug_1(), and what the two share *)
(* without a lock: the debug mode of the VM object, debugger_active,       *)
(* debugging, quit_program and the CPU's special flags.                    *)
(*                                                                         *)
(* The console queue is the one of AtomicConsole.tla, which ConsoleQueue   *)
(* implements: adding a command and raising its event is one step, taking  *)
(* the event and popping the head is another.                              *)
(***************************************************************************)
EXTENDS Naturals, Sequences

CONSTANTS
    Ops,          \* the operations the user may request
    MaxRequests   \* how many the user requests

AllOps ==
    {"Pause", "Continue", "StepInto", "StepOut", "TraceStart", "CopperStep",
     "ToggleBreakpoint", "CopperBreakpoint", "WaitScanLines", "Reset",
     "SaveSnapshot", "LoadSnapshot", "QuitQuasarApp"}

\* "QuitQuasarApp" is the application's own: it comes once, with the request to
\* quit.
ASSUME SessionAssumption ==
    Ops \subseteq AllOps \ {"QuitQuasarApp"} /\ MaxRequests \in Nat

\* What may be in the operation queue.
QueuedOps == Ops \cup {"QuitQuasarApp"}

VARIABLES
    \* UI thread
    ui,                 \* where it is in forwarding an operation or in destroy()
    uiOp,               \* the operation it is forwarding
    requests,           \* operations requested so far
    m_bQuitRequestPosted, \* the application was asked to quit
    \* queues
    m_pClientOpsStack,  \* operations for the emulator thread
    m_consoleCmdQueue,  \* console commands for debug_1()
    m_bState,           \* the console queue's event
    \* shared, unlocked
    m_debugMode,        \* IVm::VM::m_debugMode
    debugger_active,
    debugging,
    quit_program,
    brk, modeChange,    \* SPCFLAG_BRK and SPCFLAG_MODE_CHANGE of regs.spcflags
    \* emulator thread
    emu,                \* where it is
    backTo,             \* where debug() returns to
    cmd,                \* the console command in hand
    trace_mode,
    bpEnabled,          \* the breakpoint of the one address modelled is enabled
    copperWatch,        \* debug_copper: single step or breakpoint armed
    cycleEvent,         \* a cycle breakpoint is scheduled
    savestate_state,
    \* history
    debugSkipped        \* debug() has once returned early for a snapshot

uiVars     == <<ui, uiOp, requests, m_bQuitRequestPosted>>
queueVars  == <<m_pClientOpsStack, m_consoleCmdQueue, m_bState>>
flagVars   == <<debugger_active, debugging, quit_program, brk, modeChange>>
engineVars == <<trace_mode, bpEnabled, copperWatch, cycleEvent, savestate_state,
                debugSkipped>>
emuVars    == <<emu, backTo, cmd>>
vars == <<uiVars, queueVars, m_debugMode, flagVars, engineVars, emuVars>>

Commands == {"t", "z", "ot", "g", "f", "ob", "fs", "q"}
TraceModes == {"none", "skipIns", "matchPc", "rangePc", "checkOnly"}
UiPoints ==
    {"idle", "route", "toConsole", "toQueue",
     "quitFlag", "quitCommand", "join", "closed"}
EmuPoints ==
    {"run",             \* executing instructions and chip set events
     "drain",           \* in onUaeHandleEvents, holding m_eventMutex
     "debug",           \* about to execute debug()
     "console",         \* at the top of debug_1's loop
     "wait",            \* in console_get
     "exec",            \* in debug_line with a command
     "leave",           \* back in debug() after debug_1
     "go", "goReset", "goDebug", "goEnd",   \* m68k_go's outer loop
     "exit"}            \* the thread has ended

UiTypes ==
    /\ ui \in UiPoints
    /\ uiOp \in Ops \cup {"none"}
    /\ requests \in 0..MaxRequests
    /\ m_bQuitRequestPosted \in BOOLEAN

QueueTypes ==
    /\ m_pClientOpsStack \in Seq(QueuedOps)
    /\ m_consoleCmdQueue \in Seq(Commands)
    /\ m_bState \in BOOLEAN

FlagTypes ==
    /\ m_debugMode \in {"Live", "Break"}
    /\ debugger_active \in BOOLEAN /\ debugging \in BOOLEAN
    /\ quit_program \in {"none", "quitAsked", "quit", "resetAsked", "reset"}
    /\ brk \in BOOLEAN /\ modeChange \in BOOLEAN

EngineTypes ==
    /\ trace_mode \in TraceModes
    /\ bpEnabled \in BOOLEAN
    /\ copperWatch \in {"off", "step", "breakpoint"}
    /\ cycleEvent \in BOOLEAN
    /\ savestate_state \in {"none", "save", "doRestore", "restore"}
    /\ debugSkipped \in BOOLEAN

PointTypes ==
    /\ emu \in EmuPoints
    /\ backTo \in {"run", "goEnd"}
    /\ cmd \in Commands \cup {"none"}

TypeOK == UiTypes /\ QueueTypes /\ FlagTypes /\ EngineTypes /\ PointTypes

\* The emulator is up (setUaeInitialized) and the debugger is connected to
\* its VM object: UI and emulator thread share m_debugMode.  A snapshot named on
\* the command line waits to be loaded.
Init ==
    /\ ui = "idle" /\ uiOp = "none" /\ requests = 0 /\ m_bQuitRequestPosted = FALSE
    /\ m_pClientOpsStack = <<>> /\ m_consoleCmdQueue = <<>> /\ m_bState = FALSE
    /\ m_debugMode = "Live"
    /\ debugger_active = FALSE /\ debugging = FALSE
    /\ quit_program = "none" /\ brk = FALSE /\ modeChange = FALSE
    /\ emu = "run" /\ backTo = "run" /\ cmd = "none"
    /\ trace_mode = "none" /\ bpEnabled = FALSE
    /\ copperWatch = "off" /\ cycleEvent = FALSE
    /\ savestate_state \in {"none", "doRestore"}
    /\ debugSkipped = FALSE

\* addCmdToQueue
AddCmd(c) ==
    /\ m_consoleCmdQueue' = Append(m_consoleCmdQueue, c)
    /\ m_bState' = TRUE

----------------------------------------------------------------------------
\* UI thread: the forwarding callback of QuaesarApplication.

\* Debugger::setDebugMode writes the enumeration of the connected VM object.
MirroredMode(op) ==
    CASE op \in {"Pause", "TraceStart"} -> "Break"
      [] op = "Continue"                -> "Live"
      [] OTHER                          -> m_debugMode

\* The user asks for an operation; its mirror is written first.
Request(op) ==
    /\ ui = "idle"
    /\ requests < MaxRequests
    /\ op # "ToggleBreakpoint"
    /\ requests' = requests + 1
    /\ m_debugMode' = MirroredMode(op)
    /\ uiOp' = op
    /\ ui' = "route"
    /\ UNCHANGED <<m_bQuitRequestPosted, queueVars, flagVars, engineVars, emuVars>>

\* A click in the disassembly's gutter goes to the VM object, and from there
\* to the console, without the forwarding callback.
RequestToggleBreakpoint ==
    /\ ui = "idle"
    /\ requests < MaxRequests
    /\ "ToggleBreakpoint" \in Ops
    /\ requests' = requests + 1
    /\ AddCmd("f")
    /\ UNCHANGED <<ui, uiOp, m_bQuitRequestPosted, m_pClientOpsStack, m_debugMode,
                   flagVars, engineVars, emuVars>>

ConsoleOps == {"StepInto", "StepOut", "CopperStep", "Continue"}

\* The callback reads debugger_active: a stopped emulator does not drain its
\* operations, so these four go to the console.
Route ==
    /\ ui = "route"
    /\ ui' = IF debugger_active /\ uiOp \in ConsoleOps THEN "toConsole" ELSE "toQueue"
    /\ UNCHANGED <<uiOp, requests, m_bQuitRequestPosted, queueVars, m_debugMode,
                   flagVars, engineVars, emuVars>>

\* Faulty: the operation itself goes to the console.
ConsoleCommandUntranslated(op) == op

ConsoleCommand(op) ==
    CASE op = "StepInto"   -> "t"
      [] op = "StepOut"    -> "z"
      [] op = "CopperStep" -> "ot"
      [] op = "Continue"   -> "g"

ForwardToConsole ==
    /\ ui = "toConsole"
    /\ AddCmd(ConsoleCommand(uiOp))
    /\ ui' = "idle" /\ uiOp' = "none"
    /\ UNCHANGED <<requests, m_bQuitRequestPosted, m_pClientOpsStack, m_debugMode,
                   flagVars, engineVars, emuVars>>

\* pushOperationMsg, under m_eventMutex: not while the emulator thread drains.
ForwardToQueue ==
    /\ ui = "toQueue"
    /\ emu # "drain"
    /\ m_pClientOpsStack' = Append(m_pClientOpsStack, uiOp)
    /\ ui' = "idle" /\ uiOp' = "none"
    /\ UNCHANGED <<requests, m_bQuitRequestPosted, m_consoleCmdQueue, m_bState,
                   m_debugMode, flagVars, engineVars, emuVars>>

----------------------------------------------------------------------------
\* UI thread: the request to quit, and UaeServerThread::destroy.

\* requestAppToQuit: the main window pushes its own operation, past the
\* forwarding callback.  Whatever events the main loop has still to poll are
\* handled before it looks at the flag.
RequestQuit ==
    /\ ui = "idle"
    /\ ~m_bQuitRequestPosted
    /\ emu # "drain"
    /\ m_pClientOpsStack' = Append(m_pClientOpsStack, "QuitQuasarApp")
    /\ m_bQuitRequestPosted' = TRUE
    /\ UNCHANGED <<ui, uiOp, requests, m_consoleCmdQueue, m_bState, m_debugMode,
                   flagVars, engineVars, emuVars>>

\* uae_quit, first half: deactivate_debugger.
DestroyBegin ==
    /\ ui = "idle"
    /\ m_bQuitRequestPosted
    /\ debugger_active' = FALSE
    /\ debugging' = FALSE
    /\ ui' = "quitFlag"
    /\ UNCHANGED <<uiOp, requests, m_bQuitRequestPosted, queueVars, m_debugMode,
                   quit_program, brk, modeChange, engineVars, emuVars>>

\* uae_quit, second half.
DestroyQuit ==
    /\ ui = "quitFlag"
    /\ quit_program' = "quitAsked"
    /\ modeChange' = TRUE
    /\ ui' = "quitCommand"
    /\ UNCHANGED <<uiOp, requests, m_bQuitRequestPosted, queueVars, m_debugMode,
                   debugger_active, debugging, brk, engineVars, emuVars>>

\* Faulty: destroy() wakes nobody.
DestroySendNothing ==
    /\ ui = "quitCommand"
    /\ ui' = "join"
    /\ UNCHANGED <<uiOp, requests, m_bQuitRequestPosted, queueVars, m_debugMode,
                   flagVars, engineVars, emuVars>>

DestroySendQ ==
    /\ ui = "quitCommand"
    /\ AddCmd("q")
    /\ ui' = "join"
    /\ UNCHANGED <<uiOp, requests, m_bQuitRequestPosted, m_pClientOpsStack,
                   m_debugMode, flagVars, engineVars, emuVars>>

\* SDL_WaitThread returns; only then are the queue and its event deleted.
DestroyJoin ==
    /\ ui = "join"
    /\ emu = "exit"
    /\ ui' = "closed"
    /\ UNCHANGED <<uiOp, requests, m_bQuitRequestPosted, queueVars, m_debugMode,
                   flagVars, engineVars, emuVars>>

UiThread ==
    \/ Route \/ ForwardToConsole \/ ForwardToQueue
    \/ DestroyQuit \/ DestroySendQ \/ DestroyJoin

----------------------------------------------------------------------------
\* Emulator thread: operations, applied by UaeVmImp::applyOperationMsgProcImp.

\* Faulty: SPCFLAG_BRK is left to somebody else.
ActivateUnarmed(newTrace) ==
    /\ trace_mode' = newTrace
    /\ debugger_active' = TRUE
    /\ debugging' = TRUE
    /\ UNCHANGED brk

\* activate_debugger: an already active debugger is left as it is, without
\* raising SPCFLAG_BRK again.
ActivateDebugger(newTrace) ==
    /\ trace_mode' = newTrace
    /\ debugger_active' = TRUE
    /\ debugging' = (debugging \/ ~debugger_active)
    /\ brk' = (brk \/ ~debugger_active)

\* UaeVmImp::setVmDebugMode(Break): stop at the next instruction, wherever.
BreakIn ==
    /\ m_debugMode' = "Break"
    /\ ActivateDebugger("rangePc")
    /\ UNCHANGED <<m_consoleCmdQueue, m_bState, quit_program, savestate_state>>

\* UaeVmImp::setVmDebugMode(Live)
GoLive ==
    /\ m_debugMode' = "Live"
    /\ AddCmd("g")
    /\ UNCHANGED <<debugger_active, debugging, brk, trace_mode, quit_program,
                   savestate_state>>

JustCommand(c) ==
    /\ AddCmd(c)
    /\ UNCHANGED <<m_debugMode, debugger_active, debugging, brk, trace_mode,
                   quit_program, savestate_state>>

\* Faulty: uae_reset forgets the request.
AskNothing == UNCHANGED quit_program

\* uae_reset does nothing while another reset or a quit is on its way.
AskReset == quit_program' = IF quit_program = "none" THEN "resetAsked" ELSE quit_program

ResetRequest ==
    /\ AskReset
    /\ UNCHANGED <<m_consoleCmdQueue, m_bState, m_debugMode, debugger_active,
                   debugging, brk, trace_mode, savestate_state>>

\* savestate_state is overwritten whatever it was.
SnapshotRequest(state) ==
    /\ savestate_state' = state
    /\ UNCHANGED <<m_consoleCmdQueue, m_bState, m_debugMode, debugger_active,
                   debugging, brk, trace_mode, quit_program>>

\* The application quits: quit_program is overwritten, a reset or uae_quit's
\* request with it, by a value that no frame boundary has to turn positive any
\* more and that tells no CPU loop to return.
QuitRequest ==
    /\ quit_program' = "quit"
    /\ UNCHANGED <<m_consoleCmdQueue, m_bState, m_debugMode, debugger_active,
                   debugging, brk, trace_mode, savestate_state>>

ApplyOperation(op) ==
    \/ op \in {"Continue", "TraceStart"} /\ m_debugMode = "Live"  /\ BreakIn
    \/ op \in {"Continue", "TraceStart"} /\ m_debugMode = "Break" /\ GoLive
    \/ op = "Pause" /\ BreakIn
    \/ /\ op = "StepInto"
       /\ m_debugMode' = "Break"
       /\ ActivateDebugger("rangePc")
       /\ AddCmd("t")
       /\ UNCHANGED <<quit_program, savestate_state>>
    \/ op = "StepOut"          /\ JustCommand("z")
    \/ op = "CopperStep"       /\ JustCommand("ot")
    \/ op = "CopperBreakpoint" /\ JustCommand("ob")
    \/ op = "WaitScanLines"    /\ JustCommand("fs")
    \/ op = "Reset"            /\ ResetRequest
    \/ op = "SaveSnapshot"     /\ SnapshotRequest("save")
    \/ op = "LoadSnapshot"     /\ SnapshotRequest("doRestore")
    \/ op = "QuitQuasarApp"    /\ QuitRequest

\* The vertical blank handler calls onUaeHandleEvents (with nothing queued it
\* changes nothing, and is left out).
BeginDrain ==
    /\ emu = "run"
    /\ m_pClientOpsStack # <<>>
    /\ emu' = "drain"
    /\ UNCHANGED <<uiVars, queueVars, m_debugMode, flagVars, engineVars, backTo, cmd>>

\* Faulty: an operation is applied and stays in the queue.
AllOperations == m_pClientOpsStack

RemainingOperations == Tail(m_pClientOpsStack)

DrainOne ==
    /\ emu = "drain"
    /\ m_pClientOpsStack # <<>>
    /\ ApplyOperation(Head(m_pClientOpsStack))
    /\ m_pClientOpsStack' = RemainingOperations
    /\ UNCHANGED <<uiVars, modeChange, bpEnabled, copperWatch, cycleEvent, debugSkipped,
                   emuVars>>

EndDrain ==
    /\ emu = "drain"
    /\ m_pClientOpsStack = <<>>
    /\ emu' = "run"
    /\ UNCHANGED <<uiVars, queueVars, m_debugMode, flagVars, engineVars, backTo, cmd>>

----------------------------------------------------------------------------
\* Emulator thread: chip set events while instructions execute.

\* End of a scan line (reset requests) or of a frame (any request): a negative
\* quit_program turns positive and the CPU loop is told to return.
TakeQuitRequest ==
    /\ emu = "run"
    /\ quit_program \in {"resetAsked", "quitAsked"}
    /\ quit_program' = IF quit_program = "quitAsked" THEN "quit" ELSE "reset"
    /\ brk' = TRUE /\ modeChange' = TRUE
    /\ UNCHANGED <<uiVars, queueVars, m_debugMode, debugger_active, debugging,
                   engineVars, emuVars>>

\* savestate_check at the top of a frame.  A load asks for a reset.
SavestateCheck ==
    /\ emu = "run"
    /\ \/ savestate_state = "save"
          /\ savestate_state' = "none"
          /\ UNCHANGED quit_program
       \/ savestate_state = "doRestore"
          /\ savestate_state' = "restore"
          /\ AskReset
    /\ UNCHANGED <<uiVars, queueVars, m_debugMode, debugger_active, debugging, brk,
                   modeChange, trace_mode, bpEnabled, copperWatch, cycleEvent,
                   debugSkipped, emuVars>>

\* record_copper: the copper reached what "ot" or "ob" waits for.
CopperHit ==
    /\ emu = "run"
    /\ copperWatch # "off"
    /\ copperWatch' = "off"
    /\ ActivateDebugger("none")
    /\ UNCHANGED <<uiVars, queueVars, m_debugMode, quit_program, modeChange,
                   bpEnabled, cycleEvent, savestate_state, debugSkipped, emuVars>>

\* breakfunc: the scan lines of "fs" have passed.
CycleBreak ==
    /\ emu = "run"
    /\ cycleEvent
    /\ cycleEvent' = FALSE
    /\ debugging' = TRUE
    /\ brk' = TRUE
    /\ UNCHANGED <<uiVars, queueVars, m_debugMode, debugger_active, quit_program,
                   modeChange, trace_mode, bpEnabled, copperWatch, savestate_state,
                   debugSkipped, emuVars>>

\* do_specialties after an instruction: a mode change leaves the CPU loop,
\* else SPCFLAG_BRK is taken down and debug() called if debugging.
Specialties ==
    /\ emu = "run"
    /\ \/ /\ modeChange
          /\ emu' = "go"
          /\ UNCHANGED <<brk, backTo>>
       \/ /\ ~modeChange /\ brk
          /\ brk' = FALSE
          /\ emu' = IF debugging THEN "debug" ELSE "run"
          /\ backTo' = "run"
    /\ UNCHANGED <<uiVars, queueVars, m_debugMode, debugger_active, debugging,
                   quit_program, modeChange, engineVars, cmd>>

----------------------------------------------------------------------------
\* Emulator thread: debug() and debug_1().

\* Faulty: a range does not count as a condition.
TraceHitsNoRange ==
    {trace_mode \in {"none", "skipIns"}}
        \cup (IF trace_mode = "matchPc" \/ bpEnabled THEN {TRUE} ELSE {})

\* Whether the trace condition, or the breakpoint checked with it, is met: a
\* step and a whole-memory range always, a program counter sometimes.
TraceHits ==
    {trace_mode \in {"none", "skipIns", "rangePc"}}
        \cup (IF trace_mode = "matchPc" \/ bpEnabled THEN {TRUE} ELSE {})

\* Faulty: only a load keeps debug() from stopping.
LoadPending == savestate_state \in {"doRestore", "restore"}

SnapshotPending == savestate_state # "none"

\* Faulty: debug_1 asks for a command before it raises debugger_active.
AskBeforeActive ==
    /\ trace_mode' = "none"
    /\ emu' = "wait"
    /\ UNCHANGED debugger_active

\* Into debug_1.
EnterConsole ==
    /\ trace_mode' = "none"
    /\ debugger_active' = TRUE
    /\ emu' = "console"

\* debug(): nothing at all during a snapshot; else stop or trace on.
Debug ==
    /\ emu = "debug"
    /\ \/ /\ SnapshotPending
          /\ emu' = backTo
          /\ debugSkipped' = TRUE
          /\ UNCHANGED <<debugger_active, brk, trace_mode>>
       \/ /\ ~SnapshotPending /\ TRUE \in TraceHits
          /\ EnterConsole
          /\ UNCHANGED <<brk, debugSkipped>>
       \/ /\ ~SnapshotPending /\ FALSE \in TraceHits
          /\ brk' = TRUE                  \* debug_continue
          /\ emu' = backTo
          /\ UNCHANGED <<debugger_active, trace_mode, debugSkipped>>
    /\ UNCHANGED <<uiVars, queueVars, m_debugMode, debugging, quit_program,
                   modeChange, bpEnabled, copperWatch, cycleEvent, savestate_state,
                   backTo, cmd>>

\* The top of debug_1's loop.
ConsoleLoop ==
    /\ emu = "console"
    /\ emu' = IF debugger_active THEN "wait" ELSE "leave"
    /\ UNCHANGED <<uiVars, queueVars, m_debugMode, flagVars, engineVars, backTo, cmd>>

\* Faulty: the event stays up.
PeekEvent == m_bState /\ UNCHANGED m_bState

TakeEvent == m_bState /\ m_bState' = FALSE

\* console_get: popConsoleCmdWait takes the event, then the head command; with
\* no command it goes on waiting.
ConsoleGet ==
    /\ emu = "wait"
    /\ TakeEvent
    /\ IF m_consoleCmdQueue = <<>>
       THEN UNCHANGED <<m_consoleCmdQueue, emu, cmd>>
       ELSE /\ cmd' = Head(m_consoleCmdQueue)
            /\ m_consoleCmdQueue' = Tail(m_consoleCmdQueue)
            /\ emu' = "exec"
    /\ UNCHANGED <<uiVars, m_pClientOpsStack, m_debugMode, flagVars, engineVars, backTo>>

\* The commands after which debug_line returns to the emulation.
Resuming == {"t", "z", "ot", "g", "fs", "q"}

\* debug_line.
ConsoleExec ==
    /\ emu = "exec"
    /\ emu' = IF cmd \in Resuming THEN "leave" ELSE "console"
    /\ cmd' = "none"
    /\ trace_mode' = CASE cmd = "t" -> "skipIns"
                       [] cmd = "z" -> "matchPc"
                       [] OTHER     -> trace_mode
    /\ bpEnabled' = IF cmd = "f" THEN ~bpEnabled ELSE bpEnabled
    /\ copperWatch' = CASE cmd = "ot" -> "step"
                        [] cmd = "ob" -> "breakpoint"
                        [] OTHER      -> copperWatch
    /\ cycleEvent' = (cycleEvent \/ cmd = "fs")
    /\ debugger_active' = (debugger_active /\ cmd \notin {"ot", "g", "q"})
    /\ debugging' = (debugging /\ cmd \notin {"ot", "g", "q"})
    /\ quit_program' = IF cmd = "q" THEN "quitAsked" ELSE quit_program
    /\ modeChange' = (modeChange \/ cmd = "q")
    /\ UNCHANGED <<uiVars, queueVars, m_debugMode, brk, savestate_state, debugSkipped,
                   backTo>>

\* Faulty: SPCFLAG_BRK is not raised again.
TraceOnUnarmed == debugging' = TRUE /\ UNCHANGED brk

TraceOn == brk' = TRUE /\ debugging' = TRUE

\* The rest of debug(): an enabled breakpoint keeps the CPU traced.
LeaveDebug ==
    /\ emu = "leave"
    /\ trace_mode' = IF trace_mode = "none" /\ bpEnabled THEN "checkOnly" ELSE trace_mode
    /\ IF trace_mode' # "none"
       THEN TraceOn
       ELSE UNCHANGED <<brk, debugging>>
    /\ emu' = backTo
    /\ UNCHANGED <<uiVars, queueVars, m_debugMode, debugger_active, quit_program,
                   modeChange, bpEnabled, copperWatch, cycleEvent, savestate_state,
                   debugSkipped, backTo, cmd>>

----------------------------------------------------------------------------
\* Emulator thread: m68k_go's outer loop.

Go ==
    /\ emu = "go"
    /\ LET q == CASE quit_program = "quitAsked"  -> "quit"
                  [] quit_program = "resetAsked" -> "reset"
                  [] OTHER                   -> quit_program
       IN /\ quit_program' = q
          /\ emu' = CASE q = "quit"  -> "exit"
                      [] q = "reset" -> "goReset"
                      [] q = "none"  -> "goDebug"
    /\ UNCHANGED <<uiVars, queueVars, m_debugMode, debugger_active, debugging, brk,
                   modeChange, engineVars, backTo, cmd>>

\* The reset: quit_program is cleared whatever it has become, a pending
\* snapshot is served, the special flags and the scheduled events are cleared.
GoReset ==
    /\ emu = "goReset"
    /\ quit_program' = "none"
    /\ savestate_state' = "none"
    /\ brk' = FALSE /\ modeChange' = FALSE
    /\ cycleEvent' = FALSE
    /\ emu' = "goDebug"
    /\ UNCHANGED <<uiVars, queueVars, m_debugMode, debugger_active, debugging,
                   trace_mode, bpEnabled, copperWatch, debugSkipped, backTo, cmd>>

GoDebug ==
    /\ emu = "goDebug"
    /\ emu' = IF debugging THEN "debug" ELSE "goEnd"
    /\ backTo' = "goEnd"
    /\ UNCHANGED <<uiVars, queueVars, m_debugMode, flagVars, engineVars, cmd>>

GoEnd ==
    /\ emu = "goEnd"
    /\ modeChange' = FALSE
    /\ emu' = "run"
    /\ backTo' = "run"
    /\ UNCHANGED <<uiVars, queueVars, m_debugMode, debugger_active, debugging,
                   quit_program, brk, engineVars, cmd>>

----------------------------------------------------------------------------
EmuThread ==
    \/ DrainOne \/ EndDrain
    \/ Debug \/ ConsoleLoop \/ ConsoleGet \/ ConsoleExec \/ LeaveDebug
    \/ Go \/ GoReset \/ GoDebug \/ GoEnd

Next ==
    \/ \E op \in Ops : Request(op)
    \/ RequestToggleBreakpoint
    \/ RequestQuit
    \/ DestroyBegin
    \/ UiThread
    \/ BeginDrain \/ TakeQuitRequest \/ SavestateCheck \/ CopperHit \/ CycleBreak
    \/ Specialties
    \/ EmuThread
    \/ ui = "closed" /\ UNCHANGED vars

Spec == Init /\ [][Next]_vars

\* The emulator thread keeps executing: whatever it is in the middle of goes
\* on, and while instructions execute frames end, scheduled events fire and
\* special flags are looked at again and again.  The UI thread finishes what
\* it started.  The user owes nothing, and the copper need not reach anything.
FairSpec ==
    /\ Spec
    /\ WF_vars(UiThread)
    /\ WF_vars(EmuThread)
    /\ SF_vars(BeginDrain)
    /\ SF_vars(TakeQuitRequest)
    /\ SF_vars(SavestateCheck)
    /\ SF_vars(CycleBreak)
    /\ SF_vars(Specialties)

----------------------------------------------------------------------------
\* Properties.

Closing == ui \in {"quitFlag", "quitCommand", "join", "closed"}
QuitAsked == Closing \/ quit_program \in {"quitAsked", "quit"}

\* The callback decides between console and queue by debugger_active alone.
\* While the emulator thread is blocked in console_get the flag is up, so that
\* a step or continue goes to the console; in the queue it would wait for the
\* stop it is meant to end.
StoppedIsVisible == emu = "wait" => debugger_active \/ Closing

\* The event is never up over an empty queue: popConsoleCmdWait's branch for a
\* spurious wake is never taken.
EventMeansCommand == m_bState => m_consoleCmdQueue # <<>>

\* A snapshot is taken or loaded while the CPU runs, never across a stop in
\* the debugger: debug_1 is not entered while one is pending, and none can be
\* asked for inside it.
NoSnapshotWhileStopped ==
    emu \in {"console", "wait", "exec", "leave"} => savestate_state = "none"

\* A CPU that is to be stopped, stepped or watched for a breakpoint is armed:
\* the next instruction looks at debug(), or, when "fs" resumed it with
\* debugger_active still up, a cycle breakpoint is scheduled.  Otherwise
\* nothing would ever stop it again, because activate_debugger does not raise
\* SPCFLAG_BRK for a debugger already active.  The one way to lose the arming
\* is debug()'s early return during a snapshot.
Armed ==
    emu \in {"run", "drain", "goEnd"} /\ ~Closing /\ ~debugSkipped =>
        /\ debugger_active => debugging /\ (brk \/ cycleEvent)
        /\ bpEnabled => debugging /\ brk

\* A queued operation is applied, unless the emulator thread stops in the
\* debugger or ends first.
OperationsDrain ==
    m_pClientOpsStack # <<>> ~>
        (m_pClientOpsStack = <<>> \/ emu \in {"wait", "exit"})

\* A break-in that an operation asked for reaches debug_1's console, unless
\* the program quits first or a snapshot swallowed it.
BreakInStops ==
    (emu = "run" /\ debugger_active /\ trace_mode = "rangePc")
        ~> (emu = "console" \/ QuitAsked \/ debugSkipped)

\* A single step comes back to the console, with the same exceptions.
StepComesBack ==
    (emu = "exec" /\ cmd = "t") ~> (emu = "console" \/ QuitAsked \/ debugSkipped)

\* A snapshot that was asked for is taken or loaded, unless the program quits.
SnapshotServed == savestate_state # "none" ~> (savestate_state = "none" \/ QuitAsked)

\* Closing the emulator window ends (destroy() joins the emulator thread) if,
\* once the quit is requested, no reset is under way that could overwrite the
\* request or its SPCFLAG_MODE_CHANGE, and everything queued for the console
\* resumes the CPU: the "q" sent last may stay behind a stale command, but each
\* such command then brings the thread back to where it sees quit_program.
QuitCannotBeMissed ==
    /\ quit_program \in {"quitAsked", "quit"} /\ modeChange
    /\ emu \notin {"goReset", "goDebug"} /\ backTo = "run"
    /\ \A i \in DOMAIN m_consoleCmdQueue : m_consoleCmdQueue[i] \in Resuming
    /\ cmd \in Resuming \cup {"none"}
    /\ \A i \in DOMAIN m_pClientOpsStack : m_pClientOpsStack[i] # "CopperBreakpoint"
DestroyEndsClean == (ui = "quitCommand" /\ QuitCannotBeMissed) ~> ui = "closed"

----------------------------------------------------------------------------
\* What the documentation says and the code does not do.

\* "wait UAE done": destroy() always ends.
DestroyEnds == ui = "quitFlag" ~> ui = "closed"

\* "interpreter loop sees BRK, enters debug_1() (blocks)": a pause that was
\* applied stops the CPU.
PauseStops ==
    (emu = "run" /\ debugger_active /\ trace_mode = "rangePc")
        ~> (emu = "console" \/ QuitAsked)
=============================================================================
