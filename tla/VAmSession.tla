------------------------------ MODULE VAmSession ------------------------------
(***************************************************************************)
(* The vAmiga back end from its creation to its destruction                *)
(* (va_server_thread.cpp, va_vm_imp.cpp): the UI thread creates the server *)
(* thread and waits for it, forwards operations, destroys it again; the    *)
(* server thread creates the emulator and the VM object, drains the        *)
(* operations, cleans up; vAmiga's own thread may send an abort message;   *)
(* SDL's audio thread pulls samples out of the emulator.  The two pointers *)
(* m_pVAmiga and m_pVm are read by threads that did not write them.        *)
(*                                                                         *)
(* The transport of the picture is FrameTransport.tla.  Console commands   *)
(* are left out: nothing reads the queue of this back end.                 *)
(***************************************************************************)
EXTENDS Naturals, Sequences

CONSTANTS
  Ops,          \* the operations the user may request
  MaxRequests,  \* bound of the model: how many he requests
  MaxKeys       \* bound of the model: keyboard events

ASSUME VAmAssumption ==
  /\ Ops \subseteq {"Pause", "Continue", "TraceStart", "StepInto", "Turbo", "Reset",
                "LoadSnapshot"}
  /\ MaxRequests \in Nat /\ MaxKeys \in Nat

VARIABLES
  ui,         \* the UI thread
  uiOp,       \* the operation it forwards
  requests,   \* operations requested so far
  connected,  \* the debugger holds a reference to the VM object
  sentKeys,   \* keyboard events sent so far
  keys,       \* m_sdlEventsQueue, its length
  ops,        \* m_pClientOpsStack
  event,      \* m_onVAmInitialized
  err,        \* m_threadErr >= 0
  quit,       \* m_bRequestToQuit
  srv,        \* the server thread
  target,     \* the debug mode it is about to set
  rom,        \* isReady(): with its Kickstart ROM and chip RAM the machine can run
  obj,        \* the object m_pVAmiga points to
  vm,         \* m_pVm is set
  mode,       \* m_debugMode of the VM object
  cmds,       \* vAmiga's command queue
  emu,        \* vAmiga's emulator thread
  warp,       \* isWarping
  dev,        \* an SDL audio device is open
  cb,         \* a callback runs on it
  aborted     \* history: an abort message came

uiVars == <<ui, uiOp, requests, connected, sentKeys>>
queues == <<keys, ops>>
shared == <<event, err, quit>>
engine == <<rom, obj, cmds, emu, warp>>
audio == <<dev, cb>>
vars == <<uiVars, queues, shared, srv, target, vm, mode, engine, audio, aborted>>

Init ==
  /\ ui = "wait" /\ uiOp = "none" /\ requests = 0 /\ connected = FALSE /\ sentKeys = 0
  /\ keys = 0 /\ ops = <<>>
  /\ event = FALSE /\ err = FALSE /\ quit = FALSE
  /\ srv = "create" /\ target = "Live"
  /\ rom = FALSE /\ obj = "none" /\ cmds = <<>> /\ emu = "none" /\ warp = FALSE
  /\ vm = FALSE /\ mode = "Live"
  /\ dev = FALSE /\ cb = FALSE
  /\ aborted = FALSE

-----------------------------------------------------------------------------
(* The UI thread. *)

\* initialize(): the hand-shake, then the VM object, unless there was an error
InitWait ==
  /\ ui = "wait" /\ event
  /\ event' = FALSE
  /\ ui' = IF err THEN "up" ELSE "init"
  /\ UNCHANGED <<uiOp, requests, connected, sentKeys, queues, err, quit, srv, target, vm, mode,
                 engine, audio, aborted>>

UiStep == UNCHANGED <<shared, srv, target, vm, engine, audio, aborted>>

\* m_pVm->init(), on whatever m_pVm is by now
InitVm ==
  /\ ui = "init"
  /\ ui' = IF vm THEN "up" ELSE "nullVm"
  /\ UNCHANGED <<uiOp, requests, connected, sentKeys, queues, mode>> /\ UiStep

\* onFrameUpdate: the debugger gets the VM object as soon as there is one
Connect ==
  /\ ui = "up" /\ ~connected /\ vm
  /\ connected' = TRUE
  /\ UNCHANGED <<ui, uiOp, requests, sentKeys, queues, mode>> /\ UiStep

\* The forwarding callback writes the mode of the connected VM object first;
\* nothing is pushed when the start has failed
Request(op) ==
  /\ ui = "up" /\ requests < MaxRequests
  /\ requests' = requests + 1
  /\ uiOp' = op
  /\ mode' = IF ~connected THEN mode
             ELSE IF op \in {"Pause", "TraceStart"} THEN "Break"
             ELSE IF op = "Continue" THEN "Live" ELSE mode
  /\ ui' = IF err THEN "up" ELSE "push"
  /\ UNCHANGED <<connected, sentKeys, queues>> /\ UiStep

\* m_eventMutex is held while the server thread drains
Locked == srv \in {"drain", "set"}

PushOperation ==
  /\ ui = "push" /\ ~Locked
  /\ ops' = Append(ops, uiOp)
  /\ ui' = "up"
  /\ UNCHANGED <<uiOp, requests, connected, sentKeys, keys, mode>> /\ UiStep

\* Faulty: the event is pushed by both of two handlers.
PushKeyTwice ==
  /\ ui = "up" /\ ~Locked /\ sentKeys < MaxKeys
  /\ sentKeys' = sentKeys + 1
  /\ keys' = keys + 2
  /\ UNCHANGED <<ui, uiOp, requests, connected, ops, mode>> /\ UiStep

PushKey ==
  /\ ui = "up" /\ ~Locked /\ sentKeys < MaxKeys
  /\ sentKeys' = sentKeys + 1
  /\ keys' = keys + 1
  /\ UNCHANGED <<ui, uiOp, requests, connected, ops, mode>> /\ UiStep

\* Faulty: the debugger keeps the VM object while the server is destroyed.
DestroyServerFirst ==
  /\ ui = "up"
  /\ ui' = "destroy"
  /\ UNCHANGED <<uiOp, requests, connected, sentKeys, queues, mode>> /\ UiStep

\* The application destroys the debugger before the server
DestroyDebugger ==
  /\ ui = "up"
  /\ connected' = FALSE
  /\ ui' = "destroy"
  /\ UNCHANGED <<uiOp, requests, sentKeys, queues, mode>> /\ UiStep

DestroyServer ==
  /\ ui = "destroy"
  /\ quit' = TRUE
  /\ ui' = "power"
  /\ UNCHANGED <<uiOp, requests, connected, sentKeys, queues, event, err, srv, target, vm, mode,
                 engine, audio, aborted>>

\* if (m_pVAmiga) ...
PowerCheck ==
  /\ ui = "power"
  /\ ui' = IF obj = "live" THEN "powerOff" ELSE "join"
  /\ UNCHANGED <<uiOp, requests, connected, sentKeys, queues, mode>> /\ UiStep

\* ... m_pVAmiga->powerOff(): the server thread may have deleted it meanwhile
PowerOff ==
  /\ ui = "powerOff"
  /\ \/ /\ obj = "live"
        /\ cmds' = Append(cmds, "off")
        /\ ui' = "join"
     \/ /\ obj = "deleted"
        /\ ui' \in {"join", "deletedVAmiga"}
        /\ UNCHANGED cmds
  /\ UNCHANGED <<uiOp, requests, connected, sentKeys, queues, shared, srv, target, vm, mode,
                 rom, obj, emu, warp, audio, aborted>>

\* Faulty: destroy() does not wait for the thread.
JoinNobody ==
  /\ ui = "join"
  /\ ui' = "destroyed"
  /\ UNCHANGED <<uiOp, requests, connected, sentKeys, queues, mode>> /\ UiStep

Join ==
  /\ ui = "join" /\ srv = "done"
  /\ ui' = "destroyed"
  /\ UNCHANGED <<uiOp, requests, connected, sentKeys, queues, mode>> /\ UiStep

-----------------------------------------------------------------------------
(* The server thread: onVAmigaThreadMain. *)

SrvStep == UNCHANGED <<uiVars, quit, cb, aborted>>

\* Faulty: the catch clause does not unblock the UI thread.
CatchSilently ==
  /\ err' = TRUE
  /\ UNCHANGED event
  /\ srv' = "closeAudio"

\* the catch clause around the whole thread
Catch ==
  /\ err' = TRUE
  /\ event' = TRUE
  /\ srv' = "closeAudio"

Create ==
  /\ srv = "create"
  /\ \/ obj' = "live" /\ srv' = "attach" /\ UNCHANGED <<err, event>>
     \/ obj' = "none" /\ Catch
  /\ UNCHANGED <<queues, target, vm, mode, rom, cmds, emu, warp, dev>> /\ SrvStep

\* a hard drive that cannot be attached ends the thread function at once
AttachDrives ==
  /\ srv = "attach"
  /\ \/ srv' = "launch" /\ UNCHANGED err
     \/ srv' = "done" /\ err' = TRUE
  /\ UNCHANGED <<queues, event, target, vm, mode, engine, dev>> /\ SrvStep

Launch ==
  /\ srv = "launch"
  /\ \/ srv' = "rom" /\ emu' = "off" /\ UNCHANGED <<err, event>>
     \/ Catch /\ UNCHANGED emu
  /\ UNCHANGED <<queues, target, vm, mode, rom, obj, cmds, warp, dev>> /\ SrvStep

\* the ROM loads, or none is configured, or loading it fails: the object is
\* deleted, and with it the emulator thread
LoadRom ==
  /\ srv = "rom"
  /\ \/ /\ rom' \in BOOLEAN
        /\ srv' = "power"
        /\ UNCHANGED <<err, event, obj, emu>>
     \/ /\ obj' = "deleted" /\ emu' = "halted"
        /\ Catch
        /\ UNCHANGED rom
  /\ UNCHANGED <<queues, target, vm, mode, cmds, warp, dev>> /\ SrvStep

\* run() throws when there is no ROM
PowerOn ==
  /\ srv = "power"
  /\ IF rom
     THEN cmds' = cmds \o <<"on", "run">> /\ srv' = "openAudio" /\ UNCHANGED <<err, event>>
     ELSE cmds' = Append(cmds, "on") /\ Catch
  /\ UNCHANGED <<queues, target, vm, mode, rom, obj, emu, warp, dev>> /\ SrvStep

\* Faulty: the event is raised before the VM object is there.
OpenAudioAndReady ==
  /\ srv = "openAudio"
  /\ dev' \in BOOLEAN
  /\ event' = TRUE
  /\ srv' = "createVm"
  /\ UNCHANGED <<queues, err, target, vm, mode, engine>> /\ SrvStep

OpenAudio ==
  /\ srv = "openAudio"
  /\ dev' \in BOOLEAN
  /\ srv' = "createVm"
  /\ UNCHANGED <<queues, event, err, target, vm, mode, engine>> /\ SrvStep

CreateVm ==
  /\ srv = "createVm"
  /\ vm' = TRUE
  /\ srv' = "ready"
  /\ UNCHANGED <<queues, event, err, target, mode, engine, dev>> /\ SrvStep

\* External: loading is only logged when it fails, and what it leaves may be
\* unable to run.  A run command that is still queued would then end the process
\* from the emulator thread: that is left out.
LoadSnapshot ==
  /\ rom' \in BOOLEAN
  /\ (\E i \in 1 .. Len(cmds) : cmds[i] = "run") => rom' = rom

\* a snapshot named on the command line is loaded first
Ready ==
  /\ srv = "ready"
  /\ LoadSnapshot
  /\ event' = TRUE
  /\ srv' = "loop"
  /\ UNCHANGED <<queues, err, target, vm, mode, obj, cmds, emu, warp, dev>> /\ SrvStep

\* Faulty: the loop does not look at m_bRequestToQuit.
LoopForEver ==
  /\ srv = "loop"
  /\ srv' = "drain"
  /\ UNCHANGED <<queues, event, err, target, vm, mode, engine, dev>> /\ SrvStep

LoopTop ==
  /\ srv = "loop"
  /\ srv' = IF quit THEN "closeAudio" ELSE "drain"
  /\ UNCHANGED <<queues, event, err, target, vm, mode, engine, dev>> /\ SrvStep

\* Faulty: the event is read and stays in the queue.
ApplyKeyPeeks ==
  /\ srv = "drain" /\ keys > 0
  /\ UNCHANGED <<queues, event, err, srv, target, vm, mode, engine, dev>> /\ SrvStep

\* onVAmHandleEvents: first the keyboard events, then the operations
ApplyKey ==
  /\ srv = "drain" /\ keys > 0
  /\ keys' = keys - 1
  /\ UNCHANGED <<ops, event, err, srv, target, vm, mode, engine, dev>> /\ SrvStep

Flipped(m) == IF m = "Live" THEN "Break" ELSE "Live"

\* applyOperationMsgProcImp: the operations on the debug mode read it first
ApplyMode ==
  /\ srv = "drain" /\ keys = 0 /\ ops # <<>>
  /\ Head(ops) \in {"Pause", "Continue", "TraceStart", "StepInto"}
  /\ target' = IF Head(ops) \in {"Continue", "TraceStart"} THEN Flipped(mode) ELSE "Break"
  /\ srv' = "set"
  /\ UNCHANGED <<queues, event, err, vm, mode, engine, dev>> /\ SrvStep

\* pause() or run(); run() throws when the machine cannot run.  The lock is given
\* up, the operation stays at the front of a queue that nobody will read.
ObeyTarget ==
  IF target = "Live" /\ ~rom
  THEN Catch /\ UNCHANGED <<cmds, ops>>
  ELSE /\ cmds' = Append(cmds, IF target = "Break" THEN "pause" ELSE "run")
       /\ ops' = Tail(ops)
       /\ srv' = "drain"
       /\ UNCHANGED <<err, event>>

\* Faulty: the emulator obeys, the mode is left as the UI thread wrote it.
SetEmulatorOnly ==
  /\ srv = "set"
  /\ ObeyTarget
  /\ UNCHANGED <<keys, target, vm, mode, rom, obj, emu, warp, dev>> /\ SrvStep

\* VAmVmImp::setVmDebugMode
SetMode ==
  /\ srv = "set"
  /\ mode' = target
  /\ ObeyTarget
  /\ UNCHANGED <<keys, target, vm, rom, obj, emu, warp, dev>> /\ SrvStep

\* ToggleTurboEmulation reads what the emulator thread has reached so far
ApplyOther ==
  /\ srv = "drain" /\ keys = 0 /\ ops # <<>>
  /\ \/ /\ Head(ops) = "Turbo"
        /\ cmds' = Append(cmds, IF warp THEN "warpOff" ELSE "warpOn")
        /\ UNCHANGED rom
     \/ /\ Head(ops) = "Reset"
        /\ cmds' = Append(cmds, "reset")
        /\ UNCHANGED rom
     \/ /\ Head(ops) = "LoadSnapshot"
        /\ LoadSnapshot
        /\ UNCHANGED cmds
  /\ ops' = Tail(ops)
  /\ UNCHANGED <<keys, event, err, srv, target, vm, mode, obj, emu, warp, dev>> /\ SrvStep

DrainEnd ==
  /\ srv = "drain" /\ keys = 0 /\ ops = <<>>
  /\ srv' = "loop"
  /\ UNCHANGED <<queues, event, err, target, vm, mode, engine, dev>> /\ SrvStep

\* Faulty: the device is given up without waiting for the callback.
CloseAudioAtOnce ==
  /\ srv = "closeAudio"
  /\ dev' = FALSE
  /\ srv' = IF obj = "live" THEN "halt" ELSE "clear"
  /\ UNCHANGED <<queues, event, err, target, vm, mode, engine>> /\ SrvStep

\* SDL_CloseAudioDevice returns when no callback runs any more
CloseAudio ==
  /\ srv = "closeAudio" /\ ~cb
  /\ dev' = FALSE
  /\ srv' = IF obj = "live" THEN "halt" ELSE "clear"
  /\ UNCHANGED <<queues, event, err, target, vm, mode, engine>> /\ SrvStep

Halt ==
  /\ srv = "halt"
  /\ cmds' = Append(cmds, "halt")
  /\ srv' = "delete"
  /\ UNCHANGED <<queues, event, err, target, vm, mode, rom, obj, emu, warp, dev>> /\ SrvStep

\* halt() joins the emulator thread, if it was launched
Delete ==
  /\ srv = "delete" /\ emu \in {"none", "halted"}
  /\ obj' = "deleted"
  /\ srv' = "clear"
  /\ UNCHANGED <<queues, event, err, target, vm, mode, rom, cmds, emu, warp, dev>> /\ SrvStep

ClearVm ==
  /\ srv = "clear"
  /\ vm' = FALSE
  /\ srv' = "done"
  /\ UNCHANGED <<queues, event, err, target, mode, engine, dev>> /\ SrvStep

-----------------------------------------------------------------------------
(* vAmiga's emulator thread and SDL's audio thread. *)

\* Thread.cpp: the states a command leads through
AfterCommand(c) ==
  CASE c = "on"    -> IF emu = "off" THEN "paused" ELSE emu
    [] c = "run"   -> "running"
    [] c = "pause" -> IF emu = "running" THEN "paused" ELSE emu
    [] c = "off"   -> "off"
    [] c = "halt"  -> "halted"
    [] OTHER       -> emu

EmulatorCommand ==
  /\ cmds # <<>> /\ emu \in {"off", "paused", "running"}
  /\ emu' = AfterCommand(Head(cmds))
  /\ warp' = IF Head(cmds) \in {"warpOn", "warpOff"} THEN Head(cmds) = "warpOn" ELSE warp
  /\ cmds' = Tail(cmds)
  /\ UNCHANGED <<uiVars, queues, shared, srv, target, vm, mode, rom, obj, audio, aborted>>

\* vAmigaMsgQueueProc
AbortMessage ==
  /\ emu = "running" /\ ~quit
  /\ quit' = TRUE
  /\ aborted' = TRUE
  /\ UNCHANGED <<uiVars, queues, event, err, srv, target, vm, mode, engine, audio>>

Callback ==
  /\ cb' = ~cb
  /\ cb \/ dev
  /\ UNCHANGED <<uiVars, queues, shared, srv, target, vm, mode, engine, dev, aborted>>

-----------------------------------------------------------------------------
UiAlone == InitWait \/ InitVm \/ DestroyServer \/ PowerCheck \/ PowerOff \/ Join

User == Connect \/ (\E op \in Ops : Request(op)) \/ PushKey \/ DestroyDebugger

StartUp ==
  \/ Create \/ AttachDrives \/ Launch \/ LoadRom \/ PowerOn \/ OpenAudio \/ CreateVm \/ Ready

Loop == LoopTop \/ ApplyKey \/ ApplyMode \/ SetMode \/ ApplyOther \/ DrainEnd

CleanUp == CloseAudio \/ Halt \/ Delete \/ ClearVm

Server == StartUp \/ Loop \/ CleanUp

Next ==
  UiAlone \/ PushOperation \/ User \/ Server \/ EmulatorCommand \/ AbortMessage \/ Callback

Spec == Init /\ [][Next]_vars

\* The threads go on with what they have begun.  m_eventMutex, free in every
\* round of the loop, and the lock of the audio device, free between two
\* callbacks, are obtained in the end.  No key, operation or abort message
\* has to come.
FairSpec ==
  /\ Spec
  /\ WF_vars(UiAlone)
  /\ SF_vars(PushOperation) /\ SF_vars(CloseAudio)
  /\ WF_vars(Server)
  /\ WF_vars(EmulatorCommand)
  /\ WF_vars(Callback /\ cb)

-----------------------------------------------------------------------------
TypeOK ==
  /\ ui \in {"wait", "init", "up", "push", "destroy", "power", "powerOff", "join",
             "destroyed", "nullVm", "deletedVAmiga"}
  /\ uiOp \in Ops \union {"none"}
  /\ requests \in 0 .. MaxRequests
  /\ sentKeys \in 0 .. MaxKeys /\ keys \in 0 .. sentKeys
  /\ connected \in BOOLEAN /\ event \in BOOLEAN /\ err \in BOOLEAN /\ quit \in BOOLEAN
  /\ ops \in Seq(Ops)
  /\ srv \in {"create", "attach", "launch", "rom", "power", "openAudio", "createVm", "ready",
              "loop", "drain", "set", "closeAudio", "halt", "delete", "clear", "done"}
  /\ target \in {"Live", "Break"} /\ mode \in {"Live", "Break"}
  /\ rom \in BOOLEAN /\ vm \in BOOLEAN /\ warp \in BOOLEAN
  /\ obj \in {"none", "live", "deleted"}
  /\ cmds \in Seq({"on", "run", "pause", "off", "halt", "reset", "warpOn", "warpOff"})
  /\ emu \in {"none", "off", "paused", "running", "halted"}
  /\ dev \in BOOLEAN /\ cb \in BOOLEAN /\ aborted \in BOOLEAN

\* attachFileBacked failed: the thread is gone and told nobody
Abandoned == srv = "done" /\ obj = "live"

(* After the hand-shake initialize() finds the VM object it initialises,   *)
(* however early the emulator fails; only an abort message between the two *)
(* can take it away (va_server_thread.cpp:285-288).                        *)
InitFindsVm == ui = "nullVm" => aborted

(* SDL's audio thread pulls samples out of an emulator that exists: the    *)
(* device is opened after and closed before the object it reads.           *)
CallbackReadsLive == cb => obj = "live"

(* While the debugger windows hold the VM object, the emulator behind it   *)
(* exists; only an abort message takes it away under them, or an operation *)
(* that throws, which initialize() and the debugger no longer hear of.     *)
DebuggerReadsLive == connected /\ obj # "live" => aborted \/ err

(* When destroy() returns nothing is left: no thread, no emulator, no open *)
(* device, no VM object.                                                   *)
NothingLeft ==
  ui = "destroyed" =>
    srv = "done" /\ obj # "live" /\ emu \in {"none", "halted"} /\ ~dev /\ ~cb /\ ~vm

(* When all operations have gone through, the debug mode the menus show    *)
(* is what the emulator does, although the UI thread writes the mode, too. *)
ModeIsTrue ==
  srv \in {"loop", "drain"} /\ ui = "up" /\ ops = <<>> /\ cmds = <<>>
    => (mode = "Break" <=> emu = "paused")

(* initialize() does not wait for ever, except when a hard drive could not *)
(* be attached.                                                            *)
InitializeReturns == ui = "wait" ~> ui # "wait" \/ Abandoned

(* Every operation and keyboard event is applied, once the start has       *)
(* succeeded and until the loop is told to end or an operation throws.     *)
QueuesDrain == ops # <<>> \/ keys > 0 ~> (ops = <<>> /\ keys = 0) \/ quit \/ err

(* destroy() ends, in whatever state the emulator is - or the emulator was *)
(* deleted between its check and its call.                                 *)
DestroyEnds == ui = "destroy" ~> ui \in {"destroyed", "deletedVAmiga"}

(* "the actual pause/continue is applied exactly once below"               *)
(* (qsr_application.cpp:69-72): Continue lets the emulator run.            *)
ContinueRuns ==
  [][srv = "set" /\ Head(ops) = "Continue" /\ ops' = Tail(ops) => mode' = "Live"]_vars
=============================================================================
