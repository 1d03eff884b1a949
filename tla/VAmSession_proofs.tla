-------------------------- MODULE VAmSession_proofs --------------------------
(***************************************************************************)
(* The life of the objects the threads of the vAmiga back end share.  What *)
(* a thread may rely on follows from where the server thread is: the       *)
(* inductive invariant ties every shared pointer to its place.             *)
(***************************************************************************)
EXTENDS VAmSession, SequenceTheorems, TLAPS

Starting == {"create", "attach", "launch", "rom", "power", "openAudio", "createVm", "ready"}
Looping == {"loop", "drain", "set"}
Ending == {"closeAudio", "halt", "delete", "clear", "done"}

\* What exists where the server thread is.
ServerInv ==
  /\ srv = "create" => obj = "none" /\ ~vm /\ ~dev
  /\ srv \in {"attach", "launch", "rom", "power", "openAudio"} => obj = "live" /\ ~vm /\ ~dev
  /\ srv \in {"createVm"} => obj = "live" /\ ~vm
  /\ srv \in {"ready"} \union Looping => obj = "live" /\ vm
  /\ srv = "set" => ops # <<>>
  /\ srv \in {"halt", "delete"} => obj = "live" /\ ~dev
  /\ srv = "clear" => obj # "live" /\ ~dev
  /\ srv = "done" => ~dev /\ ~vm
  /\ dev => obj = "live"
  /\ cb => dev
  /\ obj # "live" => emu \in {"none", "halted"}

\* The event means an answer, and the thread ends for a reason.
EventInv ==
  /\ srv \in Starting => ~event /\ ~err
  /\ srv \in Looping => ~err
  /\ srv \in Ending => quit \/ err
  /\ Abandoned => ~event

\* What the UI thread knows once it has been told.
UiInv ==
  /\ ui # "wait" => srv \notin Starting /\ ~Abandoned
  /\ ui \in {"wait", "init"} => ops = <<>>
  /\ ui = "init" => ~err
  /\ connected => ui \in {"up", "push"}
  /\ ui \in {"wait", "init", "up", "push", "destroy"} => (quit => aborted)
  /\ ui = "push" => uiOp \in Ops
  /\ ui = "nullVm" => aborted
  /\ ui = "destroyed" => srv = "done" /\ obj # "live"

IInv == TypeOK /\ ServerInv /\ EventInv /\ UiInv

LEMMA InitInv == Init => IInv
<1> SUFFICES ASSUME Init PROVE IInv
  OBVIOUS
<1>1. TypeOK
  <2>1. /\ connected \in BOOLEAN /\ event \in BOOLEAN /\ err \in BOOLEAN /\ quit \in BOOLEAN
        /\ rom \in BOOLEAN /\ vm \in BOOLEAN /\ warp \in BOOLEAN
        /\ dev \in BOOLEAN /\ cb \in BOOLEAN /\ aborted \in BOOLEAN
    BY Zenon DEF Init
  <2>2. requests \in 0 .. MaxRequests /\ sentKeys \in 0 .. MaxKeys /\ keys \in 0 .. sentKeys
    BY VAmAssumption DEF Init
  <2>3. ops \in Seq(Ops)
        /\ cmds \in Seq({"on", "run", "pause", "off", "halt", "reset", "warpOn", "warpOff"})
    BY DEF Init
  <2> QED
    BY <2>1, <2>2, <2>3 DEF Init, TypeOK
<1>2. ServerInv /\ EventInv /\ UiInv
  BY DEF Init, ServerInv, EventInv, UiInv, Starting, Looping, Ending, Abandoned
<1> QED
  BY <1>1, <1>2 DEF IInv

-----------------------------------------------------------------------------
(* Types. *)

\* The two queues: what is added and what is taken away.
LEMMA QueueTypes ==
  ASSUME NEW S, NEW q \in Seq(S)
  PROVE  /\ \A e \in S : Append(q, e) \in Seq(S)
         /\ q # <<>> => Head(q) \in S /\ Tail(q) \in Seq(S)
BY AppendProperties, HeadTailProperties

LEMMA UiTypes == ASSUME TypeOK, UiInv, UiAlone \/ PushOperation \/ User PROVE TypeOK'
<1>1. CASE InitWait
  <2>1. event' \in BOOLEAN /\ ui' \in {"up", "init"}
    BY <1>1, Zenon DEF InitWait
  <2> QED
    BY <1>1, <2>1 DEF InitWait, TypeOK, queues, engine, audio
<1>2. CASE InitVm
  BY <1>2 DEF InitVm, UiStep, TypeOK, queues, shared, engine, audio
<1>3. CASE DestroyServer
  BY <1>3 DEF DestroyServer, TypeOK, queues, shared, engine, audio
<1>4. CASE PowerCheck
  BY <1>4 DEF PowerCheck, UiStep, TypeOK, queues, shared, engine, audio
<1>5. CASE PowerOff
  <2>1. Append(cmds, "off") \in Seq({"on", "run", "pause", "off", "halt", "reset", "warpOn", "warpOff"})
    BY QueueTypes DEF TypeOK
  <2>2. cmds' \in Seq({"on", "run", "pause", "off", "halt", "reset", "warpOn", "warpOff"})
    BY <1>5, <2>1 DEF PowerOff, TypeOK
  <2>3. ui' \in {"join", "deletedVAmiga"}
    BY <1>5 DEF PowerOff
  <2> QED
    BY <1>5, <2>2, <2>3 DEF PowerOff, TypeOK, queues, shared, audio
<1>6. CASE Join
  BY <1>6 DEF Join, UiStep, TypeOK, queues, shared, engine, audio
<1>7. CASE Connect
  BY <1>7 DEF Connect, UiStep, TypeOK, queues, shared, engine, audio
<1>8. ASSUME NEW op \in Ops, Request(op) PROVE TypeOK'
  <2>1. requests' \in 0 .. MaxRequests
    BY <1>8, VAmAssumption DEF Request, TypeOK
  <2>2. mode' \in {"Live", "Break"} /\ ui' \in {"up", "push"}
    BY <1>8 DEF Request, TypeOK
  <2> QED
    BY <1>8, <2>1, <2>2 DEF Request, UiStep, TypeOK, queues, shared, engine, audio
<1>9. CASE PushKey
  <2>1. sentKeys' \in 0 .. MaxKeys /\ keys' \in 0 .. sentKeys'
    BY <1>9, VAmAssumption DEF PushKey, TypeOK
  <2> QED
    BY <1>9, <2>1 DEF PushKey, UiStep, TypeOK, shared, engine, audio
<1>10. CASE DestroyDebugger
  <2>1. connected' \in BOOLEAN
    BY <1>10, Zenon DEF DestroyDebugger
  <2> QED
    BY <1>10, <2>1 DEF DestroyDebugger, UiStep, TypeOK, queues, shared, engine, audio
<1>11. CASE PushOperation
  <2>1. uiOp \in Ops => Append(ops, uiOp) \in Seq(Ops)
    BY QueueTypes DEF TypeOK
  <2>2. uiOp \in Ops
    BY <1>11 DEF PushOperation, UiInv
  <2> QED
    BY <1>11, <2>1, <2>2 DEF PushOperation, UiStep, TypeOK, shared, engine, audio
<1> QED
  BY <1>1, <1>2, <1>3, <1>4, <1>5, <1>6, <1>7, <1>8, <1>9, <1>10, <1>11 DEF UiAlone, User

LEMMA ServerTypes == ASSUME TypeOK, ServerInv, Server PROVE TypeOK'
<1> DEFINE C == {"on", "run", "pause", "off", "halt", "reset", "warpOn", "warpOff"}
<1>1. UNCHANGED <<uiVars, quit, cb, aborted>>
  BY DEF Server, StartUp, Loop, CleanUp, Create, AttachDrives, Launch, LoadRom, PowerOn, OpenAudio,
         CreateVm, Ready, LoopTop, ApplyKey, ApplyMode, SetMode, ApplyOther, DrainEnd, CloseAudio,
         Halt, Delete, ClearVm, SrvStep
<1>2. \A e \in C : Append(cmds, e) \in Seq(C)
  BY QueueTypes DEF TypeOK
<1>3. cmds \o <<"on", "run">> \in Seq(C)
  BY DEF TypeOK
<1>4. ops # <<>> => Tail(ops) \in Seq(Ops)
  BY QueueTypes DEF TypeOK
<1>5. err' \in BOOLEAN /\ event' \in BOOLEAN
  BY DEF ObeyTarget, Server, StartUp, Loop, CleanUp, Create, AttachDrives, Launch, LoadRom, PowerOn, OpenAudio,
         CreateVm, Ready, LoopTop, ApplyKey, ApplyMode, SetMode, ApplyOther, DrainEnd, CloseAudio,
         Halt, Delete, ClearVm, Catch, TypeOK
<1>6. dev' \in BOOLEAN /\ vm' \in BOOLEAN /\ rom' \in BOOLEAN /\ warp' \in BOOLEAN
  BY DEF LoadSnapshot, Server, StartUp, Loop, CleanUp, Create, AttachDrives, Launch, LoadRom, PowerOn, OpenAudio,
         CreateVm, Ready, LoopTop, ApplyKey, ApplyMode, SetMode, ApplyOther, DrainEnd, CloseAudio,
         Halt, Delete, ClearVm, engine, TypeOK
<1>7. cmds' \in Seq(C)
  BY <1>2, <1>3
  DEF ObeyTarget, Server, StartUp, Loop, CleanUp, Create, AttachDrives, Launch, LoadRom, PowerOn, OpenAudio,
      CreateVm, Ready, LoopTop, ApplyKey, ApplyMode, SetMode, ApplyOther, DrainEnd, CloseAudio,
      Halt, Delete, ClearVm, engine, TypeOK
<1>8. ops' \in Seq(Ops) /\ keys' \in 0 .. sentKeys
  <2>1. keys \in 0 .. sentKeys /\ ops \in Seq(Ops) /\ sentKeys \in Nat
    BY VAmAssumption DEF TypeOK
  <2>2. CASE ApplyKey
    BY <2>1, <2>2 DEF ApplyKey
  <2>3. CASE SetMode
    BY <2>1, <2>3, <1>4 DEF SetMode, ObeyTarget, ServerInv
  <2> QED
    BY <2>1, <2>2, <2>3, <1>4
    DEF Server, StartUp, Loop, CleanUp, Create, AttachDrives, Launch, LoadRom, PowerOn, OpenAudio,
        CreateVm, Ready, LoopTop, ApplyMode, ApplyOther, DrainEnd, CloseAudio, Halt, Delete,
        ClearVm, queues
<1>9. target' \in {"Live", "Break"} /\ mode' \in {"Live", "Break"}
  BY DEF Server, StartUp, Loop, CleanUp, Create, AttachDrives, Launch, LoadRom, PowerOn, OpenAudio,
         CreateVm, Ready, LoopTop, ApplyKey, ApplyMode, SetMode, ApplyOther, DrainEnd, CloseAudio,
         Halt, Delete, ClearVm, Flipped, TypeOK
<1>10. obj' \in {"none", "live", "deleted"} /\ emu' \in {"none", "off", "paused", "running", "halted"}
  BY DEF Server, StartUp, Loop, CleanUp, Create, AttachDrives, Launch, LoadRom, PowerOn, OpenAudio,
         CreateVm, Ready, LoopTop, ApplyKey, ApplyMode, SetMode, ApplyOther, DrainEnd, CloseAudio,
         Halt, Delete, ClearVm, engine, TypeOK
<1>11. srv' \in Starting \union Looping \union Ending
  BY DEF ObeyTarget, Server, StartUp, Loop, CleanUp, Create, AttachDrives, Launch, LoadRom, PowerOn, OpenAudio,
         CreateVm, Ready, LoopTop, ApplyKey, ApplyMode, SetMode, ApplyOther, DrainEnd, CloseAudio,
         Halt, Delete, ClearVm, Catch, Starting, Looping, Ending
<1> HIDE DEF C
<1>12. /\ ui' = ui /\ uiOp' = uiOp /\ requests' = requests /\ connected' = connected
       /\ sentKeys' = sentKeys /\ quit' = quit /\ cb' = cb /\ aborted' = aborted
  BY <1>1 DEF uiVars
<1> QED
  BY <1>5, <1>6, <1>7, <1>8, <1>9, <1>10, <1>11, <1>12 DEF TypeOK, C, Starting, Looping, Ending

LEMMA EmulatorTypes ==
  ASSUME TypeOK, EmulatorCommand \/ AbortMessage \/ Callback
  PROVE  TypeOK'
<1>1. CASE EmulatorCommand
  <2>1. Tail(cmds) \in Seq({"on", "run", "pause", "off", "halt", "reset", "warpOn", "warpOff"})
    BY <1>1, QueueTypes DEF EmulatorCommand, TypeOK
  <2>2. emu' \in {"off", "paused", "running", "halted"}
    BY <1>1 DEF EmulatorCommand, AfterCommand
  <2>3. warp' \in BOOLEAN
    BY <1>1 DEF EmulatorCommand, TypeOK
  <2> QED
    BY <1>1, <2>1, <2>2, <2>3 DEF EmulatorCommand, TypeOK, uiVars, queues, shared, audio
<1>2. CASE AbortMessage
  BY <1>2 DEF AbortMessage, TypeOK, uiVars, queues, engine, audio
<1>3. CASE Callback
  <2>1. cb' \in BOOLEAN
    BY <1>3, Zenon DEF Callback
  <2> QED
    BY <1>3, <2>1 DEF Callback, TypeOK, uiVars, queues, shared, engine
<1> QED
  BY <1>1, <1>2, <1>3

-----------------------------------------------------------------------------
(* The rest of the invariant, thread by thread. *)

LEMMA UiStepInv ==
  ASSUME IInv, UiAlone \/ PushOperation \/ User
  PROVE  ServerInv' /\ EventInv' /\ UiInv'
<1>1. /\ UNCHANGED <<srv, obj, vm, dev, cb, err, emu, aborted>>
      /\ event' = event \/ (ui = "wait" /\ event /\ ~event')
      /\ quit => quit'
  BY DEF UiAlone, User, InitWait, InitVm, DestroyServer, PowerCheck, PowerOff, Join, Connect, Request,
         PushKey, DestroyDebugger, PushOperation, UiStep, shared, engine, audio
<1>2. ServerInv'
  <2>1. ops' = ops \/ (srv # "set" /\ PushOperation)
    BY DEF UiAlone, User, InitWait, InitVm, DestroyServer, PowerCheck, PowerOff, Join, Connect,
           Request, PushKey, DestroyDebugger, PushOperation, Locked, queues
  <2> QED
    BY <1>1, <2>1 DEF IInv, ServerInv
<1>3. EventInv'
  BY <1>1 DEF IInv, EventInv, Abandoned
<1>4. UiInv'
  <2>1. CASE InitWait
    BY <1>1, <2>1 DEF InitWait, queues, IInv, ServerInv, EventInv, UiInv, Abandoned, Starting, Looping,
                      Ending
  <2>2. CASE InitVm
    BY <1>1, <2>2 DEF InitVm, UiStep, shared, IInv, TypeOK, ServerInv, EventInv, UiInv, Abandoned,
                      Starting, Looping, Ending
  <2>3. CASE DestroyServer \/ PowerCheck \/ PowerOff \/ DestroyDebugger
    BY <1>1, <2>3 DEF DestroyServer, PowerCheck, PowerOff, DestroyDebugger, UiStep, shared, IInv,
                      UiInv, Abandoned
  <2>4. CASE Join
    BY <1>1, <2>4 DEF Join, UiStep, shared, IInv, UiInv, Abandoned
  <2>5. CASE Connect
    BY <1>1, <2>5 DEF Connect, UiStep, shared, IInv, EventInv, UiInv, Abandoned
  <2>6. ASSUME NEW op \in Ops, Request(op) PROVE UiInv'
    BY <1>1, <2>6 DEF Request, UiStep, shared, IInv, UiInv, Abandoned
  <2>7. CASE PushOperation \/ PushKey
    BY <1>1, <2>7 DEF PushOperation, PushKey, UiStep, shared, IInv, UiInv, Abandoned
  <2> QED
    BY <2>1, <2>2, <2>3, <2>4, <2>5, <2>6, <2>7 DEF UiAlone, User
<1> QED
  BY <1>2, <1>3, <1>4

LEMMA StartUpInv ==
  ASSUME IInv, StartUp
  PROVE  ServerInv' /\ EventInv' /\ UiInv'
<1>1. /\ ui' = ui /\ uiOp' = uiOp /\ quit' = quit /\ connected' = connected /\ cb' = cb
      /\ aborted' = aborted /\ ops' = ops
  BY DEF StartUp, Create, AttachDrives, Launch, LoadRom, PowerOn, OpenAudio, CreateVm, Ready,
         SrvStep, uiVars, queues
<1>2. srv \in Starting /\ ui = "wait" /\ ~event /\ ~err
  BY DEF StartUp, Create, AttachDrives, Launch, LoadRom, PowerOn, OpenAudio, CreateVm, Ready,
         IInv, EventInv, UiInv, Starting
<1>3. ServerInv'
  <2>1. cb => dev
    BY DEF IInv, ServerInv
  <2>2. CASE Create
    BY <1>1, <2>1, <2>2 DEF Create, Catch, IInv, ServerInv, Looping
  <2>3. CASE AttachDrives
    BY <1>1, <2>1, <2>3 DEF AttachDrives, engine, IInv, ServerInv, Looping
  <2>4. CASE Launch
    BY <1>1, <2>1, <2>4 DEF Launch, Catch, IInv, ServerInv, Looping
  <2>5. CASE LoadRom
    BY <1>1, <2>1, <2>5 DEF LoadRom, Catch, IInv, ServerInv, Looping
  <2>6. CASE PowerOn
    BY <1>1, <2>1, <2>6 DEF PowerOn, Catch, IInv, ServerInv, Looping
  <2>7. CASE OpenAudio
    BY <1>1, <2>1, <2>7 DEF OpenAudio, engine, IInv, ServerInv, Looping
  <2>8. CASE CreateVm
    BY <1>1, <2>1, <2>8 DEF CreateVm, engine, IInv, ServerInv, Looping
  <2>9. CASE Ready
    BY <1>1, <2>1, <2>9 DEF Ready, engine, IInv, ServerInv, Looping
  <2> QED
    BY <2>2, <2>3, <2>4, <2>5, <2>6, <2>7, <2>8, <2>9 DEF StartUp
<1>4. EventInv'
  BY <1>1, <1>2 DEF StartUp, Create, AttachDrives, Launch, LoadRom, PowerOn, OpenAudio, CreateVm, Ready,
                    Catch, engine, IInv, ServerInv, EventInv, Abandoned, Starting, Looping, Ending
<1>5. UiInv'
  BY <1>1, <1>2 DEF IInv, UiInv
<1> QED
  BY <1>3, <1>4, <1>5

\* An operation that throws takes the server thread out of its loop.
Throws == srv' = "closeAudio" /\ err' /\ event'

LEMMA LoopInv ==
  ASSUME IInv, Loop
  PROVE  ServerInv' /\ EventInv' /\ UiInv'
<1>1. /\ ui' = ui /\ uiOp' = uiOp /\ quit' = quit /\ connected' = connected /\ cb' = cb
      /\ aborted' = aborted /\ vm' = vm /\ obj' = obj /\ emu' = emu /\ dev' = dev
  BY DEF Loop, LoopTop, ApplyKey, ApplyMode, SetMode, ApplyOther, DrainEnd, SrvStep, uiVars, engine
<1>2. srv \in Looping /\ obj = "live" /\ vm /\ ~err
  BY DEF Loop, LoopTop, ApplyKey, ApplyMode, SetMode, ApplyOther, DrainEnd, IInv, ServerInv, EventInv,
         Looping
<1>3. \/ event' = event /\ err' = err /\ (srv' \in Looping \/ (srv' = "closeAudio" /\ quit))
      \/ Throws /\ ops # <<>>
  BY DEF Loop, LoopTop, ApplyKey, ApplyMode, SetMode, ObeyTarget, Catch, ApplyOther, DrainEnd,
         Looping, Throws, IInv, ServerInv
<1>4. (srv' = "set" => ops' # <<>>) /\ (ops = <<>> => ops' = <<>>)
  BY DEF Loop, LoopTop, ApplyKey, ApplyMode, SetMode, ObeyTarget, Catch, ApplyOther, DrainEnd, queues,
         IInv, ServerInv
<1>5. ServerInv'
  BY <1>1, <1>2, <1>3, <1>4 DEF IInv, ServerInv, Looping, Throws
<1>6. EventInv'
  BY <1>1, <1>2, <1>3 DEF IInv, EventInv, Abandoned, Starting, Looping, Ending, Throws
<1>7. UiInv'
  BY <1>1, <1>2, <1>3, <1>4 DEF IInv, UiInv, Abandoned, Starting, Looping, Throws
<1> QED
  BY <1>5, <1>6, <1>7

LEMMA CleanUpInv ==
  ASSUME IInv, CleanUp
  PROVE  ServerInv' /\ EventInv' /\ UiInv'
<1>1. /\ ui' = ui /\ uiOp' = uiOp /\ quit' = quit /\ connected' = connected /\ cb' = cb
      /\ aborted' = aborted /\ event' = event /\ err' = err /\ emu' = emu /\ ops' = ops
  BY DEF CleanUp, CloseAudio, Halt, Delete, ClearVm, SrvStep, uiVars, engine, queues
<1>2. srv \in Ending \ {"done"} /\ srv' \in Ending \ {"closeAudio"}
  BY DEF CleanUp, CloseAudio, Halt, Delete, ClearVm, Ending
<1>3. ServerInv'
  BY <1>1 DEF CleanUp, CloseAudio, Halt, Delete, ClearVm, engine, IInv, ServerInv, Looping
<1>4. srv' = "done" => obj' # "live"
  BY DEF CleanUp, CloseAudio, Halt, Delete, ClearVm, engine, IInv, ServerInv
<1>5. vm' => vm
  BY DEF CleanUp, CloseAudio, Halt, Delete, ClearVm
<1>6. EventInv'
  BY <1>1, <1>2, <1>4, <1>5 DEF IInv, EventInv, Abandoned, Starting, Looping, Ending
<1>7. UiInv'
  BY <1>1, <1>2, <1>4 DEF IInv, UiInv, Abandoned, Starting, Ending
<1> QED
  BY <1>3, <1>6, <1>7

LEMMA OthersInv ==
  ASSUME IInv, EmulatorCommand \/ AbortMessage \/ Callback
  PROVE  ServerInv' /\ EventInv' /\ UiInv'
<1>1. UNCHANGED <<ui, uiOp, connected, ops, srv, event, err, vm, obj, dev>>
  BY DEF EmulatorCommand, AbortMessage, Callback, uiVars, queues, shared, engine, audio
<1>2. CASE EmulatorCommand
  <2>1. UNCHANGED <<quit, cb, aborted>> /\ emu \notin {"none", "halted"}
    BY <1>2 DEF EmulatorCommand, shared, audio
  <2> QED
    BY <1>1, <2>1 DEF IInv, ServerInv, EventInv, UiInv, Abandoned
<1>3. CASE AbortMessage
  <2>1. cb' = cb /\ emu' = emu /\ quit' = TRUE /\ aborted' = TRUE
    BY <1>3 DEF AbortMessage, audio, engine
  <2> QED
    BY <1>1, <2>1 DEF IInv, ServerInv, EventInv, UiInv, Abandoned
<1>4. CASE Callback
  <2>1. UNCHANGED <<quit, aborted, emu>> /\ (cb' => dev)
    BY <1>4 DEF Callback, shared, engine, IInv, ServerInv
  <2> QED
    BY <1>1, <2>1 DEF IInv, ServerInv, EventInv, UiInv, Abandoned
<1> QED
  BY <1>2, <1>3, <1>4

LEMMA NextInv == IInv /\ [Next]_vars => IInv'
<1> SUFFICES ASSUME IInv, [Next]_vars PROVE IInv'
  OBVIOUS
<1>1. CASE UiAlone \/ PushOperation \/ User
  BY <1>1, UiTypes, UiStepInv DEF IInv
<1>2. CASE Server
  BY <1>2, ServerTypes, StartUpInv, LoopInv, CleanUpInv DEF IInv, Server
<1>3. CASE EmulatorCommand \/ AbortMessage \/ Callback
  BY <1>3, EmulatorTypes, OthersInv DEF IInv
<1>4. CASE UNCHANGED vars
  BY <1>4 DEF vars, uiVars, queues, shared, engine, audio, IInv, TypeOK, ServerInv, EventInv, UiInv,
              Abandoned
<1> QED
  BY <1>1, <1>2, <1>3, <1>4 DEF Next

LEMMA AlwaysInv == Spec => []IInv
BY InitInv, NextInv, PTL DEF Spec

\* The queues, flags and places of va_server_thread.cpp keep their types.
THEOREM TypeCorrect == Spec => []TypeOK
<1>1. IInv => TypeOK
  BY DEF IInv
<1> QED
  BY <1>1, AlwaysInv, PTL

\* initialize() finds m_pVm after the hand-shake, an abort message aside.
THEOREM InitAlwaysFindsVm == Spec => []InitFindsVm
<1>1. IInv => InitFindsVm
  BY DEF IInv, UiInv, InitFindsVm
<1> QED
  BY <1>1, AlwaysInv, PTL

\* vamiga_audio_callback never reads a deleted emulator.
THEOREM CallbackAlwaysReadsLive == Spec => []CallbackReadsLive
<1>1. IInv => CallbackReadsLive
  BY DEF IInv, ServerInv, CallbackReadsLive
<1> QED
  BY <1>1, AlwaysInv, PTL

\* The debugger windows never read a deleted emulator, an abort message
\* and an operation that throws aside.
THEOREM DebuggerAlwaysReadsLive == Spec => []DebuggerReadsLive
<1>1. IInv => DebuggerReadsLive
  <2> SUFFICES ASSUME IInv, connected, obj # "live" PROVE aborted \/ err
    BY DEF DebuggerReadsLive
  <2>1. ui \in {"up", "push"} /\ srv \notin Starting
    BY DEF IInv, UiInv
  <2>2. srv \in Ending
    BY <2>1 DEF IInv, TypeOK, ServerInv, Starting, Looping, Ending
  <2> QED
    BY <2>1, <2>2 DEF IInv, EventInv, UiInv
<1> QED
  BY <1>1, AlwaysInv, PTL

\* destroy() leaves no thread, emulator, device or VM object behind.
THEOREM NothingIsLeft == Spec => []NothingLeft
<1>1. IInv => NothingLeft
  BY DEF IInv, ServerInv, UiInv, NothingLeft
<1> QED
  BY <1>1, AlwaysInv, PTL


-----------------------------------------------------------------------------
(* The debug mode.  The UI thread writes it ahead of the operation it      *)
(* pushes, the server thread again when it applies one, and the emulator   *)
(* hears of it through its command queue.  What holds in between: as soon  *)
(* as no operation on the mode is under way, the commands still queued     *)
(* take the emulator to the mode.                                          *)

ModeOps == {"Pause", "Continue", "TraceStart", "StepInto"}
ModeCommands == {"run", "pause"}
Commands == {"on", "run", "pause", "off", "halt", "reset", "warpOn", "warpOff"}

CommandFor(m) == IF m = "Break" THEN "pause" ELSE "run"

\* The commands q take an emulator in state e to the mode m.
Settled(m, q, e) ==
  \/ \E i \in 1 .. Len(q) :
       q[i] = CommandFor(m) /\ \A j \in 1 .. Len(q) : j > i => q[j] \notin ModeCommands
  \/ /\ \A j \in 1 .. Len(q) : q[j] \notin ModeCommands
     /\ m = "Break" <=> e = "paused"

ModeUnderWay ==
  \/ \E i \in 1 .. Len(ops) : ops[i] \in ModeOps
  \/ ui = "push" /\ uiOp \in ModeOps

Powered == {"openAudio", "createVm", "ready", "loop", "drain", "set"}
PowerIsOn == srv \in Powered /\ ui \notin {"join", "destroyed", "deletedVAmiga"}

\* Before the emulator is switched on nothing is queued; an emulator that is
\* still off is about to be switched on and run, so that no "pause" is lost.
StartInv ==
  /\ srv \in Starting \ Powered => cmds = <<>>
  /\ srv \in {"rom", "power"} => emu = "off"
  /\ srv \in Starting => mode = "Live" /\ ops = <<>>

EngineInv ==
  PowerIsOn =>
    /\ \A i \in 1 .. Len(cmds) : cmds[i] \notin {"off", "halt"}
    /\ emu \in {"off", "paused", "running"}
    /\ emu = "off" => Len(cmds) >= 2 /\ cmds[1] = "on" /\ cmds[2] = "run"

ModeInv == PowerIsOn /\ ~ModeUnderWay => Settled(mode, cmds, emu)

LEMMA SettledAppend ==
  ASSUME NEW m, NEW e, NEW q \in Seq(Commands), NEW c \in Commands
  PROVE  /\ c = CommandFor(m) => Settled(m, Append(q, c), e)
         /\ c \notin ModeCommands /\ Settled(m, q, e) => Settled(m, Append(q, c), e)
<1> DEFINE r == Append(q, c)
<1>1. /\ Len(r) = Len(q) + 1 /\ Len(q) \in Nat
      /\ r[Len(q) + 1] = c
      /\ \A i \in 1 .. Len(q) : r[i] = q[i]
  BY AppendProperties, LenProperties
<1> HIDE DEF r
<1>2. ASSUME c = CommandFor(m) PROVE Settled(m, r, e)
  <2>1. Len(q) + 1 \in 1 .. Len(r) /\ \A j \in 1 .. Len(r) : ~(j > Len(q) + 1)
    BY <1>1
  <2> QED
    BY <1>1, <1>2, <2>1 DEF Settled
<1>3. ASSUME c \notin ModeCommands, Settled(m, q, e) PROVE Settled(m, r, e)
  <2>1. \A j \in 1 .. Len(r) : j \in 1 .. Len(q) \/ j = Len(q) + 1
    BY <1>1
  <2>2. CASE \E i \in 1 .. Len(q) :
               q[i] = CommandFor(m) /\ \A j \in 1 .. Len(q) : j > i => q[j] \notin ModeCommands
    <3>1. PICK i \in 1 .. Len(q) :
               q[i] = CommandFor(m) /\ \A j \in 1 .. Len(q) : j > i => q[j] \notin ModeCommands
      BY <2>2
    <3>2. i \in 1 .. Len(r) /\ r[i] = CommandFor(m)
      BY <1>1, <3>1
    <3>3. \A j \in 1 .. Len(r) : j > i => r[j] \notin ModeCommands
      BY <1>1, <1>3, <2>1, <3>1
    <3> QED
      BY <3>2, <3>3 DEF Settled
  <2>3. CASE /\ \A j \in 1 .. Len(q) : q[j] \notin ModeCommands
             /\ m = "Break" <=> e = "paused"
    <3>1. \A j \in 1 .. Len(r) : r[j] \notin ModeCommands
      BY <1>1, <1>3, <2>1, <2>3
    <3> QED
      BY <2>3, <3>1 DEF Settled
  <2> QED
    BY <1>3, <2>2, <2>3 DEF Settled
<1> QED
  BY <1>2, <1>3 DEF r

\* The emulator takes the first command: it gets nearer to where it is sent.
LEMMA SettledTail ==
  ASSUME NEW m \in {"Live", "Break"}, NEW q \in Seq(Commands), q # <<>>, Settled(m, q, emu),
         Head(q) \notin {"off", "halt"},
         emu \in {"off", "paused", "running"},
         emu = "off" => Len(q) >= 2 /\ q[1] = "on" /\ q[2] = "run"
  PROVE  Settled(m, Tail(q), AfterCommand(Head(q)))
<1> DEFINE r == Tail(q)
           e == AfterCommand(Head(q))
<1> SUFFICES Settled(m, r, e)
  OBVIOUS
<1>1. /\ Len(r) = Len(q) - 1 /\ Len(q) \in Nat /\ Len(q) >= 1
      /\ Head(q) = q[1] /\ q[1] \in Commands
      /\ \A i \in 1 .. Len(r) : r[i] = q[i + 1]
  BY HeadTailProperties, LenProperties, EmptySeq, ElementOfSeq
<1>2. e = CASE q[1] = "on" -> IF emu = "off" THEN "paused" ELSE emu
            [] q[1] = "run" -> "running"
            [] q[1] = "pause" -> IF emu = "running" THEN "paused" ELSE emu
            [] q[1] \in {"reset", "warpOn", "warpOff"} -> emu
  BY <1>1 DEF AfterCommand, Commands
<1> HIDE DEF r, e
<1>3. \A j \in 1 .. Len(r) : j + 1 \in 1 .. Len(q)
  BY <1>1
<1>4. CASE \E i \in 1 .. Len(q) :
             q[i] = CommandFor(m) /\ \A j \in 1 .. Len(q) : j > i => q[j] \notin ModeCommands
  <2>1. PICK i \in 1 .. Len(q) :
             q[i] = CommandFor(m) /\ \A j \in 1 .. Len(q) : j > i => q[j] \notin ModeCommands
    BY <1>4
  <2>2. CASE i = 1
    <3>1. \A j \in 1 .. Len(r) : r[j] \notin ModeCommands
      BY <1>1, <1>3, <2>1, <2>2
    <3>2. m = "Break" <=> e = "paused"
      BY <1>2, <2>1, <2>2 DEF CommandFor
    <3> QED
      BY <3>1, <3>2 DEF Settled
  <2>3. CASE i # 1
    <3>1. i - 1 \in 1 .. Len(r) /\ r[i - 1] = CommandFor(m)
      BY <1>1, <2>1, <2>3
    <3>2. \A j \in 1 .. Len(r) : j > i - 1 => r[j] \notin ModeCommands
      BY <1>1, <1>3, <2>1
    <3> QED
      BY <3>1, <3>2 DEF Settled
  <2> QED
    BY <2>2, <2>3
<1>5. CASE /\ \A j \in 1 .. Len(q) : q[j] \notin ModeCommands
           /\ m = "Break" <=> emu = "paused"
  <2>1. \A j \in 1 .. Len(r) : r[j] \notin ModeCommands
    BY <1>1, <1>3, <1>5
  <2>2. emu # "off"
    BY <1>1, <1>5 DEF ModeCommands
  <2>3. q[1] \notin ModeCommands
    BY <1>1, <1>5
  <2>4. e = emu
    BY <1>1, <1>2, <2>2, <2>3 DEF ModeCommands, Commands
  <2> QED
    BY <1>5, <2>1, <2>4 DEF Settled
<1> QED
  BY <1>4, <1>5 DEF Settled


LEMMA ModeInit == Init => StartInv /\ EngineInv /\ ModeInv
BY DEF Init, StartInv, EngineInv, ModeInv, PowerIsOn, Powered, Starting

LEMMA StartNext == IInv /\ StartInv /\ [Next]_vars => StartInv'
<1> SUFFICES ASSUME IInv, StartInv, [Next]_vars PROVE StartInv'
  OBVIOUS
<1> USE DEF StartInv
<1>1. CASE UiAlone \/ PushOperation \/ User
  <2>1. srv' = srv /\ emu' = emu
    BY <1>1 DEF UiAlone, User, InitWait, InitVm, DestroyServer, PowerCheck, PowerOff, Join, Connect,
            Request, PushKey, DestroyDebugger, PushOperation, UiStep, engine
  <2>2. CASE srv \in Starting
    <3>1. ui = "wait"
      BY <2>2 DEF IInv, UiInv
    <3>2. ops' = ops /\ cmds' = cmds /\ mode' = mode
      BY <1>1, <3>1 DEF UiAlone, User, InitWait, InitVm, DestroyServer, PowerCheck, PowerOff, Join,
         Connect, Request, PushKey, DestroyDebugger, PushOperation, queues, engine
    <3> QED
      BY <2>1, <3>2
  <2> QED
    BY <2>1, <2>2 DEF Starting, Powered
<1>2. CASE StartUp
  BY <1>2 DEF StartUp, Create, AttachDrives, Launch, LoadRom, PowerOn, OpenAudio, CreateVm, Ready,
              Catch, engine, queues, Starting, Powered
<1>3. CASE Loop \/ CleanUp
  <2>1. srv' \notin Starting
    BY <1>3 DEF Loop, CleanUp, LoopTop, ApplyKey, ApplyMode, SetMode, ObeyTarget, Catch, ApplyOther,
                DrainEnd, CloseAudio, Halt, Delete, ClearVm, Starting
  <2> QED
    BY <2>1 DEF Starting
<1>4. CASE EmulatorCommand \/ AbortMessage \/ Callback
  <2>1. srv' = srv /\ mode' = mode /\ ops' = ops
    BY <1>4 DEF EmulatorCommand, AbortMessage, Callback, queues
  <2>2. cmds = <<>> => cmds' = cmds /\ emu' = emu
    BY <1>4 DEF EmulatorCommand, AbortMessage, Callback, engine
  <2>3. srv \in {"rom", "power"} => srv \in Starting \ Powered
    BY DEF Starting, Powered
  <2> QED
    BY <2>1, <2>2, <2>3
<1>5. CASE UNCHANGED vars
  BY <1>5 DEF vars, engine, queues
<1> QED
  BY <1>1, <1>2, <1>3, <1>4, <1>5 DEF Next, Server

\* One lemma for each kind of step: what it does to the emulator's queue and
\* to the mode while the power is on.
LEMMA UiMode ==
  ASSUME IInv, EngineInv, ModeInv, UiAlone \/ PushOperation \/ User
  PROVE  EngineInv' /\ ModeInv'
<1> SUFFICES ASSUME PowerIsOn' PROVE EngineInv' /\ ModeInv'
  BY DEF EngineInv, ModeInv
<1>1. srv' = srv /\ emu' = emu
  BY DEF UiAlone, User, InitWait, InitVm, DestroyServer, PowerCheck, PowerOff, Join, Connect,
         Request, PushKey, DestroyDebugger, PushOperation, UiStep, engine
<1>2. PowerIsOn /\ cmds' = cmds
  BY <1>1 DEF UiAlone, User, InitWait, InitVm, DestroyServer, PowerCheck, PowerOff, Join, Connect,
         Request, PushKey, DestroyDebugger, PushOperation, UiStep, engine, PowerIsOn
<1>3. EngineInv'
  BY <1>1, <1>2 DEF EngineInv
<1>4. ~ModeUnderWay' => ~ModeUnderWay /\ mode' = mode
  <2>1. CASE PushOperation
    <3>1. /\ Len(ops') = Len(ops) + 1 /\ Len(ops) \in Nat
          /\ ops'[Len(ops) + 1] = uiOp
          /\ \A i \in 1 .. Len(ops) : ops'[i] = ops[i]
      BY <2>1, AppendProperties, LenProperties DEF PushOperation, IInv, TypeOK, UiInv
    <3>2. mode' = mode
      BY <2>1 DEF PushOperation
    <3> QED
      BY <3>1, <3>2 DEF ModeUnderWay
  <2>2. ASSUME NEW op \in Ops, Request(op) PROVE ~ModeUnderWay' => ~ModeUnderWay /\ mode' = mode
    <3>1. ops' = ops /\ ui # "push" /\ uiOp' = op
      BY <2>2 DEF Request, queues
    <3>2. srv \in Starting \union Looping /\ ui = "up"
      BY <1>2, <2>2 DEF Request, PowerIsOn, Powered, Starting, Looping
    <3>3. ~err
      BY <3>2 DEF IInv, EventInv
    <3>4. ui' = "push"
      BY <2>2, <3>3 DEF Request
    <3>5. op \notin ModeOps => mode' = mode
      BY <2>2 DEF Request, ModeOps
    <3> QED
      BY <3>1, <3>4, <3>5 DEF ModeUnderWay
  <2>3. CASE UiAlone \/ Connect \/ PushKey \/ DestroyDebugger
    <3>1. ops' = ops /\ mode' = mode /\ ui # "push"
      BY <2>3 DEF UiAlone, InitWait, InitVm, DestroyServer, PowerCheck, PowerOff, Join, Connect,
                  PushKey, DestroyDebugger, queues
    <3> QED
      BY <3>1 DEF ModeUnderWay
  <2> QED
    BY <2>1, <2>2, <2>3 DEF User
<1> QED
  BY <1>1, <1>2, <1>3, <1>4 DEF ModeInv

LEMMA StartUpMode ==
  ASSUME IInv, StartInv, EngineInv, ModeInv, StartUp
  PROVE  EngineInv' /\ ModeInv'
<1>1. CASE PowerOn /\ rom
  <2>1. cmds' = <<"on", "run">> /\ mode' = "Live" /\ emu' = "off"
    BY <1>1 DEF PowerOn, StartInv, Starting, Powered
  <2>2. /\ Len(cmds') = 2 /\ cmds'[1] = "on" /\ cmds'[2] = "run"
        /\ \A i \in 1 .. Len(cmds') : i = 1 \/ i = 2
    BY <2>1
  <2>3. EngineInv'
    BY <2>1, <2>2 DEF EngineInv
  <2>4. Settled(mode, cmds, emu)'
    BY <2>1, <2>2 DEF Settled, CommandFor, ModeCommands
  <2> QED
    BY <2>3, <2>4 DEF ModeInv
<1>2. CASE OpenAudio \/ CreateVm \/ Ready
  <2>1. UNCHANGED <<ui, uiOp, ops, mode, cmds, emu>> /\ srv \in Powered
    BY <1>2 DEF OpenAudio, CreateVm, Ready, SrvStep, uiVars, queues, engine, Powered
  <2> QED
    BY <2>1 DEF EngineInv, ModeInv, PowerIsOn, ModeUnderWay
<1>3. CASE Create \/ AttachDrives \/ Launch \/ LoadRom \/ (PowerOn /\ ~rom)
  <2>1. srv' \notin Powered
    BY <1>3 DEF Create, AttachDrives, Launch, LoadRom, PowerOn, Catch, Powered
  <2> QED
    BY <2>1 DEF EngineInv, ModeInv, PowerIsOn
<1> QED
  BY <1>1, <1>2, <1>3 DEF StartUp

LEMMA LoopMode ==
  ASSUME IInv, EngineInv, ModeInv, Loop
  PROVE  EngineInv' /\ ModeInv'
<1> SUFFICES ASSUME PowerIsOn' PROVE EngineInv' /\ ModeInv'
  BY DEF EngineInv, ModeInv
<1>1. UNCHANGED <<ui, uiOp, emu>>
  BY DEF Loop, LoopTop, ApplyKey, ApplyMode, SetMode, ApplyOther, DrainEnd, SrvStep, uiVars, engine
<1>2. PowerIsOn
  BY <1>1 DEF Loop, LoopTop, ApplyKey, ApplyMode, SetMode, ApplyOther, DrainEnd, PowerIsOn, Powered
<1>3. cmds \in Seq(Commands)
  BY DEF IInv, TypeOK, Commands
<1>4. ASSUME NEW c \in Commands, c \notin {"off", "halt"}, cmds' = Append(cmds, c) PROVE EngineInv'
  <2>1. /\ Len(cmds') = Len(cmds) + 1 /\ Len(cmds) \in Nat
        /\ cmds'[Len(cmds) + 1] = c
        /\ \A i \in 1 .. Len(cmds) : cmds'[i] = cmds[i]
    BY <1>3, <1>4, AppendProperties, LenProperties
  <2>2. \A i \in 1 .. Len(cmds') : i \in 1 .. Len(cmds) \/ i = Len(cmds) + 1
    BY <2>1
  <2> QED
    BY <1>1, <1>2, <1>4, <2>1, <2>2 DEF EngineInv
<1>5. CASE SetMode
  <2>0. srv' # "closeAudio"
    BY DEF PowerIsOn, Powered
  <2>1. mode' = target /\ target \in {"Live", "Break"}
        /\ cmds' = Append(cmds, CommandFor(target))
    BY <1>5, <2>0 DEF SetMode, ObeyTarget, Catch, CommandFor, IInv, TypeOK
  <2>2. CommandFor(target) \in Commands /\ CommandFor(target) \notin {"off", "halt"}
    BY DEF CommandFor, Commands
  <2>3. Settled(mode, cmds, emu)'
    BY <1>3, <2>1, <2>2, SettledAppend
  <2> QED
    BY <1>4, <2>1, <2>2, <2>3 DEF ModeInv
<1>6. CASE ApplyOther
  <2>1. cmds' = cmds \/ \E c \in {"warpOn", "warpOff", "reset"} : cmds' = Append(cmds, c)
    BY <1>6 DEF ApplyOther
  <2>2. \A c \in {"warpOn", "warpOff", "reset"} :
          c \in Commands /\ c \notin ModeCommands /\ c \notin {"off", "halt"}
    BY DEF Commands, ModeCommands
  <2>3. mode' = mode /\ ops' = Tail(ops) /\ ops # <<>> /\ Head(ops) \notin ModeOps
    BY <1>6 DEF ApplyOther, ModeOps
  <2>4. /\ Len(ops') = Len(ops) - 1 /\ Len(ops) \in Nat /\ ops[1] \notin ModeOps
        /\ \A i \in 1 .. Len(ops') : ops'[i] = ops[i + 1]
    BY <2>3, HeadTailProperties, LenProperties DEF IInv, TypeOK
  <2>5. ModeUnderWay => ModeUnderWay'
    <3>1. ASSUME NEW i \in 1 .. Len(ops), ops[i] \in ModeOps PROVE ModeUnderWay'
      <4>1. i - 1 \in 1 .. Len(ops') /\ ops'[i - 1] = ops[i]
        BY <2>4, <3>1
      <4> QED
        BY <3>1, <4>1 DEF ModeUnderWay
    <3> QED
      BY <1>1, <3>1 DEF ModeUnderWay
  <2>6. Settled(mode, cmds, emu) => Settled(mode, cmds, emu)'
    BY <1>1, <1>3, <2>1, <2>2, <2>3, SettledAppend
  <2>7. EngineInv'
    BY <1>1, <1>2, <1>4, <2>1, <2>2 DEF EngineInv
  <2> QED
    BY <1>2, <2>5, <2>6, <2>7 DEF ModeInv
<1>7. CASE LoopTop \/ ApplyKey \/ ApplyMode \/ DrainEnd
  <2>1. UNCHANGED <<mode, ops, cmds>>
    BY <1>7 DEF LoopTop, ApplyKey, ApplyMode, DrainEnd, queues, engine
  <2> QED
    BY <1>1, <1>2, <2>1 DEF EngineInv, ModeInv, ModeUnderWay
<1> QED
  BY <1>5, <1>6, <1>7 DEF Loop

LEMMA EmulatorMode ==
  ASSUME IInv, EngineInv, ModeInv, EmulatorCommand
  PROVE  EngineInv' /\ ModeInv'
<1> SUFFICES ASSUME PowerIsOn' PROVE EngineInv' /\ ModeInv'
  BY DEF EngineInv, ModeInv
<1>1. /\ UNCHANGED <<ui, uiOp, srv, mode, ops>>
      /\ cmds # <<>> /\ cmds' = Tail(cmds) /\ emu' = AfterCommand(Head(cmds))
  BY DEF EmulatorCommand, uiVars, queues
<1>2. PowerIsOn
  BY <1>1 DEF PowerIsOn
<1>3. cmds \in Seq(Commands) /\ mode \in {"Live", "Break"}
  BY DEF IInv, TypeOK, Commands
<1>4. /\ Len(cmds') = Len(cmds) - 1 /\ Len(cmds) \in Nat /\ Len(cmds) >= 1
      /\ Head(cmds) = cmds[1]
      /\ \A i \in 1 .. Len(cmds') : cmds'[i] = cmds[i + 1] /\ i + 1 \in 1 .. Len(cmds)
  BY <1>1, <1>3, HeadTailProperties, LenProperties, EmptySeq
<1>5. Head(cmds) \notin {"off", "halt"} /\ emu \in {"off", "paused", "running"}
  BY <1>2, <1>4 DEF EngineInv
<1>6. EngineInv'
  <2>1. \A i \in 1 .. Len(cmds') : cmds'[i] \notin {"off", "halt"}
    BY <1>2, <1>4 DEF EngineInv
  <2>2. emu' \in {"paused", "running"}
    <3>1. emu = "off" => Head(cmds) = "on"
      BY <1>2, <1>4 DEF EngineInv
    <3> QED
      BY <1>1, <1>5, <3>1 DEF AfterCommand
  <2> QED
    BY <2>1, <2>2 DEF EngineInv
<1>7. ASSUME ~ModeUnderWay' PROVE Settled(mode, cmds, emu)'
  <2>1. Settled(mode, cmds, emu)
    BY <1>1, <1>2, <1>7 DEF ModeInv, ModeUnderWay
  <2>2. emu = "off" => Len(cmds) >= 2 /\ cmds[1] = "on" /\ cmds[2] = "run"
    BY <1>2 DEF EngineInv
  <2>3. Settled(mode, Tail(cmds), AfterCommand(Head(cmds)))
    BY <1>1, <1>3, <1>5, <2>1, <2>2, SettledTail
  <2> QED
    BY <1>1, <2>3
<1> QED
  BY <1>6, <1>7 DEF ModeInv

LEMMA ModeNext ==
  IInv /\ StartInv /\ EngineInv /\ ModeInv /\ [Next]_vars => StartInv' /\ EngineInv' /\ ModeInv'
<1> SUFFICES ASSUME IInv, StartInv, EngineInv, ModeInv, [Next]_vars
             PROVE  EngineInv' /\ ModeInv'
  BY StartNext
<1>1. CASE CleanUp
  <2>1. srv' \notin Powered
    BY <1>1 DEF CleanUp, CloseAudio, Halt, Delete, ClearVm, Powered
  <2> QED
    BY <2>1 DEF EngineInv, ModeInv, PowerIsOn
<1>2. CASE AbortMessage \/ Callback \/ UNCHANGED vars
  <2>1. UNCHANGED <<ui, uiOp, srv, mode, ops, cmds, emu>>
    BY <1>2 DEF AbortMessage, Callback, vars, uiVars, queues, engine
  <2> QED
    BY <2>1 DEF EngineInv, ModeInv, PowerIsOn, ModeUnderWay
<1> QED
  BY <1>1, <1>2, UiMode, StartUpMode, LoopMode, EmulatorMode DEF Next, Server

\* The debug mode the menus read follows the operations: with nothing under
\* way and no command queued it says whether the emulator runs, however the
\* writes of the two threads fell (qsr_application.cpp, VAmVmImp).
THEOREM ModeAlwaysTrue == Spec => []ModeIsTrue
<1>1. IInv /\ EngineInv /\ ModeInv => ModeIsTrue
  <2> SUFFICES ASSUME EngineInv, ModeInv, srv \in {"loop", "drain"}, ui = "up",
                      ops = <<>>, cmds = <<>>
               PROVE  mode = "Break" <=> emu = "paused"
    BY DEF ModeIsTrue
  <2>1. PowerIsOn /\ ~ModeUnderWay
    BY DEF PowerIsOn, Powered, ModeUnderWay
  <2> QED
    BY <2>1 DEF ModeInv, Settled
<1>2. Spec => [](StartInv /\ EngineInv /\ ModeInv)
  BY ModeInit, ModeNext, AlwaysInv, PTL DEF Spec
<1> QED
  BY <1>1, <1>2, AlwaysInv, PTL

-----------------------------------------------------------------------------
(* What the UI thread waits for comes: initialize() waits for the event,   *)
(* destroy() for the end of the server thread, and that one for the        *)
(* emulator thread.                                                        *)

CloseInv ==
  /\ ui = "wait" /\ srv \notin Starting => event \/ Abandoned
  /\ ui \in {"power", "powerOff", "join", "destroyed", "deletedVAmiga"} => quit
  /\ ui = "powerOff" => obj # "none"
  /\ srv = "delete" /\ emu \notin {"none", "halted"}
       => \E i \in 1 .. Len(cmds) : cmds[i] = "halt"

LEMMA CloseNext == IInv /\ CloseInv /\ [Next]_vars => CloseInv'
<1> SUFFICES ASSUME IInv, CloseInv, [Next]_vars PROVE CloseInv'
  OBVIOUS
<1> USE DEF CloseInv
<1>1. CASE UiAlone \/ PushOperation \/ User
  <2>1. /\ UNCHANGED <<srv, obj, emu>>
        /\ event' = event \/ (ui = "wait" /\ ui' # "wait")
        /\ ui' = "wait" => ui = "wait"
    BY <1>1 DEF UiAlone, User, InitWait, InitVm, DestroyServer, PowerCheck, PowerOff, Join,
       Connect, Request, PushKey, DestroyDebugger, PushOperation, UiStep, shared, engine
  <2>2. /\ ui' \in {"power", "powerOff", "join", "destroyed", "deletedVAmiga"} => quit'
        /\ ui' = "powerOff" => obj # "none"
    BY <1>1 DEF UiAlone, User, InitWait, InitVm, DestroyServer, PowerCheck, PowerOff, Join,
       Connect, Request, PushKey, DestroyDebugger, PushOperation, UiStep, shared
  <2>3. cmds' = cmds \/ cmds' = Append(cmds, "off")
    BY <1>1 DEF UiAlone, User, InitWait, InitVm, DestroyServer, PowerCheck, PowerOff, Join,
       Connect, Request, PushKey, DestroyDebugger, PushOperation, UiStep, engine
  <2>4. (\E i \in 1 .. Len(cmds) : cmds[i] = "halt") => \E i \in 1 .. Len(cmds') : cmds'[i] = "halt"
    <3>1. cmds \in Seq(Commands) /\ "off" \in Commands
      BY DEF IInv, TypeOK, Commands
    <3>2. /\ Len(Append(cmds, "off")) = Len(cmds) + 1 /\ Len(cmds) \in Nat
          /\ \A i \in 1 .. Len(cmds) : Append(cmds, "off")[i] = cmds[i]
      BY <3>1, AppendProperties, LenProperties
    <3> QED
      BY <2>3, <3>2
  <2> QED
    BY <2>1, <2>2, <2>4 DEF Abandoned
<1>2. CASE StartUp
  <2>1. UNCHANGED <<ui, quit>> /\ ui = "wait"
    BY <1>2 DEF StartUp, Create, AttachDrives, Launch, LoadRom, PowerOn, OpenAudio, CreateVm, Ready,
       SrvStep, uiVars, IInv, UiInv, Starting
  <2>2. srv' \notin Starting => event' \/ Abandoned'
    BY <1>2 DEF StartUp, Create, AttachDrives, Launch, LoadRom, PowerOn, OpenAudio, CreateVm, Ready,
       Catch, Abandoned, Starting, engine, IInv, ServerInv
  <2>3. srv' # "delete"
    BY <1>2 DEF StartUp, Create, AttachDrives, Launch, LoadRom, PowerOn, OpenAudio, CreateVm, Ready,
       Catch
  <2> QED
    BY <2>1, <2>2, <2>3
<1>3. CASE Loop
  <2>1. UNCHANGED <<ui, quit, obj>> /\ (event => event') /\ srv \in Looping /\ srv' # "delete"
    BY <1>3 DEF Loop, LoopTop, ApplyKey, ApplyMode, SetMode, ObeyTarget, Catch, ApplyOther, DrainEnd,
       SrvStep, uiVars, engine, Looping
  <2>2. ~Abandoned /\ srv \notin Starting
    BY <2>1 DEF Abandoned, Looping, Starting
  <2> QED
    BY <2>1, <2>2
<1>4. CASE CleanUp
  <2>1. UNCHANGED <<ui, quit, event, emu>> /\ srv \in Ending \ {"done"} /\ (obj' # "none" \/ obj' = obj)
    BY <1>4 DEF CleanUp, CloseAudio, Halt, Delete, ClearVm, SrvStep, uiVars, engine, Ending
  <2>2. ~Abandoned /\ srv \notin Starting
    BY <2>1 DEF Abandoned, Ending, Starting
  <2>3. srv' = "delete" => \E i \in 1 .. Len(cmds') : cmds'[i] = "halt"
    <3>1. srv' = "delete" => cmds' = Append(cmds, "halt")
      BY <1>4 DEF CleanUp, CloseAudio, Halt, Delete, ClearVm
    <3>2. cmds \in Seq(Commands) /\ "halt" \in Commands
      BY DEF IInv, TypeOK, Commands
    <3>3. /\ Len(Append(cmds, "halt")) = Len(cmds) + 1 /\ Len(cmds) \in Nat
          /\ Append(cmds, "halt")[Len(cmds) + 1] = "halt"
      BY <3>2, AppendProperties, LenProperties
    <3> QED
      BY <3>1, <3>3
  <2> QED
    BY <2>1, <2>2, <2>3
<1>5. CASE EmulatorCommand
  <2>1. UNCHANGED <<ui, quit, event, srv, obj>>
    BY <1>5 DEF EmulatorCommand, uiVars, shared
  <2>2. CASE Head(cmds) = "halt"
    BY <1>5, <2>1, <2>2 DEF EmulatorCommand, AfterCommand, Abandoned
  <2>3. CASE Head(cmds) # "halt"
    <3>1. cmds \in Seq(Commands) /\ cmds # <<>> /\ cmds' = Tail(cmds)
      BY <1>5 DEF EmulatorCommand, IInv, TypeOK, Commands
    <3>2. /\ Len(cmds') = Len(cmds) - 1 /\ Len(cmds) \in Nat /\ Head(cmds) = cmds[1]
          /\ \A i \in 1 .. Len(cmds') : cmds'[i] = cmds[i + 1]
      BY <3>1, HeadTailProperties, LenProperties
    <3>3. ASSUME NEW i \in 1 .. Len(cmds), cmds[i] = "halt"
          PROVE  i - 1 \in 1 .. Len(cmds') /\ cmds'[i - 1] = "halt"
      BY <2>3, <3>2, <3>3
    <3>4. emu \notin {"none", "halted"}
      BY <1>5 DEF EmulatorCommand
    <3> QED
      BY <2>1, <3>3, <3>4 DEF Abandoned
  <2> QED
    BY <2>2, <2>3
<1>6. CASE AbortMessage \/ Callback
  <2>1. UNCHANGED <<ui, event, srv, obj, emu, cmds>> /\ (quit => quit')
    BY <1>6 DEF AbortMessage, Callback, uiVars, shared, engine
  <2> QED
    BY <2>1 DEF Abandoned
<1>7. CASE UNCHANGED vars
  BY <1>7 DEF vars, uiVars, shared, engine, Abandoned
<1> QED
  BY <1>1, <1>2, <1>3, <1>4, <1>5, <1>6, <1>7 DEF Next, Server

\* Nobody waits for what will not come: a UI thread in initialize() with the
\* start over finds the event up, unless a hard drive could not be attached; a
\* server thread that waits to delete the emulator has its "halt" queued or
\* done; a destroy() that waits for the server thread has told it to quit.
\* What fairness adds is InitializeReturns and DestroyEnds.
THEOREM NobodyWaitsInVain == Spec => []CloseInv
<1>1. Init => CloseInv
  BY DEF Init, CloseInv, Starting
<1> QED
  BY <1>1, CloseNext, AlwaysInv, PTL DEF Spec

\* Whatever is still queued for the emulator takes it to the debug mode, as soon
\* as no operation on the mode is under way: also while commands are queued, when
\* ModeIsTrue says nothing.
THEOREM QueueLeadsToMode == Spec => []ModeInv
<1>1. Spec => [](StartInv /\ EngineInv /\ ModeInv)
  BY ModeInit, ModeNext, AlwaysInv, PTL DEF Spec
<1> QED
  BY <1>1, PTL

-----------------------------------------------------------------------------
(* initialize() returns.                                                   *)

\* The stations of the start, with the UI thread waiting for its end.
StartsAt(point) == ui = "wait" /\ srv = point
Answered == ui = "wait" /\ srv \notin Starting /\ event
Over == ui # "wait" \/ Abandoned

Following ==
  [create |-> "attach", attach |-> "launch", launch |-> "rom", rom |-> "power",
   power |-> "openAudio", openAudio |-> "createVm", createVm |-> "ready", ready |-> "loop"]

\* Before the answer nobody but the server thread gets the start any further,
\* and each of its steps leads to the next station or to the answer.
LEMMA StartStep ==
  ASSUME NEW here \in Starting, IInv, CloseInv', [Next]_vars, StartsAt(here)
  PROVE  IF Server
         THEN StartsAt(Following[here])' \/ Answered' \/ Over'
         ELSE StartsAt(here)'
<1>1. ~event /\ ui = "wait" /\ srv = here
  BY DEF IInv, EventInv, StartsAt
<1>2. CASE Server
  <2>1. StartUp
    BY <1>1, <1>2 DEF Server, Loop, LoopTop, ApplyKey, ApplyMode, SetMode, ApplyOther, DrainEnd,
       CleanUp, CloseAudio, Halt, Delete, ClearVm, Starting
  <2>2. ui' = "wait"
    BY <1>1, <2>1 DEF StartUp, Create, AttachDrives, Launch, LoadRom, PowerOn, OpenAudio, CreateVm,
       Ready, SrvStep, uiVars
  <2>3. srv' \in Starting => srv' = Following[here]
    BY <1>1, <2>1 DEF StartUp, Create, AttachDrives, Launch, LoadRom, PowerOn, OpenAudio, CreateVm,
       Ready, Catch, Starting, Following
  <2>4. srv' \notin Starting => Answered' \/ Over'
    BY <2>2 DEF CloseInv, Answered, Over
  <2> QED
    BY <1>2, <2>2, <2>3, <2>4 DEF StartsAt
<1>3. CASE ~Server
  <2>1. CASE UiAlone \/ PushOperation \/ User
    <3>1. FALSE
      BY <1>1, <2>1 DEF UiAlone, User, InitWait, InitVm, DestroyServer, PowerCheck, PowerOff, Join,
         Connect, Request, PushKey, DestroyDebugger, PushOperation
    <3> QED
      BY <3>1
  <2>2. CASE EmulatorCommand \/ AbortMessage \/ Callback \/ UNCHANGED vars
    BY <1>1, <1>3, <2>2 DEF EmulatorCommand, AbortMessage, Callback, vars, uiVars, StartsAt
  <2> QED
    BY <1>3, <2>1, <2>2 DEF Next
<1> QED
  BY <1>2, <1>3

\* The answer stays until the UI thread takes it, the only thing it can do.
LEMMA AnswerStep ==
  ASSUME IInv, [Next]_vars, Answered
  PROVE  IF UiAlone THEN Over' ELSE Answered'
<1>1. CASE UiAlone
  BY <1>1 DEF UiAlone, InitWait, InitVm, DestroyServer, PowerCheck, PowerOff, Join, Answered, Over
<1>2. CASE ~UiAlone /\ ~Server
  BY <1>2 DEF Next, PushOperation, User, Connect, Request, PushKey, DestroyDebugger,
     EmulatorCommand, AbortMessage, Callback, vars, uiVars, shared, Answered
<1>3. CASE Server /\ ~UiAlone
  <2>1. Loop \/ CleanUp
    BY <1>3 DEF Server, StartUp, Create, AttachDrives, Launch, LoadRom, PowerOn, OpenAudio, CreateVm,
       Ready, Answered, Starting
  <2>2. ui' = "wait" /\ event'
    BY <2>1 DEF Loop, CleanUp, LoopTop, ApplyKey, ApplyMode, SetMode, ObeyTarget, Catch,
       ApplyOther, DrainEnd, CloseAudio, Halt, Delete, ClearVm, SrvStep, uiVars, Answered
  <2>3. srv' \notin Starting
    BY <2>1 DEF Loop, CleanUp, LoopTop, ApplyKey, ApplyMode, SetMode, ObeyTarget, Catch,
       ApplyOther, DrainEnd, CloseAudio, Halt, Delete, ClearVm, Starting
  <2> QED
    BY <1>3, <2>2, <2>3 DEF Answered
<1> QED
  BY <1>1, <1>2, <1>3

\* The two threads can step where this argument needs it.
ServerCanStart == srv \in Starting => ENABLED <<Server>>_vars
UiCanTakeAnswer == ui = "wait" /\ event => ENABLED <<UiAlone>>_vars

\* initialize() does not wait for ever: from the fairness of the two threads
\* the start comes to its end or to the error event, and the UI thread takes
\* it, unless a hard drive could not be attached.  (That the threads can step
\* there, which the guards of their actions say, is the hypothesis: ENABLED has
\* no rules here.)
THEOREM StartIsAnswered ==
  FairSpec /\ []ServerCanStart /\ []UiCanTakeAnswer => InitializeReturns
<1> DEFINE Live == FairSpec /\ []ServerCanStart
           Moves(here, next) ==
             IInv /\ CloseInv' /\ [Next]_vars /\ StartsAt(here) =>
               /\ StartsAt(here)' \/ StartsAt(next)' \/ Answered' \/ Over'
               /\ <<Server>>_vars => StartsAt(next)' \/ Answered' \/ Over'
<1>1. /\ Moves("create", "attach")
      /\ Moves("attach", "launch")
      /\ Moves("launch", "rom")
      /\ Moves("rom", "power")
      /\ Moves("power", "openAudio")
      /\ Moves("openAudio", "createVm")
      /\ Moves("createVm", "ready")
      /\ Moves("ready", "loop")
  BY StartStep DEF Starting, Following
<1>2. /\ StartsAt("create") => srv \in Starting
      /\ StartsAt("attach") => srv \in Starting
      /\ StartsAt("launch") => srv \in Starting
      /\ StartsAt("rom") => srv \in Starting
      /\ StartsAt("power") => srv \in Starting
      /\ StartsAt("openAudio") => srv \in Starting
      /\ StartsAt("createVm") => srv \in Starting
      /\ StartsAt("ready") => srv \in Starting
  BY DEF StartsAt, Starting
<1>3. CloseInv /\ StartsAt("loop") => Answered \/ Over
  BY DEF CloseInv, StartsAt, Answered, Over, Starting
<1>4. /\ Live => (StartsAt("ready") ~> Answered \/ Over)
      /\ Live => (StartsAt("createVm") ~> Answered \/ Over)
      /\ Live => (StartsAt("openAudio") ~> Answered \/ Over)
      /\ Live => (StartsAt("power") ~> Answered \/ Over)
  BY <1>1, <1>2, <1>3, AlwaysInv, NobodyWaitsInVain, PTL DEF FairSpec, Spec, ServerCanStart
<1>5. /\ Live => (StartsAt("rom") ~> Answered \/ Over)
      /\ Live => (StartsAt("launch") ~> Answered \/ Over)
      /\ Live => (StartsAt("attach") ~> Answered \/ Over)
      /\ Live => (StartsAt("create") ~> Answered \/ Over)
  BY <1>1, <1>2, <1>3, <1>4, AlwaysInv, NobodyWaitsInVain, PTL DEF FairSpec, Spec, ServerCanStart
<1>6. Live /\ []UiCanTakeAnswer => (Answered ~> Over)
  <2>1. IInv /\ [Next]_vars /\ Answered => Answered' \/ Over'
    BY AnswerStep
  <2>2. IInv /\ [Next]_vars /\ <<UiAlone>>_vars /\ Answered => Over'
    BY AnswerStep
  <2>3. Answered => ui = "wait" /\ event
    BY DEF Answered
  <2> QED
    BY <2>1, <2>2, <2>3, AlwaysInv, PTL DEF FairSpec, Spec, UiCanTakeAnswer
<1>7. CloseInv /\ ui = "wait"
      => \/ Answered \/ Over
         \/ StartsAt("create") \/ StartsAt("attach") \/ StartsAt("launch") \/ StartsAt("rom")
         \/ StartsAt("power") \/ StartsAt("openAudio") \/ StartsAt("createVm") \/ StartsAt("ready")
  BY DEF CloseInv, Answered, Over, StartsAt, Starting
<1>8. Live /\ []UiCanTakeAnswer => (ui = "wait" ~> Over)
  BY <1>4, <1>5, <1>6, <1>7, NobodyWaitsInVain, PTL DEF FairSpec
<1> QED
  BY <1>8 DEF InitializeReturns, Over

-----------------------------------------------------------------------------
(* The queues are served and destroy() ends, from the fairness.  Three     *)
(* hypotheses: that the guards of the actions suffice for a step, that one *)
(* drain of the queues ends, and that the emulator thread reaches a "halt" *)
(* in its queue.  The last two are inductions on the length of a queue.    *)

DrainsEnd == Locked ~> ~Locked

HaltQueued == \E i \in 1 .. Len(cmds) : cmds[i] = "halt"
EmulatorGone == emu \in {"none", "halted"}
HaltIsReached == HaltQueued ~> EmulatorGone

ServerGuards ==
  /\ srv \in {"loop", "halt", "clear"} \/ (srv = "delete" /\ EmulatorGone)
       => ENABLED <<Server>>_vars
  /\ srv = "closeAudio" /\ ~cb => ENABLED <<CloseAudio>>_vars
  /\ cb => ENABLED <<Callback /\ cb>>_vars

UiGuards ==
  ui \in {"destroy", "power"} \/ (ui = "powerOff" /\ obj # "none") \/ (ui = "join" /\ srv = "done")
    => ENABLED <<UiAlone>>_vars

\* The steps of the server thread, one after the other.
LEMMA ServerSuccessors ==
  ASSUME IInv, [Next]_vars, srv \notin Starting
  PROVE  /\ srv' \notin Starting
         /\ ~Server => UNCHANGED srv
         /\ Server =>
              /\ srv = "loop" => srv' = IF quit THEN "closeAudio" ELSE "drain"
              /\ srv = "drain" => srv' \in {"drain", "set", "loop"}
              /\ srv = "set" => srv' \in {"drain", "closeAudio"}
              /\ srv = "closeAudio" => srv' \in {"halt", "clear"}
              /\ srv = "halt" => srv' = "delete"
              /\ srv = "delete" => srv' = "clear"
              /\ srv = "clear" => srv' = "done"
              /\ srv # "done"
         /\ quit => quit'
         /\ EmulatorGone => EmulatorGone'
<1>1. CASE (UiAlone \/ PushOperation \/ User) /\ ~Server
  <2>1. UNCHANGED <<srv, emu>> /\ (quit => quit')
    BY <1>1 DEF UiAlone, User, InitWait, InitVm, DestroyServer, PowerCheck, PowerOff, Join,
       Connect, Request, PushKey, DestroyDebugger, PushOperation, UiStep, shared, engine
  <2> QED
    BY <1>1, <2>1 DEF EmulatorGone
<1>2. CASE Server
  <2>1. Loop \/ CleanUp
    BY <1>2 DEF Server, StartUp, Create, AttachDrives, Launch, LoadRom, PowerOn, OpenAudio, CreateVm,
       Ready, Starting
  <2>2. UNCHANGED <<quit, emu>>
    BY <2>1 DEF Loop, CleanUp, LoopTop, ApplyKey, ApplyMode, SetMode, ApplyOther, DrainEnd,
       CloseAudio, Halt, Delete, ClearVm, SrvStep, engine
  <2>3. CASE Loop
    BY <1>2, <2>2, <2>3 DEF Loop, LoopTop, ApplyKey, ApplyMode, SetMode, ObeyTarget, Catch,
       ApplyOther, DrainEnd, Starting, EmulatorGone
  <2>4. CASE CleanUp
    BY <1>2, <2>2, <2>4 DEF CleanUp, CloseAudio, Halt, Delete, ClearVm, Starting, EmulatorGone
  <2> QED
    BY <2>1, <2>3, <2>4
<1>3. CASE (EmulatorCommand \/ AbortMessage \/ Callback \/ UNCHANGED vars) /\ ~Server
  BY <1>3 DEF EmulatorCommand, AbortMessage, Callback, vars, shared, engine, EmulatorGone
<1> QED
  BY <1>1, <1>2, <1>3 DEF Next

\* Before the loop there are no keys to apply, nor operations (StartInv).
NoKeysYet == srv \in Starting => keys = 0

LEMMA KeysComeLater == Spec => []NoKeysYet
<1>1. Init => NoKeysYet
  BY DEF Init, NoKeysYet
<1>2. IInv /\ IInv' /\ NoKeysYet /\ [Next]_vars => NoKeysYet'
  <2> SUFFICES ASSUME IInv, IInv', NoKeysYet, [Next]_vars, srv' \in Starting
               PROVE  keys' = 0
    BY DEF NoKeysYet
  <2>1. srv \in Starting /\ ui = "wait"
    BY ServerSuccessors DEF IInv, UiInv
  <2>2. keys' = keys
    BY <2>1 DEF Next, UiAlone, User, InitWait, InitVm, DestroyServer, PowerCheck, PowerOff, Join,
       Connect, Request, PushKey, DestroyDebugger, PushOperation, UiStep, Server, StartUp, Loop,
       CleanUp, Create, AttachDrives, Launch, LoadRom, PowerOn, OpenAudio, CreateVm, Ready, LoopTop,
       ApplyKey, ApplyMode, SetMode, ApplyOther, DrainEnd, CloseAudio, Halt, Delete, ClearVm,
       EmulatorCommand, AbortMessage, Callback, vars, queues, Starting
  <2> QED
    BY <2>1, <2>2 DEF NoKeysYet
<1> QED
  BY <1>1, <1>2, AlwaysInv, PTL DEF Spec

Waiting == ops # <<>> \/ keys > 0
Served == (ops = <<>> /\ keys = 0) \/ quit \/ err

\* What was sent is applied: each round of the loop drains the queues, and a
\* drain only ends with both of them empty.
THEOREM SentIsApplied == FairSpec /\ []ServerGuards /\ DrainsEnd => QueuesDrain
<1> DEFINE Live == FairSpec /\ []ServerGuards /\ DrainsEnd
<1>1. IInv /\ NoKeysYet /\ StartInv /\ ~Served => srv = "loop" \/ Locked
  <2> SUFFICES ASSUME IInv, NoKeysYet, StartInv, ~Served PROVE srv = "loop" \/ Locked
    OBVIOUS
  <2>1. srv \notin Starting
    BY DEF NoKeysYet, StartInv, Served
  <2>2. srv \notin Ending
    BY DEF IInv, EventInv, Served
  <2> QED
    BY <2>1, <2>2 DEF IInv, TypeOK, Starting, Ending, Locked
<1>2. IInv /\ [Next]_vars /\ srv = "loop"
        => /\ srv' = "loop" \/ Locked' \/ quit
           /\ <<Server>>_vars => Locked' \/ quit
  BY ServerSuccessors DEF Starting, Locked
<1>3. IInv /\ [Next]_vars /\ Locked /\ ~Served /\ ~Served' => Locked'
  <2> SUFFICES ASSUME IInv, [Next]_vars, Locked, ~Served, ~Served' PROVE Locked'
    OBVIOUS
  <2>1. CASE Server
    <3>1. Loop
      BY <2>1 DEF Server, StartUp, CleanUp, Create, AttachDrives, Launch, LoadRom, PowerOn, OpenAudio,
         CreateVm, Ready, CloseAudio, Halt, Delete, ClearVm, Locked
    <3>2. ~DrainEnd
      BY DEF DrainEnd, Served
    <3> QED
      BY <3>1, <3>2 DEF Loop, LoopTop, ApplyKey, ApplyMode, SetMode, ObeyTarget, Catch, ApplyOther,
         Locked, Served
  <2>2. CASE ~Server
    BY <2>2, ServerSuccessors DEF Locked, Starting
  <2> QED
    BY <2>1, <2>2
<1>4. ServerGuards /\ srv = "loop" => ENABLED <<Server>>_vars
  BY DEF ServerGuards
<1>5. quit => Served
  BY DEF Served
<1>6. Spec => [](IInv /\ NoKeysYet /\ StartInv)
  BY AlwaysInv, KeysComeLater, ModeInit, ModeNext, PTL DEF Spec
<1>7. Live => (~Served ~> Served)
  BY <1>1, <1>2, <1>3, <1>4, <1>5, <1>6, PTL DEF FairSpec, Spec, DrainsEnd
<1>8. Live => (Waiting ~> Served)
  BY <1>7, PTL
<1> QED
  BY <1>8 DEF QueuesDrain, Waiting, Served

QuitAt(point) == quit /\ srv = point

\* A server thread told to quit ends, wherever it is.
LEMMA ServerEnds ==
  FairSpec /\ []ServerGuards /\ DrainsEnd /\ HaltIsReached => ((quit /\ srv \notin Starting) ~> srv = "done")
<1> DEFINE Live == FairSpec /\ []ServerGuards /\ DrainsEnd /\ HaltIsReached
           Step == IInv /\ CloseInv /\ [Next]_vars
           Draining == quit /\ Locked
           Ended == srv = "done"
<1>1. Step /\ QuitAt("clear") => (QuitAt("clear")' \/ Ended') /\ (<<Server>>_vars => Ended')
  BY ServerSuccessors DEF QuitAt, Starting
<1>2. Step /\ QuitAt("delete")
        => /\ QuitAt("delete")' \/ QuitAt("clear")'
           /\ <<Server>>_vars => QuitAt("clear")'
           /\ EmulatorGone => EmulatorGone'
           /\ HaltQueued \/ EmulatorGone
  BY ServerSuccessors DEF QuitAt, Starting, CloseInv, HaltQueued, EmulatorGone
<1>3. Step /\ QuitAt("halt")
        => (QuitAt("halt")' \/ QuitAt("delete")') /\ (<<Server>>_vars => QuitAt("delete")')
  BY ServerSuccessors DEF QuitAt, Starting
<1>4. Step /\ QuitAt("closeAudio")
        => /\ QuitAt("closeAudio")' \/ QuitAt("halt")' \/ QuitAt("clear")'
           /\ <<CloseAudio>>_vars => QuitAt("halt")' \/ QuitAt("clear")'
  BY ServerSuccessors DEF QuitAt, Starting, Server, CleanUp
<1>5. cb /\ <<Callback /\ cb>>_vars => ~cb'
  BY DEF Callback
<1>6. Step /\ QuitAt("loop")
        => (QuitAt("loop")' \/ QuitAt("closeAudio")') /\ (<<Server>>_vars => QuitAt("closeAudio")')
  BY ServerSuccessors DEF QuitAt, Starting
<1>7. Step /\ Draining => Draining' \/ QuitAt("loop")' \/ QuitAt("closeAudio")'
  BY ServerSuccessors DEF QuitAt, Starting, Locked
<1>8. IInv /\ quit /\ srv \notin Starting
        => \/ Ended \/ QuitAt("clear") \/ QuitAt("delete") \/ QuitAt("halt") \/ QuitAt("closeAudio")
           \/ QuitAt("loop") \/ Draining
  BY DEF IInv, TypeOK, QuitAt, Starting, Locked
<1>9. /\ ServerGuards /\ QuitAt("clear") => ENABLED <<Server>>_vars
      /\ ServerGuards /\ QuitAt("delete") /\ EmulatorGone => ENABLED <<Server>>_vars
      /\ ServerGuards /\ QuitAt("halt") => ENABLED <<Server>>_vars
      /\ ServerGuards /\ QuitAt("loop") => ENABLED <<Server>>_vars
      /\ ServerGuards /\ QuitAt("closeAudio") /\ ~cb => ENABLED <<CloseAudio>>_vars
      /\ ServerGuards /\ cb => ENABLED <<Callback /\ cb>>_vars
  BY DEF ServerGuards, QuitAt
<1>10. Draining => Locked
  OBVIOUS
<1> HIDE DEF Ended, Draining
<1>11. Spec => [](IInv /\ CloseInv)
  BY AlwaysInv, NobodyWaitsInVain, PTL
<1>12. Live => (QuitAt("clear") ~> Ended)
  BY <1>1, <1>9, <1>11, PTL DEF FairSpec, Spec
<1>13. Live => (QuitAt("delete") ~> Ended)
  BY <1>2, <1>9, <1>11, <1>12, PTL DEF FairSpec, Spec, HaltIsReached
<1>14. Live => (QuitAt("halt") ~> Ended)
  BY <1>3, <1>9, <1>11, <1>13, PTL DEF FairSpec, Spec
<1>15. Live => []<>~cb
  BY <1>5, <1>9, PTL DEF FairSpec, Spec
<1>16. Live => (QuitAt("closeAudio") ~> QuitAt("halt") \/ QuitAt("clear"))
  BY <1>4, <1>9, <1>11, <1>15, PTL DEF FairSpec, Spec
<1>17. Live => (QuitAt("loop") ~> Ended)
  BY <1>6, <1>9, <1>11, <1>12, <1>14, <1>16, PTL DEF FairSpec, Spec
<1>18. Live => (Draining ~> QuitAt("loop") \/ QuitAt("closeAudio"))
  BY <1>7, <1>10, <1>11, PTL DEF FairSpec, Spec, DrainsEnd
<1>19. Live => ((quit /\ srv \notin Starting) ~> Ended)
  BY <1>8, <1>11, <1>12, <1>13, <1>14, <1>16, <1>17, <1>18, PTL DEF FairSpec
<1> QED
  BY <1>19 DEF Ended

\* destroy(), step by step.
LEMMA DestroySuccessors ==
  ASSUME IInv, CloseInv, [Next]_vars
  PROVE  /\ ui = "destroy" =>
              (ui' = "destroy" \/ ui' = "power") /\ (UiAlone => ui' = "power")
         /\ ui = "power" =>
              ui' \in {"power", "powerOff", "join"} /\ (UiAlone => ui' \in {"powerOff", "join"})
         /\ ui = "powerOff" =>
              /\ ui' \in {"powerOff", "join", "deletedVAmiga"}
              /\ UiAlone => ui' \in {"join", "deletedVAmiga"}
              /\ obj # "none"
         /\ ui = "join" =>
              /\ ui' \in {"join", "destroyed"}
              /\ UiAlone => ui' = "destroyed"
              /\ srv = "done" => srv' = "done"
              /\ quit /\ srv \notin Starting
<1>1. CASE UiAlone
  BY <1>1 DEF UiAlone, InitWait, InitVm, DestroyServer, PowerCheck, PowerOff, Join, UiStep, CloseInv,
     IInv, UiInv
<1>2. CASE ~UiAlone
  <2>1. ui \in {"destroy", "power", "powerOff", "join"} => ui' = ui
    BY <1>2 DEF Next, User, Connect, Request, PushKey, DestroyDebugger, PushOperation, Server, StartUp,
       Loop, CleanUp, Create, AttachDrives, Launch, LoadRom, PowerOn, OpenAudio, CreateVm, Ready,
       LoopTop, ApplyKey, ApplyMode, SetMode, ApplyOther, DrainEnd, CloseAudio, Halt, Delete, ClearVm,
       EmulatorCommand, AbortMessage, Callback, vars, uiVars, SrvStep
  <2>2. ui = "join" => quit /\ srv \notin Starting
    BY DEF IInv, UiInv, CloseInv
  <2>3. ui = "join" /\ srv = "done" => srv' = "done"
    BY <2>2, ServerSuccessors DEF Starting
  <2> QED
    BY <1>2, <2>1, <2>2, <2>3 DEF CloseInv
<1> QED
  BY <1>1, <1>2

\* destroy() ends, whatever the emulator and its audio device are doing, unless
\* the emulator is deleted between the check of its pointer and the call.
THEOREM DestroyReturns ==
  FairSpec /\ []ServerGuards /\ []UiGuards /\ DrainsEnd /\ HaltIsReached => DestroyEnds
<1> DEFINE Live == FairSpec /\ []ServerGuards /\ []UiGuards /\ DrainsEnd /\ HaltIsReached
           Step == IInv /\ CloseInv /\ [Next]_vars
           At(point) == ui = point
           Returned == ui \in {"destroyed", "deletedVAmiga"}
           Ended == srv = "done"
<1>1. Step /\ At("join")
        => /\ At("join")' \/ Returned'
           /\ <<UiAlone>>_vars => Returned'
           /\ Ended => Ended'
  BY DestroySuccessors
<1>2. Step /\ At("powerOff")
        => /\ At("powerOff")' \/ At("join")' \/ Returned'
           /\ <<UiAlone>>_vars => At("join")' \/ Returned'
  BY DestroySuccessors
<1>3. Step /\ At("power")
        => /\ At("power")' \/ At("powerOff")' \/ At("join")'
           /\ <<UiAlone>>_vars => At("powerOff")' \/ At("join")'
  BY DestroySuccessors
<1>4. Step /\ At("destroy")
        => (At("destroy")' \/ At("power")') /\ (<<UiAlone>>_vars => At("power")')
  BY DestroySuccessors
<1>5. IInv /\ CloseInv /\ At("join") => quit /\ srv \notin Starting
  BY DEF IInv, UiInv, CloseInv
<1>6. /\ UiGuards /\ At("destroy") => ENABLED <<UiAlone>>_vars
      /\ UiGuards /\ At("power") => ENABLED <<UiAlone>>_vars
      /\ UiGuards /\ CloseInv /\ At("powerOff") => ENABLED <<UiAlone>>_vars
      /\ UiGuards /\ At("join") /\ Ended => ENABLED <<UiAlone>>_vars
  BY DEF UiGuards, CloseInv
<1>7. Live => ((quit /\ srv \notin Starting) ~> Ended)
  BY ServerEnds, PTL
<1> HIDE DEF Returned, Ended, At
<1>8. Spec => [](IInv /\ CloseInv)
  BY AlwaysInv, NobodyWaitsInVain, PTL
<1>9. Live => (At("join") ~> Returned)
  BY <1>1, <1>5, <1>6, <1>7, <1>8, PTL DEF FairSpec, Spec
<1>10. Live => (At("powerOff") ~> Returned)
  BY <1>2, <1>6, <1>8, <1>9, PTL DEF FairSpec, Spec
<1>11. Live => (At("power") ~> Returned)
  BY <1>3, <1>6, <1>8, <1>9, <1>10, PTL DEF FairSpec, Spec
<1>12. Live => (At("destroy") ~> Returned)
  BY <1>4, <1>6, <1>8, <1>11, PTL DEF FairSpec, Spec
<1> QED
  BY <1>12 DEF DestroyEnds, At, Returned
=============================================================================
