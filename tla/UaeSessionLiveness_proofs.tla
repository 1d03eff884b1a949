---------------------- MODULE UaeSessionLiveness_proofs ---------------------
(***************************************************************************)
(* What a debugging session does in the end, for any set of operations and *)
(* any number of requests: a break-in and a step reach the console, a      *)
(* snapshot is served, the window closes.                                  *)
(*                                                                         *)
(* Two things are hypotheses of these theorems.  That a thread can step    *)
(* where the guards of its actions say so (GuardsSuffice) is plain, but    *)
(* ENABLED has no rules here.  That a drain of the operations ends         *)
(* (OperationsDrain) takes an induction on the length of their queue.      *)
(* Everything else follows from the fairness of FairSpec.                  *)
(***************************************************************************)
EXTENDS UaeDebugSession_proofs

\* The guards of the actions under fairness, where they are used.
GuardsSuffice ==
    /\ emu \notin {"run", "wait", "exit"} \/ (emu = "wait" /\ m_bState)
         => ENABLED <<EmuThread>>_vars
    /\ emu = "run" /\ (brk \/ modeChange) => ENABLED <<Specialties>>_vars
    /\ emu = "run" /\ cycleEvent => ENABLED <<CycleBreak>>_vars
    /\ emu = "run" /\ quit_program = "resetAsked" => ENABLED <<TakeQuitRequest>>_vars
    /\ emu = "run" /\ savestate_state \in {"save", "doRestore"}
         => ENABLED <<SavestateCheck>>_vars
    /\ ui \in {"quitFlag", "quitCommand"} \/ (ui = "join" /\ emu = "exit")
         => ENABLED <<UiThread>>_vars

Live == FairSpec /\ []GuardsSuffice /\ OperationsDrain

\* All that the proofs of safety have shown.
Known ==
    /\ Types /\ ArmedInv /\ NoSnapshotWhileStopped /\ EventMeansCommand /\ PointsAgree

LEMMA AlwaysKnown == Spec => []Known
<1>1. Init => ArmedInv /\ PointsAgree
  BY DEF Init, ArmedInv, Armed, ArmedInDebugger, PointsAgree
<1> QED
  BY <1>1, TypesInvariant, ArmedStep, PointsStep, StopExcludesSnapshot,
     EventNeedsCommand, PTL
     DEF Spec, Known

\* What the steps of the other threads leave alone at the emulator thread's
\* points.
LEMMA OthersLeave ==
    ASSUME Known, [Next]_vars, ~EmuThread, emu # "run"
    PROVE  UNCHANGED <<emu, backTo, cmd, trace_mode, bpEnabled, copperWatch, cycleEvent,
                       savestate_state, debugSkipped, brk>>
BY DEF Next, Request, RequestToggleBreakpoint, RequestQuit, DestroyBegin, UiThread,
   Route, ForwardToConsole,
   ForwardToQueue, DestroyQuit, DestroySendQ, DestroyJoin, BeginDrain, TakeQuitRequest,
   SavestateCheck, CopperHit, CycleBreak, Specialties, vars, flagVars, engineVars, emuVars

Running == emu = "run"
Draining == emu = "drain"

\* The drain of the operations ends: nothing is pushed meanwhile, so once the
\* queue is empty the emulator thread is released.
LEMMA DrainEnds == Live => (Draining ~> Running)
<1> DEFINE Empty == m_pClientOpsStack = <<>>
<1>1. Draining /\ [Next]_vars =>
        /\ Draining' \/ Running'
        /\ Empty => Running' \/ Empty'
        /\ Empty /\ <<EmuThread>>_vars => Running'
  BY DEF Next, Request, RequestToggleBreakpoint, RequestQuit, DestroyBegin, UiThread,
     Route, ForwardToConsole,
     ForwardToQueue, DestroyQuit, DestroySendQ, DestroyJoin, BeginDrain,
     TakeQuitRequest,
     SavestateCheck, CopperHit, CycleBreak, Specialties, EmuThread, DrainOne, EndDrain,
     Debug,
     ConsoleLoop, ConsoleGet, ConsoleExec, LeaveDebug, Go, GoReset, GoDebug, GoEnd,
     vars, emuVars,
     queueVars, Draining, Running
<1>2. GuardsSuffice /\ Draining => ENABLED <<EmuThread>>_vars
  BY DEF GuardsSuffice, Draining
<1>3. Draining => ~(emu \in {"wait", "exit"})
  BY DEF Draining
<1>4. /\ (m_pClientOpsStack = <<>>) <=> Empty
      /\ (m_pClientOpsStack # <<>>) <=> ~Empty
  OBVIOUS
<1> HIDE DEF Empty
<1>5. Live => (Draining /\ Empty ~> Running)
  BY <1>1, <1>2, PTL DEF Live, FairSpec, Spec
<1> QED
  BY <1>1, <1>3, <1>4, <1>5, PTL DEF Live, FairSpec, Spec, OperationsDrain

----------------------------------------------------------------------------
\* A stop under way reaches the console.

StopOver == emu = "console" \/ QuitAsked \/ debugSkipped
StopsAt(point) == StopPending /\ emu = point
Raised == brk \/ modeChange

LEMMA StopSuccessors ==
    ASSUME Known, StopPending, [Next]_vars, ~StopOver, ~StopOver'
    PROVE  /\ StopPending'
           /\ emu \notin {"run", "drain"} /\ ~EmuThread => emu' = emu
           /\ EmuThread =>
                /\ emu = "exec" => emu' = "leave"
                /\ emu = "leave" => emu' \in {"run", "goEnd"}
                /\ emu = "goEnd" => emu' = "run"
                /\ emu = "go" => emu' \in {"goReset", "goDebug"}
                /\ emu = "goReset" => emu' = "goDebug"
                /\ emu = "goDebug" => emu' = "debug"
                /\ emu # "debug"
<1>1. StopPending'
  BY StopStep DEF Known, StopKept, Excused, StopOver
<1>2. emu \notin {"run", "drain"} /\ ~EmuThread => emu' = emu
  BY OthersLeave
<1>3. CASE EmuThread
  <2> backTo \in {"run", "goEnd"}
    BY DEF Known, Types, TypeOK, PointTypes
  <2>1. emu = "exec" => emu' = "leave"
    BY <1>3 DEF EmuThread, DrainOne, EndDrain, Debug, ConsoleLoop, ConsoleGet,
       ConsoleExec,
       LeaveDebug, Go, GoReset, GoDebug, GoEnd, StopPending, Resuming
  <2>2. emu = "leave" => emu' \in {"run", "goEnd"}
    BY <1>3 DEF EmuThread, DrainOne, EndDrain, Debug, ConsoleLoop, ConsoleGet,
       ConsoleExec,
       LeaveDebug, Go, GoReset, GoDebug, GoEnd
  <2>3. /\ emu = "goEnd" => emu' = "run"
        /\ emu = "goReset" => emu' = "goDebug"
    BY <1>3 DEF EmuThread, DrainOne, EndDrain, Debug, ConsoleLoop, ConsoleGet,
       ConsoleExec,
       LeaveDebug, Go, GoReset, GoDebug, GoEnd
  <2>4. emu = "go" => emu' \in {"goReset", "goDebug"}
    <3>1. emu = "go" => Go
      BY <1>3 DEF EmuThread, DrainOne, EndDrain, Debug, ConsoleLoop, ConsoleGet,
         ConsoleExec,
         LeaveDebug, GoReset, GoDebug, GoEnd
    <3>2. Go => quit_program \in {"none", "reset", "resetAsked"}
      BY DEF Known, Types, TypeOK, FlagTypes, StopOver, QuitAsked
    <3> QED
      BY <3>1, <3>2 DEF Go
  <2>5. emu = "goDebug" => emu' = "debug"
    <3>1. emu = "goDebug" => debugging
      BY DEF Known, ArmedInv, ArmedInDebugger, StopPending, StopOver, QuitAsked
    <3> QED
      BY <1>3, <3>1 DEF EmuThread, DrainOne, EndDrain, Debug, ConsoleLoop, ConsoleGet,
         ConsoleExec, LeaveDebug, Go, GoReset, GoDebug, GoEnd
  <2>6. emu # "debug"
    <3> SUFFICES ASSUME emu = "debug" PROVE FALSE
      OBVIOUS
    <3>1. Debug
      BY <1>3 DEF EmuThread, DrainOne, EndDrain, ConsoleLoop, ConsoleGet, ConsoleExec,
         LeaveDebug, Go, GoReset, GoDebug, GoEnd
    <3>2. FALSE \notin TraceHits
      BY DEF TraceHits, StopPending
    <3>3. emu' = "console" \/ debugSkipped'
      BY <3>1, <3>2, Zenon DEF Debug, EnterConsole
    <3> QED
      BY <3>3 DEF StopOver
  <2> QED
    BY <1>1, <1>2, <1>3, <2>1, <2>2, <2>3, <2>4, <2>5, <2>6
<1> QED
  BY <1>1, <1>2, <1>3

\* While instructions execute a break is armed; it stays so until the CPU loop
\* looks at it, and that look leads to debug() or out to m68k_go.
LEMMA StopRuns ==
    ASSUME Known, StopPending, [Next]_vars, ~StopOver, ~StopOver', emu \in {"run", "drain"}
    PROVE  /\ emu' \in {"run", "drain", "debug", "go"}
           /\ Raised \/ cycleEvent
           /\ Raised => Raised' \/ emu' \in {"debug", "go"}
           /\ Raised /\ Specialties => emu' \in {"debug", "go"}
           /\ cycleEvent => cycleEvent' \/ Raised' \/ emu' \in {"debug", "go"}
           /\ CycleBreak => Raised'
<1>1. debugger_active /\ debugging /\ (Raised \/ cycleEvent)
  BY DEF Known, ArmedInv, Armed, StopPending, StopOver, QuitAsked, Raised
<1>2. CASE Specialties
  BY <1>1, <1>2 DEF Specialties, engineVars, Raised, CycleBreak
<1>3. CASE DrainOne
  <2>1. /\ brk => brk'
        /\ modeChange => modeChange'
        /\ cycleEvent => cycleEvent'
    <3>1. UNCHANGED <<modeChange, cycleEvent>>
      BY <1>3 DEF DrainOne
    <3>2. brk => brk'
      BY <1>3 DEF DrainOne, ApplyOperation, BreakIn, ActivateDebugger, GoLive,
         JustCommand,
         ResetRequest, SnapshotRequest, QuitRequest
    <3> QED
      BY <3>1, <3>2
  <2>2. emu = "drain" /\ emu' = "drain"
    BY <1>3 DEF DrainOne, emuVars
  <2> QED
    BY <1>1, <2>1, <2>2 DEF Raised, Specialties, CycleBreak
<1>4. CASE CopperHit \/ CycleBreak \/ TakeQuitRequest
  <2>1. emu = "run" /\ emu' = "run"
    BY <1>4 DEF CopperHit, CycleBreak, TakeQuitRequest, emuVars
  <2>2. /\ brk => brk'
        /\ modeChange => modeChange'
        /\ cycleEvent => cycleEvent' \/ brk'
    <3>1. CASE CopperHit
      BY <3>1 DEF CopperHit, ActivateDebugger
    <3>2. CASE CycleBreak
      BY <3>2 DEF CycleBreak
    <3>3. CASE TakeQuitRequest
      BY <3>3 DEF TakeQuitRequest, engineVars
    <3> QED
      BY <1>4, <3>1, <3>2, <3>3
  <2>3. CycleBreak => brk'
    BY DEF CycleBreak
  <2>4. Specialties => ~(brk \/ modeChange)
    <3> SUFFICES ASSUME Specialties PROVE ~(brk \/ modeChange)
      OBVIOUS
    <3>1. CASE modeChange
      BY <2>1, <3>1 DEF Specialties
    <3>2. CASE ~modeChange /\ brk
      BY <1>1, <2>1, <3>2 DEF Specialties
    <3> QED
      BY <3>1, <3>2
  <2> QED
    BY <1>1, <2>1, <2>2, <2>3, <2>4 DEF Raised
<1>5. CASE ~(Specialties \/ DrainOne \/ CopperHit \/ CycleBreak \/ TakeQuitRequest)
  <2>1. /\ UNCHANGED <<brk, modeChange, cycleEvent>>
        /\ emu' \in {"run", "drain"}
    BY <1>5 DEF Next, Request, RequestToggleBreakpoint, RequestQuit, DestroyBegin,
       UiThread, Route,
       ForwardToConsole, ForwardToQueue, DestroyQuit, DestroySendQ, DestroyJoin,
       BeginDrain,
       SavestateCheck, EmuThread, EndDrain, Debug, ConsoleLoop, ConsoleGet, ConsoleExec,
       LeaveDebug, Go, GoReset, GoDebug, GoEnd, vars, emuVars, flagVars, engineVars,
       StopOver,
       QuitAsked, Closing
  <2>2. Raised' = Raised /\ cycleEvent' = cycleEvent
    BY <2>1 DEF Raised
  <2> QED
    BY <1>1, <1>5, <2>1, <2>2
<1> QED
  BY <1>2, <1>3, <1>4, <1>5

\* From the points outside the execution of instructions.
LEMMA StopsFromGo ==
    /\ Live => (StopsAt("debug") ~> StopOver)
    /\ Live => (StopsAt("goDebug") ~> StopOver)
    /\ Live => (StopsAt("goReset") ~> StopOver)
    /\ Live => (StopsAt("go") ~> StopOver)
<1> DEFINE Step == Known /\ [Next]_vars /\ ~StopOver
<1>1. Step /\ StopsAt("debug") =>
        /\ StopsAt("debug")' \/ StopOver'
        /\ <<EmuThread>>_vars => StopOver'
  BY StopSuccessors DEF StopsAt
<1>2. Step /\ StopsAt("goDebug") =>
        /\ StopsAt("goDebug")' \/ StopsAt("debug")' \/ StopOver'
        /\ <<EmuThread>>_vars => StopsAt("debug")' \/ StopOver'
  BY StopSuccessors DEF StopsAt
<1>3. Step /\ StopsAt("goReset") =>
        /\ StopsAt("goReset")' \/ StopsAt("goDebug")' \/ StopOver'
        /\ <<EmuThread>>_vars => StopsAt("goDebug")' \/ StopOver'
  BY StopSuccessors DEF StopsAt
<1>4. Step /\ StopsAt("go") =>
        /\ StopsAt("go")' \/ StopsAt("goReset")' \/ StopsAt("goDebug")' \/ StopOver'
        /\ <<EmuThread>>_vars => StopsAt("goReset")' \/ StopsAt("goDebug")' \/ StopOver'
  BY StopSuccessors DEF StopsAt
<1>5. /\ GuardsSuffice /\ StopsAt("debug") => ENABLED <<EmuThread>>_vars
      /\ GuardsSuffice /\ StopsAt("goDebug") => ENABLED <<EmuThread>>_vars
      /\ GuardsSuffice /\ StopsAt("goReset") => ENABLED <<EmuThread>>_vars
      /\ GuardsSuffice /\ StopsAt("go") => ENABLED <<EmuThread>>_vars
  BY DEF GuardsSuffice, StopsAt
<1>6. Live => (StopsAt("debug") ~> StopOver)
  BY <1>1, <1>5, AlwaysKnown, PTL DEF Live, FairSpec, Spec
<1>7. Live => (StopsAt("goDebug") ~> StopOver)
  BY <1>2, <1>5, <1>6, AlwaysKnown, PTL DEF Live, FairSpec, Spec
<1>8. Live => (StopsAt("goReset") ~> StopOver)
  BY <1>3, <1>5, <1>7, AlwaysKnown, PTL DEF Live, FairSpec, Spec
<1>9. Live => (StopsAt("go") ~> StopOver)
  BY <1>4, <1>5, <1>7, <1>8, AlwaysKnown, PTL DEF Live, FairSpec, Spec
<1> QED
  BY <1>6, <1>7, <1>8, <1>9

\* While instructions execute: the drains in between end, so the special flags
\* and the scheduled break are looked at again and again.
RunStops == StopsAt("run") \/ StopsAt("drain")
RaisedStops == RunStops /\ Raised
CycleStops == RunStops /\ cycleEvent
Onward == StopsAt("debug") \/ StopsAt("go") \/ StopOver

LEMMA StopsFromRun == Live => (RunStops ~> StopOver)
<1> DEFINE Step == Known /\ [Next]_vars /\ ~StopOver
<1>1. Step /\ RaisedStops =>
        /\ RaisedStops' \/ Onward'
        /\ <<Specialties>>_vars => Onward'
  BY StopSuccessors, StopRuns DEF RaisedStops, RunStops, Onward, StopsAt
<1>2. Step /\ CycleStops =>
        /\ CycleStops' \/ RaisedStops' \/ Onward'
        /\ <<CycleBreak>>_vars => RaisedStops' \/ Onward'
  BY StopSuccessors, StopRuns DEF RaisedStops, CycleStops, RunStops, Onward, StopsAt
<1>3. Known /\ RunStops => RaisedStops \/ CycleStops \/ StopOver
  BY DEF Known, ArmedInv, Armed, RaisedStops, CycleStops, RunStops, StopsAt,
     StopPending,
     StopOver, QuitAsked, Raised
<1>4. /\ RaisedStops => Running \/ Draining
      /\ CycleStops => Running \/ Draining
  BY DEF RaisedStops, CycleStops, RunStops, StopsAt, Running, Draining
<1>5. /\ GuardsSuffice /\ RaisedStops /\ Running => ENABLED <<Specialties>>_vars
      /\ GuardsSuffice /\ CycleStops /\ Running => ENABLED <<CycleBreak>>_vars
  BY DEF GuardsSuffice, RaisedStops, CycleStops, Raised, Running
<1>6. Live => (RaisedStops ~> Onward)
  BY <1>1, <1>4, <1>5, DrainEnds, AlwaysKnown, PTL DEF Live, FairSpec, Spec, Onward
<1>7. Live => (CycleStops ~> RaisedStops \/ Onward)
  BY <1>2, <1>4, <1>5, DrainEnds, AlwaysKnown, PTL DEF Live, FairSpec, Spec, Onward
<1>8. Live => (Onward ~> StopOver)
  BY StopsFromGo, PTL DEF Onward
<1> QED
  BY <1>3, <1>6, <1>7, <1>8, AlwaysKnown, PTL DEF Live, FairSpec, Spec

\* From debug_line with "t", and from the way out of debug().
LEMMA StopsFromDebugger ==
    /\ Live => (StopsAt("goEnd") ~> StopOver)
    /\ Live => (StopsAt("leave") ~> StopOver)
    /\ Live => (StopsAt("exec") ~> StopOver)
<1> DEFINE Step == Known /\ [Next]_vars /\ ~StopOver
<1>1. Step /\ StopsAt("goEnd") =>
        /\ StopsAt("goEnd")' \/ RunStops' \/ StopOver'
        /\ <<EmuThread>>_vars => RunStops' \/ StopOver'
  BY StopSuccessors DEF StopsAt, RunStops
<1>2. Step /\ StopsAt("leave") =>
        /\ StopsAt("leave")' \/ RunStops' \/ StopsAt("goEnd")' \/ StopOver'
        /\ <<EmuThread>>_vars => RunStops' \/ StopsAt("goEnd")' \/ StopOver'
  BY StopSuccessors DEF StopsAt, RunStops
<1>3. Step /\ StopsAt("exec") =>
        /\ StopsAt("exec")' \/ StopsAt("leave")' \/ StopOver'
        /\ <<EmuThread>>_vars => StopsAt("leave")' \/ StopOver'
  BY StopSuccessors DEF StopsAt
<1>4. /\ GuardsSuffice /\ StopsAt("goEnd") => ENABLED <<EmuThread>>_vars
      /\ GuardsSuffice /\ StopsAt("leave") => ENABLED <<EmuThread>>_vars
      /\ GuardsSuffice /\ StopsAt("exec") => ENABLED <<EmuThread>>_vars
  BY DEF GuardsSuffice, StopsAt
<1>5. Live => (StopsAt("goEnd") ~> StopOver)
  BY <1>1, <1>4, StopsFromRun, AlwaysKnown, PTL DEF Live, FairSpec, Spec
<1>6. Live => (StopsAt("leave") ~> StopOver)
  BY <1>2, <1>4, <1>5, StopsFromRun, AlwaysKnown, PTL DEF Live, FairSpec, Spec
<1>7. Live => (StopsAt("exec") ~> StopOver)
  BY <1>3, <1>4, <1>6, AlwaysKnown, PTL DEF Live, FairSpec, Spec
<1> QED
  BY <1>5, <1>6, <1>7

\* A break-in that an operation asked for reaches debug_1's console, unless the
\* program quits first or a snapshot swallowed it: whatever operations, copper
\* events, cycle breaks and resets come between.
THEOREM BreakInComes == Live => BreakInStops
<1>1. emu = "run" /\ debugger_active /\ trace_mode = "rangePc" => RunStops
  BY DEF RunStops, StopsAt, StopPending
<1>2. StopOver <=> (emu = "console" \/ QuitAsked \/ debugSkipped)
  BY DEF StopOver
<1> QED
  BY <1>1, <1>2, StopsFromRun, PTL DEF BreakInStops

\* A single step comes back to the console, with the same exceptions.
THEOREM StepReturns == Live => StepComesBack
<1>1. emu = "exec" /\ cmd = "t" => StopsAt("exec")
  BY DEF StopsAt, StopPending
<1>2. StopOver <=> (emu = "console" \/ QuitAsked \/ debugSkipped)
  BY DEF StopOver
<1> QED
  BY <1>1, <1>2, StopsFromDebugger, PTL DEF StepComesBack

\* Without snapshots a pause does stop the CPU, as the documentation says: only
\* a quit comes before the console.
THEOREM PauseStopsWithoutSnapshots ==
    ASSUME NoSnapshots
    PROVE  Live /\ savestate_state = "none" => PauseStops
<1>1. Types /\ savestate_state = "none" /\ ~debugSkipped /\ [Next]_vars
      => (savestate_state = "none" /\ ~debugSkipped)'
  BY SkippedStep
<1>2. Init => ~debugSkipped
  BY DEF Init
<1>3. emu = "run" /\ debugger_active /\ trace_mode = "rangePc" => RunStops
  BY DEF RunStops, StopsAt, StopPending
<1>4. StopOver => (emu = "console" \/ QuitAsked) \/ debugSkipped
  BY DEF StopOver
<1> QED
  BY <1>1, <1>2, <1>3, <1>4, StopsFromRun, TypesInvariant, PTL
     DEF PauseStops, Live, FairSpec, Spec

----------------------------------------------------------------------------
\* The window closes.

Closed == ui = "closed"
QuitSent == QuitSure /\ ui # "quitCommand"
QuitAt(point) == QuitSent /\ emu = point
QuitUnsent == QuitSure /\ ui = "quitCommand"

LEMMA QuitSuccessors ==
    ASSUME Known, QuitSent, [Next]_vars
    PROVE  /\ QuitSent'
           /\ emu # "run" /\ ~EmuThread => emu' = emu
           /\ EmuThread =>
                /\ emu = "debug" => emu' \in {"console", "run"}
                /\ emu = "console" => emu' \in {"wait", "leave"}
                /\ emu = "wait" => emu' = "exec"
                /\ emu = "exec" => emu' = "leave"
                /\ emu = "leave" => emu' = "run"
                /\ emu = "drain" => emu' \in {"drain", "run"}
                /\ emu = "go" => emu' = "exit"
                /\ emu \notin {"run", "exit"}
           /\ emu = "run" => emu' \in {"run", "drain", "go"}
           /\ emu = "run" /\ Specialties => emu' = "go"
           /\ UiThread => ui' = "closed"
<1> USE DEF QuitSent
<1>1. QuitSent'
  <2>1. QuitSure'
    BY QuitStep DEF Known, QuitKept
  <2>2. ui' # "quitCommand"
    BY DEF QuitSure, Next, Request, RequestToggleBreakpoint, RequestQuit, DestroyBegin,
       UiThread, Route,
       ForwardToConsole, ForwardToQueue, DestroyQuit, DestroySendQ, DestroyJoin,
       BeginDrain,
       TakeQuitRequest, SavestateCheck, CopperHit, CycleBreak, Specialties, EmuThread,
       DrainOne, EndDrain, Debug, ConsoleLoop, ConsoleGet, ConsoleExec, LeaveDebug, Go,
       GoReset, GoDebug, GoEnd, vars, uiVars
  <2> QED
    BY <2>1, <2>2
<1>2. emu # "run" /\ ~EmuThread => emu' = emu
  BY OthersLeave
<1>3. ASSUME EmuThread
      PROVE  /\ emu = "debug" => emu' \in {"console", "run"}
             /\ emu = "console" => emu' \in {"wait", "leave"}
             /\ emu = "wait" => emu' = "exec"
             /\ emu = "exec" => emu' = "leave"
             /\ emu = "leave" => emu' = "run"
             /\ emu = "drain" => emu' \in {"drain", "run"}
             /\ emu = "go" => emu' = "exit"
             /\ emu \notin {"run", "exit"}
  <2>1. /\ backTo = "run" /\ quit_program \in {"quitAsked", "quit"}
        /\ emu = "exec" => cmd \in Resuming
        /\ m_bState => m_consoleCmdQueue # <<>>
    BY DEF QuitSure, QuitCannotBeMissed, Known, PointsAgree, EventMeansCommand
  <2>2. CASE DrainOne \/ EndDrain \/ ConsoleLoop \/ LeaveDebug
    BY <2>1, <2>2 DEF DrainOne, EndDrain, ConsoleLoop, LeaveDebug, emuVars
  <2>3. CASE Debug
    BY <2>1, <2>3 DEF Debug, EnterConsole
  <2>4. CASE ConsoleGet
    BY <2>1, <2>4 DEF ConsoleGet, TakeEvent
  <2>5. CASE ConsoleExec
    <3>1. emu = "exec" /\ emu' = "leave"
      BY <2>1, <2>5 DEF ConsoleExec
    <3> QED
      BY <3>1
  <2>6. CASE Go
    BY <2>1, <2>6 DEF Go
  <2>7. CASE GoReset \/ GoDebug \/ GoEnd
    BY <2>7 DEF GoReset, GoDebug, GoEnd, QuitSure, QuitCannotBeMissed, Known,
       PointsAgree
  <2> QED
    BY <1>3, <2>2, <2>3, <2>4, <2>5, <2>6, <2>7 DEF EmuThread
<1>4. /\ emu = "run" => emu' \in {"run", "drain", "go"}
      /\ emu = "run" /\ Specialties => emu' = "go"
  <2> SUFFICES ASSUME emu = "run"
               PROVE  emu' \in {"run", "drain", "go"} /\ (Specialties => emu' = "go")
    OBVIOUS
  <2>1. modeChange /\ ~EmuThread
    BY <1>3 DEF QuitSure, QuitCannotBeMissed
  <2>2. CASE Specialties
    BY <2>1, <2>2 DEF Specialties
  <2>3. CASE ~Specialties
    BY <2>1, <2>3 DEF Next, Request, RequestToggleBreakpoint, RequestQuit,
       DestroyBegin, UiThread, Route,
       ForwardToConsole, ForwardToQueue, DestroyQuit, DestroySendQ, DestroyJoin,
       BeginDrain,
       TakeQuitRequest, SavestateCheck, CopperHit, CycleBreak, vars, emuVars
  <2> QED
    BY <2>2, <2>3
<1>5. UiThread => ui' = "closed"
  BY DEF QuitSure, UiThread, Route, ForwardToConsole, ForwardToQueue, DestroyQuit,
     DestroySendQ, DestroyJoin
<1> QED
  BY <1>1, <1>2, <1>3, <1>4, <1>5

\* "q" is sent whatever the emulator thread does meanwhile.
LEMMA QuitIsSent == Live => (QuitUnsent ~> QuitSent)
<1>1. Known /\ [Next]_vars /\ QuitUnsent =>
        /\ QuitUnsent' \/ QuitSent'
        /\ <<UiThread>>_vars => QuitSent'
  <2> SUFFICES ASSUME Known, [Next]_vars, QuitUnsent
               PROVE  QuitSure' /\ (UiThread => ui' # "quitCommand")
    BY DEF QuitUnsent, QuitSent
  <2>1. QuitSure'
    BY QuitStep DEF Known, QuitKept, QuitUnsent
  <2>2. UiThread => ui' # "quitCommand"
    BY DEF QuitUnsent, UiThread, Route, ForwardToConsole, ForwardToQueue, DestroyQuit,
       DestroySendQ, DestroyJoin
  <2> QED
    BY <2>1, <2>2
<1>2. GuardsSuffice /\ QuitUnsent => ENABLED <<UiThread>>_vars
  BY DEF GuardsSuffice, QuitUnsent
<1> QED
  BY <1>1, <1>2, AlwaysKnown, PTL DEF Live, FairSpec, Spec

\* From every point of the emulator thread the way leads to its end.
LEMMA QuitEnds == Live => (QuitSent ~> Closed)
<1> DEFINE Step == Known /\ [Next]_vars
           Runs == QuitAt("run") \/ QuitAt("drain")
<1>1. Step /\ QuitAt("exit") =>
        /\ QuitAt("exit")' \/ Closed'
        /\ <<UiThread>>_vars => Closed'
  BY QuitSuccessors DEF QuitAt, Closed
<1>2. Step /\ QuitAt("go") =>
        /\ QuitAt("go")' \/ QuitAt("exit")'
        /\ <<EmuThread>>_vars => QuitAt("exit")'
  BY QuitSuccessors DEF QuitAt
<1>3. Step /\ Runs =>
        /\ Runs' \/ QuitAt("go")'
        /\ <<Specialties>>_vars => QuitAt("go")'
  <2>1. Specialties => emu = "run"
    BY DEF Specialties
  <2> QED
    BY <2>1, QuitSuccessors DEF QuitAt
<1>4. Step /\ QuitAt("leave") =>
        /\ QuitAt("leave")' \/ Runs'
        /\ <<EmuThread>>_vars => Runs'
  BY QuitSuccessors DEF QuitAt
<1>5. Step /\ QuitAt("exec") =>
        /\ QuitAt("exec")' \/ QuitAt("leave")'
        /\ <<EmuThread>>_vars => QuitAt("leave")'
  BY QuitSuccessors DEF QuitAt
<1>6. Step /\ QuitAt("wait") =>
        /\ QuitAt("wait")' \/ QuitAt("exec")'
        /\ <<EmuThread>>_vars => QuitAt("exec")'
  BY QuitSuccessors DEF QuitAt
<1>7. Step /\ QuitAt("console") =>
        /\ QuitAt("console")' \/ QuitAt("wait")' \/ QuitAt("leave")'
        /\ <<EmuThread>>_vars => QuitAt("wait")' \/ QuitAt("leave")'
  BY QuitSuccessors DEF QuitAt
<1>8. Step /\ QuitAt("debug") =>
        /\ QuitAt("debug")' \/ QuitAt("console")' \/ Runs'
        /\ <<EmuThread>>_vars => QuitAt("console")' \/ Runs'
  BY QuitSuccessors DEF QuitAt
<1>9. Known /\ QuitSent =>
        \/ QuitAt("exit") \/ QuitAt("go") \/ Runs \/ QuitAt("leave") \/ QuitAt("exec")
        \/ QuitAt("wait") \/ QuitAt("console") \/ QuitAt("debug")
  BY DEF Known, Types, TypeOK, PointTypes, EmuPoints, PointsAgree, QuitSent, QuitAt,
     QuitSure,
     QuitCannotBeMissed
<1>10. /\ GuardsSuffice /\ QuitAt("exit") => ENABLED <<UiThread>>_vars \/ Closed
       /\ GuardsSuffice /\ QuitAt("go") => ENABLED <<EmuThread>>_vars
       /\ GuardsSuffice /\ QuitAt("leave") => ENABLED <<EmuThread>>_vars
       /\ GuardsSuffice /\ QuitAt("exec") => ENABLED <<EmuThread>>_vars
       /\ GuardsSuffice /\ QuitAt("wait") => ENABLED <<EmuThread>>_vars
       /\ GuardsSuffice /\ QuitAt("console") => ENABLED <<EmuThread>>_vars
       /\ GuardsSuffice /\ QuitAt("debug") => ENABLED <<EmuThread>>_vars
  BY DEF GuardsSuffice, QuitAt, QuitSent, QuitSure, Closed
<1>11. /\ GuardsSuffice /\ Runs /\ Running => ENABLED <<Specialties>>_vars
       /\ Runs => Running \/ Draining
  BY DEF GuardsSuffice, QuitAt, QuitSent, QuitSure, QuitCannotBeMissed, Running,
     Draining
<1> HIDE DEF Runs
<1>12. Live => (QuitAt("exit") ~> Closed)
  BY <1>1, <1>10, AlwaysKnown, PTL DEF Live, FairSpec, Spec
<1>13. Live => (QuitAt("go") ~> Closed)
  BY <1>2, <1>10, <1>12, AlwaysKnown, PTL DEF Live, FairSpec, Spec
<1>14. Live => (Runs ~> Closed)
  BY <1>3, <1>11, <1>13, DrainEnds, AlwaysKnown, PTL DEF Live, FairSpec, Spec
<1>15. Live => (QuitAt("leave") ~> Closed)
  BY <1>4, <1>10, <1>14, AlwaysKnown, PTL DEF Live, FairSpec, Spec
<1>16. Live => (QuitAt("exec") ~> Closed)
  BY <1>5, <1>10, <1>15, AlwaysKnown, PTL DEF Live, FairSpec, Spec
<1>17. Live => (QuitAt("wait") ~> Closed)
  BY <1>6, <1>10, <1>16, AlwaysKnown, PTL DEF Live, FairSpec, Spec
<1>18. Live => (QuitAt("console") ~> Closed)
  BY <1>7, <1>10, <1>15, <1>17, AlwaysKnown, PTL DEF Live, FairSpec, Spec
<1>19. Live => (QuitAt("debug") ~> Closed)
  BY <1>8, <1>10, <1>14, <1>18, AlwaysKnown, PTL DEF Live, FairSpec, Spec
<1> QED
  BY <1>9, <1>12, <1>13, <1>14, <1>15, <1>16, <1>17, <1>18, <1>19, AlwaysKnown, PTL
     DEF Live, FairSpec, Spec

\* Closing the window ends once QuitCannotBeMissed holds: wherever the emulator
\* thread is, what waits in the queues and however often it stops on the way.
THEOREM CloseEnds == Live => DestroyEndsClean
<1>1. ui = "quitCommand" /\ QuitCannotBeMissed => QuitUnsent
  BY DEF QuitUnsent, QuitSure
<1>2. Closed <=> ui = "closed"
  BY DEF Closed
<1> QED
  BY <1>1, <1>2, QuitIsSent, QuitEnds, PTL DEF DestroyEndsClean

\* In a session without resets, loads and breakpoints closing the window always
\* ends, from the moment uae_quit begins: what the documentation promises of
\* every session (DestroyEnds).
THEOREM OrderlyCloseEnds ==
    ASSUME OrderlyOps
    PROVE  Live /\ savestate_state = "none" => DestroyEnds
<1> DEFINE QuitFlag == ui = "quitFlag"
<1>1. [Next]_vars /\ QuitFlag =>
        /\ QuitFlag' \/ Quitting'
        /\ <<UiThread>>_vars => Quitting'
  BY DEF Quitting, Next, Request, RequestToggleBreakpoint, RequestQuit, DestroyBegin,
     UiThread, Route,
     ForwardToConsole, ForwardToQueue, DestroyQuit, DestroySendQ, DestroyJoin,
     BeginDrain,
     TakeQuitRequest, SavestateCheck, CopperHit, CycleBreak, Specialties, EmuThread,
     DrainOne,
     EndDrain, Debug, ConsoleLoop, ConsoleGet, ConsoleExec, LeaveDebug, Go, GoReset,
     GoDebug,
     GoEnd, vars, uiVars
<1>2. GuardsSuffice /\ QuitFlag => ENABLED <<UiThread>>_vars
  BY DEF GuardsSuffice
<1>3. QuitSure => QuitUnsent \/ QuitSent
  BY DEF QuitUnsent, QuitSent
<1>4. /\ QuitFlag <=> ui = "quitFlag"
      /\ Closed <=> ui = "closed"
  BY DEF Closed
<1> HIDE DEF QuitFlag
<1> QED
  BY <1>1, <1>2, <1>3, <1>4, OrderlyClose, QuitIsSent, QuitEnds, PTL
     DEF DestroyEnds, Live, FairSpec, Spec

----------------------------------------------------------------------------
\* A snapshot is served.

\* A load that has begun has asked for a reset; a reset on its way has told the
\* CPU loop to return; the thread ends for a quit only.
ResetsArrive ==
    /\ savestate_state = "restore" => quit_program # "none"
    /\ quit_program = "reset" => modeChange /\ emu \in {"run", "drain", "go", "goReset"}
    /\ emu = "go" => modeChange
    /\ emu = "exit" => quit_program \in {"quit", "quitAsked"}

LEMMA ResetsStep ==
    ASSUME Types, ResetsArrive, [Next]_vars
    PROVE  ResetsArrive'
<1> USE DEF ResetsArrive
<1> backTo \in {"run", "goEnd"}
  BY DEF Types, TypeOK, PointTypes
<1>1. CASE DrainOne
  <2>1. ApplyOperation(Head(m_pClientOpsStack)) /\ UNCHANGED <<modeChange, emu>>
    BY <1>1 DEF DrainOne, emuVars
  <2>2. /\ \/ quit_program' \in {quit_program, "quit"}
           \/ quit_program = "none" /\ quit_program' = "resetAsked"
        /\ savestate_state' = "restore" => savestate_state = "restore"
    BY <2>1 DEF ApplyOperation, BreakIn, GoLive, JustCommand, ResetRequest, AskReset,
       SnapshotRequest, QuitRequest
  <2>3. emu = "drain"
    BY <1>1 DEF DrainOne
  <2> QED
    BY <2>1, <2>2, <2>3
<1>2. CASE SavestateCheck \/ TakeQuitRequest \/ DestroyQuit
  <2>1. CASE SavestateCheck
    BY <2>1 DEF SavestateCheck, AskReset, emuVars
  <2>2. CASE TakeQuitRequest
    BY <2>2 DEF TakeQuitRequest, engineVars, emuVars
  <2>3. CASE DestroyQuit
    BY <2>3 DEF DestroyQuit, engineVars, emuVars
  <2> QED
    BY <1>2, <2>1, <2>2, <2>3
<1>3. CASE ConsoleExec
  <2>1. /\ emu = "exec" /\ emu' \in {"leave", "console"}
        /\ quit_program' \in {quit_program, "quitAsked"}
        /\ savestate_state' = savestate_state
    BY <1>3 DEF ConsoleExec
  <2> QED
    BY <2>1
<1>4. CASE Debug
  BY <1>4 DEF Debug, EnterConsole
<1>5. CASE LeaveDebug
  BY <1>5 DEF LeaveDebug
<1>6. CASE Specialties
  BY <1>6 DEF Specialties, engineVars
<1>7. CASE Go
  <2>1. Go => quit_program \in {"none", "reset", "resetAsked", "quit", "quitAsked"}
    BY DEF Types, TypeOK, FlagTypes
  <2> QED
    BY <1>7, <2>1 DEF Go, engineVars
<1>8. CASE GoReset \/ GoDebug \/ GoEnd
  BY <1>8 DEF GoReset, GoDebug, GoEnd, flagVars, engineVars
<1>9. CASE ~(DrainOne \/ SavestateCheck \/ TakeQuitRequest \/ DestroyQuit \/ ConsoleExec
             \/ Debug \/ LeaveDebug \/ Specialties \/ Go \/ GoReset \/ GoDebug \/ GoEnd)
  <2>1. /\ UNCHANGED <<savestate_state, quit_program, modeChange>>
        /\ \/ emu' = emu
           \/ emu \in {"run", "drain"} /\ emu' \in {"run", "drain"}
           \/ emu \in {"console", "wait"} /\ emu' \in {"wait", "leave", "exec"}
    BY <1>9 DEF Next, Request, RequestToggleBreakpoint, RequestQuit, DestroyBegin,
       UiThread, Route,
       ForwardToConsole, ForwardToQueue, DestroySendQ, DestroyJoin, BeginDrain,
       CopperHit,
       CycleBreak, EmuThread, EndDrain, ConsoleLoop, ConsoleGet, vars, flagVars,
       engineVars,
       emuVars
  <2> QED
    BY <2>1
<1> QED
  BY <1>1, <1>2, <1>3, <1>4, <1>5, <1>6, <1>7, <1>8, <1>9

LEMMA AlwaysArrive == Spec => [](Known /\ ResetsArrive)
<1>1. Init => ResetsArrive
  BY DEF Init, ResetsArrive
<1> QED
  BY <1>1, ResetsStep, AlwaysKnown, TypesInvariant, PTL DEF Spec

Served == savestate_state = "none" \/ QuitAsked
AwaitAt(point) == ~Served /\ emu = point
AwaitWith(q) == ~Served /\ quit_program = q

LEMMA AwaitSuccessors ==
    ASSUME Known, ResetsArrive, [Next]_vars, ~Served, ~Served'
    PROVE  /\ emu \in {"run", "drain", "debug", "go", "goReset", "goDebug", "goEnd"}
           /\ quit_program \in {"none", "resetAsked", "reset"}
           /\ emu \notin {"run", "drain"} /\ ~EmuThread => emu' = emu
           /\ EmuThread =>
                /\ emu = "debug" => emu' \in {"run", "goEnd"}
                /\ emu = "goDebug" => emu' \in {"debug", "goEnd"}
                /\ emu = "goEnd" => emu' = "run"
                /\ emu = "go" => emu' \in {"goReset", "goDebug"}
                /\ emu = "go" /\ quit_program = "reset" => emu' = "goReset"
                /\ emu # "goReset"
           /\ quit_program = "none" => quit_program' \in {"none", "resetAsked"}
           /\ SavestateCheck => quit_program' # "none"
           /\ quit_program = "resetAsked" => quit_program' \in {"resetAsked", "reset"}
           /\ TakeQuitRequest => quit_program' = "reset"
           /\ quit_program = "reset" => quit_program' = "reset"
           /\ quit_program = "reset" /\ emu \in {"run", "drain"} =>
                emu' \in {"run", "drain", "go"}
           /\ quit_program = "reset" /\ Specialties => emu' = "go"
<1> USE DEF Served, QuitAsked
<1>1. /\ emu \in {"run", "drain", "debug", "go", "goReset", "goDebug", "goEnd"}
      /\ quit_program \in {"none", "resetAsked", "reset"}
      /\ backTo \in {"run", "goEnd"}
      /\ quit_program = "reset" => modeChange
  BY DEF Known, Types, TypeOK, FlagTypes, PointTypes, EmuPoints, NoSnapshotWhileStopped,
     ResetsArrive
<1>2. emu \notin {"run", "drain"} /\ ~EmuThread => emu' = emu
  BY OthersLeave
<1>3. quit_program' \in {"none", "resetAsked", "reset"}
  <2>1. Types'
    BY NextTypes DEF Known
  <2> QED
    BY <2>1 DEF Types, TypeOK, FlagTypes
<1>4. EmuThread =>
        /\ emu = "debug" => emu' \in {"run", "goEnd"}
        /\ emu = "goDebug" => emu' \in {"debug", "goEnd"}
        /\ emu = "goEnd" => emu' = "run"
        /\ emu = "go" => emu' \in {"goReset", "goDebug"}
        /\ emu = "go" /\ quit_program = "reset" => emu' = "goReset"
        /\ emu # "goReset"
  <2> SUFFICES ASSUME EmuThread
               PROVE  /\ emu = "debug" => emu' \in {"run", "goEnd"}
                      /\ emu = "goDebug" => emu' \in {"debug", "goEnd"}
                      /\ emu = "goEnd" => emu' = "run"
                      /\ emu = "go" => emu' \in {"goReset", "goDebug"}
                      /\ emu = "go" /\ quit_program = "reset" => emu' = "goReset"
                      /\ emu # "goReset"
    OBVIOUS
  <2>1. CASE Debug
    BY <1>1, <2>1 DEF Debug, SnapshotPending
  <2>2. CASE Go
    BY <1>1, <2>2 DEF Go
  <2>3. CASE GoReset \/ GoDebug \/ GoEnd
    BY <2>3 DEF GoReset, GoDebug, GoEnd
  <2>4. CASE DrainOne \/ EndDrain \/ ConsoleLoop \/ ConsoleGet \/ ConsoleExec \/ LeaveDebug
    <3>1. emu \in {"drain", "console", "wait", "exec", "leave"}
      BY <2>4 DEF DrainOne, EndDrain, ConsoleLoop, ConsoleGet, ConsoleExec, LeaveDebug
    <3> QED
      BY <3>1
  <2> QED
    BY <2>1, <2>2, <2>3, <2>4 DEF EmuThread
<1>5. /\ quit_program' \in {quit_program, "resetAsked", "reset"}
      /\ quit_program' = "reset" => quit_program # "none"
      /\ quit_program = "reset" => quit_program' = "reset"
      /\ quit_program' = "none" => quit_program = "none"
  <2>1. CASE DrainOne
    BY <1>1, <2>1 DEF DrainOne, ApplyOperation, BreakIn, GoLive, JustCommand,
       ResetRequest,
       AskReset, SnapshotRequest, QuitRequest
  <2>2. CASE SavestateCheck \/ TakeQuitRequest \/ Go
    BY <1>1, <1>3, <2>2 DEF SavestateCheck, AskReset, TakeQuitRequest, Go
  <2>3. CASE DestroyQuit \/ ConsoleExec \/ GoReset
    <3>1. ~DestroyQuit /\ ~GoReset
      BY <1>3 DEF DestroyQuit, GoReset
    <3>2. CASE ConsoleExec
      BY <1>1, <3>2 DEF ConsoleExec
    <3> QED
      BY <2>3, <3>1, <3>2
  <2>4. CASE ~(DrainOne \/ SavestateCheck \/ TakeQuitRequest \/ Go \/ DestroyQuit
               \/ ConsoleExec \/ GoReset)
    <3>1. quit_program' = quit_program
      BY <2>4 DEF Next, Request, RequestToggleBreakpoint, RequestQuit, DestroyBegin,
         UiThread, Route,
         ForwardToConsole, ForwardToQueue, DestroySendQ, DestroyJoin, BeginDrain,
         CopperHit,
         CycleBreak, Specialties, EmuThread, EndDrain, Debug, ConsoleLoop, ConsoleGet,
         LeaveDebug, GoDebug, GoEnd, vars, flagVars
    <3> QED
      BY <1>1, <3>1
  <2> QED
    BY <2>1, <2>2, <2>3, <2>4
<1>6. /\ SavestateCheck => quit_program' # "none"
      /\ TakeQuitRequest => quit_program' = "reset"
  BY <1>1 DEF SavestateCheck, AskReset, TakeQuitRequest
<1>7. /\ quit_program = "reset" /\ emu \in {"run", "drain"} => emu' \in {"run", "drain", "go"}
      /\ quit_program = "reset" /\ Specialties => emu' = "go"
  BY <1>1 DEF Next, Request, RequestToggleBreakpoint, RequestQuit, DestroyBegin,
     UiThread, Route,
     ForwardToConsole, ForwardToQueue, DestroyQuit, DestroySendQ, DestroyJoin,
     BeginDrain,
     TakeQuitRequest, SavestateCheck, CopperHit, CycleBreak, Specialties, EmuThread,
     DrainOne,
     EndDrain, Debug, ConsoleLoop, ConsoleGet, ConsoleExec, LeaveDebug, Go, GoReset,
     GoDebug,
     GoEnd, vars, emuVars
<1> QED
  BY <1>1, <1>2, <1>3, <1>4, <1>5, <1>6, <1>7

\* While a snapshot is pending debug() does not stop: instructions execute again
\* and again.
LEMMA AwaitRuns == Live => (~Served ~> Running \/ Served)
<1> DEFINE Step == Known /\ ResetsArrive /\ [Next]_vars
<1>1. Step /\ AwaitAt("goEnd") =>
        /\ AwaitAt("goEnd")' \/ Running' \/ Served'
        /\ <<EmuThread>>_vars => Running' \/ Served'
  BY AwaitSuccessors DEF AwaitAt, Running
<1>2. Step /\ AwaitAt("debug") =>
        /\ AwaitAt("debug")' \/ AwaitAt("goEnd")' \/ Running' \/ Served'
        /\ <<EmuThread>>_vars => AwaitAt("goEnd")' \/ Running' \/ Served'
  BY AwaitSuccessors DEF AwaitAt, Running
<1>3. Step /\ AwaitAt("goDebug") =>
        /\ AwaitAt("goDebug")' \/ AwaitAt("debug")' \/ AwaitAt("goEnd")' \/ Served'
        /\ <<EmuThread>>_vars => AwaitAt("debug")' \/ AwaitAt("goEnd")' \/ Served'
  BY AwaitSuccessors DEF AwaitAt
<1>4. Step /\ AwaitAt("goReset") =>
        /\ AwaitAt("goReset")' \/ Served'
        /\ <<EmuThread>>_vars => Served'
  BY AwaitSuccessors DEF AwaitAt
<1>5. Step /\ AwaitAt("go") =>
        /\ AwaitAt("go")' \/ AwaitAt("goReset")' \/ AwaitAt("goDebug")' \/ Served'
        /\ <<EmuThread>>_vars => AwaitAt("goReset")' \/ AwaitAt("goDebug")' \/ Served'
  BY AwaitSuccessors DEF AwaitAt
<1>6. /\ GuardsSuffice /\ AwaitAt("goEnd") => ENABLED <<EmuThread>>_vars
      /\ GuardsSuffice /\ AwaitAt("debug") => ENABLED <<EmuThread>>_vars
      /\ GuardsSuffice /\ AwaitAt("goDebug") => ENABLED <<EmuThread>>_vars
      /\ GuardsSuffice /\ AwaitAt("goReset") => ENABLED <<EmuThread>>_vars
      /\ GuardsSuffice /\ AwaitAt("go") => ENABLED <<EmuThread>>_vars
  BY DEF GuardsSuffice, AwaitAt
<1>7. Known /\ ResetsArrive /\ ~Served =>
        \/ Running \/ Draining \/ AwaitAt("debug") \/ AwaitAt("go") \/ AwaitAt("goReset")
        \/ AwaitAt("goDebug") \/ AwaitAt("goEnd")
  BY DEF Known, Types, TypeOK, PointTypes, EmuPoints, NoSnapshotWhileStopped,
     ResetsArrive,
     Served, QuitAsked, AwaitAt, Running, Draining
<1>8. Live => (AwaitAt("goEnd") ~> Running \/ Served)
  BY <1>1, <1>6, AlwaysArrive, PTL DEF Live, FairSpec, Spec
<1>9. Live => (AwaitAt("debug") ~> Running \/ Served)
  BY <1>2, <1>6, <1>8, AlwaysArrive, PTL DEF Live, FairSpec, Spec
<1>10. Live => (AwaitAt("goDebug") ~> Running \/ Served)
  BY <1>3, <1>6, <1>8, <1>9, AlwaysArrive, PTL DEF Live, FairSpec, Spec
<1>11. Live => (AwaitAt("goReset") ~> Running \/ Served)
  BY <1>4, <1>6, AlwaysArrive, PTL DEF Live, FairSpec, Spec
<1>12. Live => (AwaitAt("go") ~> Running \/ Served)
  BY <1>5, <1>6, <1>10, <1>11, AlwaysArrive, PTL DEF Live, FairSpec, Spec
<1> QED
  BY <1>7, <1>8, <1>9, <1>10, <1>11, <1>12, DrainEnds, AlwaysArrive, PTL
     DEF Live, FairSpec, Spec

\* A snapshot that was asked for is taken or loaded, unless the program quits:
\* also when it is overwritten by another request, when the debugger is to stop
\* meanwhile, and when the load has to wait for the reset it asked for.
THEOREM SnapshotIsServed == Live => SnapshotServed
<1> DEFINE Step == Known /\ ResetsArrive /\ [Next]_vars
           ResetRuns == AwaitWith("reset") /\ (Running \/ Draining)
           ResetAt(point) == AwaitWith("reset") /\ emu = point
<1>1. Step /\ AwaitWith("none") =>
        /\ AwaitWith("none")' \/ AwaitWith("resetAsked")' \/ Served'
        /\ <<SavestateCheck>>_vars => AwaitWith("resetAsked")' \/ Served'
  BY AwaitSuccessors DEF AwaitWith
<1>2. Step /\ AwaitWith("resetAsked") =>
        /\ AwaitWith("resetAsked")' \/ AwaitWith("reset")' \/ Served'
        /\ <<TakeQuitRequest>>_vars => AwaitWith("reset")' \/ Served'
  BY AwaitSuccessors DEF AwaitWith
<1>3. Step /\ ResetRuns =>
        /\ ResetRuns' \/ ResetAt("go")' \/ Served'
        /\ <<Specialties>>_vars => ResetAt("go")' \/ Served'
  BY AwaitSuccessors DEF AwaitWith, Running, Draining
<1>4. Step /\ ResetAt("go") =>
        /\ ResetAt("go")' \/ ResetAt("goReset")' \/ Served'
        /\ <<EmuThread>>_vars => ResetAt("goReset")' \/ Served'
  BY AwaitSuccessors DEF AwaitWith
<1>5. Step /\ ResetAt("goReset") =>
        /\ ResetAt("goReset")' \/ Served'
        /\ <<EmuThread>>_vars => Served'
  BY AwaitSuccessors DEF AwaitWith
<1>6. /\ GuardsSuffice /\ ResetsArrive /\ Known /\ AwaitWith("none") /\ Running
           => ENABLED <<SavestateCheck>>_vars
      /\ GuardsSuffice /\ AwaitWith("resetAsked") /\ Running
           => ENABLED <<TakeQuitRequest>>_vars
      /\ GuardsSuffice /\ ResetsArrive /\ ResetRuns /\ Running => ENABLED <<Specialties>>_vars
      /\ GuardsSuffice /\ ResetAt("go") => ENABLED <<EmuThread>>_vars
      /\ GuardsSuffice /\ ResetAt("goReset") => ENABLED <<EmuThread>>_vars
  BY DEF GuardsSuffice, ResetsArrive, Known, Types, TypeOK, EngineTypes, AwaitWith,
     Running,
     Served
<1>7. /\ Known /\ ~Served =>
           AwaitWith("none") \/ AwaitWith("resetAsked") \/ AwaitWith("reset")
      /\ ResetsArrive /\ AwaitWith("reset") =>
           ResetRuns \/ ResetAt("go") \/ ResetAt("goReset")
      /\ AwaitWith("none") => ~Served
      /\ AwaitWith("resetAsked") => ~Served
      /\ ResetRuns => ~Served
  BY DEF Known, Types, TypeOK, FlagTypes, ResetsArrive, Served, QuitAsked, AwaitWith,
     Running,
     Draining
<1>8. /\ savestate_state # "none" => Served \/ ~Served
      /\ Served <=> (savestate_state = "none" \/ QuitAsked)
  BY DEF Served
<1> HIDE DEF ResetRuns, ResetAt
<1>9. Live => (ResetAt("goReset") ~> Served)
  BY <1>5, <1>6, AlwaysArrive, PTL DEF Live, FairSpec, Spec
<1>10. Live => (ResetAt("go") ~> Served)
  BY <1>4, <1>6, <1>9, AlwaysArrive, PTL DEF Live, FairSpec, Spec
<1>11. Live => (ResetRuns ~> Served)
  BY <1>3, <1>6, <1>7, <1>10, AwaitRuns, AlwaysArrive, PTL DEF Live, FairSpec, Spec
<1>12. Live => (AwaitWith("reset") ~> Served)
  BY <1>7, <1>9, <1>10, <1>11, AlwaysArrive, PTL DEF Live, FairSpec, Spec
<1>13. Live => (AwaitWith("resetAsked") ~> Served)
  BY <1>2, <1>6, <1>7, <1>12, AwaitRuns, AlwaysArrive, PTL DEF Live, FairSpec, Spec
<1>14. Live => (AwaitWith("none") ~> Served)
  BY <1>1, <1>6, <1>7, <1>13, AwaitRuns, AlwaysArrive, PTL DEF Live, FairSpec, Spec
<1> QED
  BY <1>7, <1>8, <1>12, <1>13, <1>14, AlwaysArrive, PTL
     DEF SnapshotServed, Live, FairSpec, Spec
=============================================================================
