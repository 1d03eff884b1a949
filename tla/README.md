# Quaesar: a TLA+ model of the emulator front end

Quaesar puts a debugger and a window in front of two Amiga emulators: WinUAE's
core, kept in the repository under `libs/uae_lib`, and vAmiga.  The emulators
are theirs; what Quaesar adds is the traffic between the UI thread and the
emulator thread: operations, console commands, frames, start-up and shut-down.
That traffic is what these modules model.  Paths below are relative to the
repository.

## 1. Inventory

| Part | State it keeps | Operations | Talks to |
| --- | --- | --- | --- |
| Thread event, `libs/qd/thread` | flag, mutex, condition variable | `set`, `reset`, `wait`, `wait(ms)` | used by all hand-shakes |
| Console queue, `UaeConsoleQueue` in `quasar_app/uae_imp/uae_server_thread.cpp` | queue of commands, mutex, auto-reset event | `addCmdToQueue`, `popConsoleCmdWait`, `destroy` | UI and emulator thread push, `debug_1` pops |
| UAE back end, `UaeServerThread`, `UaeVmImp` | operation queue under `m_eventMutex`, the VM's debug mode, the emulator thread | `initialize`, `pushOperationMsg`, `onUaeHandleEvents`, `applyOperationMsgProcImp`, `setVmDebugMode`, `destroy` | writes the core's globals: `debugger_active`, `debugging`, `quit_program`, `spcflags`, `savestate_state` |
| UAE core, `libs/uae_lib/{debug,newcpu,custom,drawing,savestate,main}.cpp` | those globals, `trace_mode`, breakpoints | `debug`, `debug_1`, `debug_line`, `do_specialties`, `m68k_go`, `uae_reset`, `uae_quit` | calls `handle_events` once per frame, `console_get` when stopped, `unlockscr` per frame |
| Forwarding callback, `QuaesarApplication` | mirror of the debug mode | one callback per operation | console queue when `debugger_active`, else operation queue |
| Frame path, both server threads, main window, debugger's screen window | texture buffer, its size, frame counter, mutex | lock, reallocate, copy, count, unlock; look, lock, upload; read without lock | emulator thread writes, UI thread reads |
| vAmiga back end, `libs/vAmiga_imp_lib` | the `VAmiga` object, init event, quit flag, error | `initialize`, `onVAmigaThreadMain`, messages, `destroy` | vAmiga's own thread |
| Application frame, `libs/qd/app` | list of parts, quit request | add, update, render, destroy parts; messages | everything that is a part |
| Operation dispatch, `libs/qd/qui`, `amDebugger/ui` | registry, shortcuts | apply an operation along a chain of handlers | desktop, windows, VM, forwarding callback |
| Debugger windows, `amDebugger/window`, `codeAnalyzer` | views of a copy of the machine | drawing; operations | VM object |
| Expression parser, `libs/exprParser`, and address fields, `amDebugger/exprValue` | text, parsed tree, pinned address | `setStrVal`, `parse`, `evaluate` | Copper, code, memory windows |
| Audio, `uae_lib_imp/sounddep`, `libs/qsr_audio_dsp` | Paula's buffer, pull buffer and its level, semaphore, device | push, wait per frame, pause, resume, callback | emulator thread and SDL's audio thread |
| Porting layer, `src/uae_lib_imp` | host handles | files, memory, keys | UAE core |

### What is hard here

* *Concurrency.*  UI thread and emulator thread share flags without a lock
  (`debugger_active`, `quit_program`, the debug mode, `savestate_state`); the
  forwarding callback reads one and acts on it later.
* *Waiting.*  The emulator thread blocks in `console_get`, the UI thread in
  `SDL_WaitThread` and in `initialize()`.  Each wait needs somebody to end it.
* *Ordering.*  Commands, operations, snapshots and resets are requests that are
  served at different points of the emulator's loop: per instruction, per scan
  line, per frame.
* *Partial service.*  `debug()` gives up during a snapshot, `uae_reset` during
  another reset, a texture may not lock.
* *Shut-down* from any of these points.

### What makes each part correct

| Part | Properties |
| --- | --- |
| Thread event | no wake-up is lost; set, reset and wait are atomic; a wait that timed out took nothing |
| Console queue | each command popped once, in order; nobody is woken over an empty queue; a raised event delivers to whoever asks |
| UAE session | a stopped CPU is visible to the callback; a CPU to be stopped is armed; no snapshot during a stop; steps come back; requests are served; closing ends |
| Frame path | the picture shown is one frame; no frame number is taken for rendered before its picture; no frame is missed for good |
| vAmiga life cycle | the UI is released; nobody uses the emulator object after its deletion; the debug mode shown is the emulator's; accepted input is applied; destruction ends and leaves nothing |
| Audio | no copy leaves the buffer; the level is not written under a running callback; samples stay in order and vanish only by overflow or a stop; pacing prevents overflow and ends |
| Parser and address field | a text has the tree of the grammar or none; the pinned address is the value of the text shown |
| Application parts, dispatch | order of destruction; an operation is applied once |

`PROJECT.json` lists the components, the definitions with the source lines they
model, and the hazards with the properties that cover them.

## 2. Plan

| Step | Modules | State |
| --- | --- | --- |
| 1 | `AtomicEvent`, `ThreadEvent`, `ThreadEvent_proofs`: the event and the atomic flag it implements | done |
| 2 | `CommandChannel`, `AtomicConsole`, `ConsoleQueue`, `ConsoleQueue_proofs`: the queue on top of the atomic event, the FIFO channel and the atomic console queue it implements | done |
| 3 | `UaeDebugSession`, `UaeDebugSession_proofs`, `UaeSessionLiveness_proofs`: the session on top of the queue | done |
| 4 | `PictureRegister`, `FrameTransport`, `FrameTransport_proofs`: the frame path and the register of pictures it implements | done |
| 5 | `VAmSession`, `VAmSession_proofs`: the vAmiga back end from creation to destruction | done |
| 6 | `AudioPull`, `AudioPull_proofs`: the pull buffer and the pacing by its level | done |
| 7 | `AddressField`, `AddressField_proofs`: the field, for any parser; `ExprParser`, `ExprField`: lexer and parser as operators, checked through the field against grammars of their own | done |
| 8 | Application parts, dispatch, start-up of WinUAE, `qd::Thread` | left out, see section 6 |

`ConsoleQueue` rests on what step 1 shows of the event.  `UaeDebugSession` has the
queue inside in the form of `AtomicConsole`: `ConsoleQueue` is shown to implement
that specification, and the session to follow it.  `ExprField` puts `ExprParser`
into `AddressField`.  The abstract specifications are `AtomicEvent`,
`CommandChannel`, `AtomicConsole` and `PictureRegister`.

## 3. Modules

**`ThreadEvent`** models `ImpThreadEventSdl2` (`libs/qd/thread/threadImplSdl2.cpp`
144-229).  Variables are the flag `m_bState`, the owner of `m_pMutex`, and per
thread the point it has reached in the call it made.  Taking the mutex, reading
the flag, writing it and the second, unlocked `SDL_CondSignal` of `set()` are
separate steps.  The condition variable may wake for no reason.  Error returns
of SDL itself are left out.  `AtomicEvent` is what a caller may rely on; the
refinement mapping takes the flag as it is and reduces a thread's point to the
call it is in.

**`ConsoleQueue`** models `UaeConsoleQueue` with the event taken as atomic, as
step 1 shows it may be.  A push and its event are two steps (`Push`,
`SetEvent`), so are a wake-up and its pop (`Wake`, `PopOrWaitAgain`).  `added`
and `got` are history.  `CommandChannel` is the FIFO channel it implements.
`AtomicConsole` is the queue without the two gaps.  The mapping takes a command
for added when an event is raised, whoever raises it (the oldest command not heard of
yet), and for taken when the consumer wakes up.
Its `FairSpec` has the emulator thread go on with the `popConsoleCmdWait` it is
inside of (`Answer`); that it asks (`Ask`) is under no fairness, because after `g`
`debug_1` returns and the CPU may run for ever.  `EventDelivers` therefore
excepts a thread that stays away.

**`UaeDebugSession`** models a session from the moment the emulator is up.

| Model | Code |
| --- | --- |
| `ui`, `uiOp`, `Request`, `Route`, `ForwardTo...` | forwarding callback, `qsr_application.cpp` 53-103, one step per shared access |
| `RequestToggleBreakpoint` | the disassembly's gutter, which bypasses the callback |
| `BeginDrain`, `DrainOne`, `EndDrain`, `ApplyOperation` | `onUaeHandleEvents` 368-402, `UaeVmImp::applyOperationMsgProcImp` 79-181; a push waits while `emu = "drain"` (`m_eventMutex`) |
| `Specialties`, `CopperHit`, `CycleBreak`, `TakeQuitRequest`, `SavestateCheck` | what the running CPU meets: `do_specialties`, `record_copper`, `breakfunc`, end of a scan line or frame, top of a frame |
| `Debug`, `ConsoleLoop`, `ConsoleGet`, `ConsoleExec`, `LeaveDebug` | `debug()`, `debug_1()`, `console_get`, `debug_line`, the end of `debug()` |
| `Go`, `GoReset`, `GoDebug`, `GoEnd` | `m68k_go`'s outer loop |
| `RequestQuit`, `QuitRequest` | `requestAppToQuit` and the operation `QuitQuasarApp`, which the main window pushes past the callback; applied, it sets `quit_program` to `UAE_QUIT` |
| `DestroyBegin` to `DestroyJoin` | `uae_quit` in two halves, the `q` command, `SDL_WaitThread` |

`debugSkipped` is history: `debug()` has once returned early for a snapshot.
The emulated program is nondeterminism: whether a breakpoint's address or a
step-out's target is reached, and when.  One breakpoint stands for the table.
`quit_program` is `"quitAsked"` or `"resetAsked"` while negative in the code.
A window that closes asks twice: the operation `QuitQuasarApp`, applied when a frame
ends, and `uae_quit` from `destroy()`.  The operation writes a positive value, over a
pending reset or over `uae_quit`'s, and raises no `SPCFLAG_MODE_CHANGE`; only
`uae_quit`'s makes the CPU loop look.  Whether a frame takes a quit request before it
drains the operations is left open: the short fields of an interlaced picture are
not redrawn (`drawing.cpp` 5308).  That is why `QuitCannotBeMissed` wants
`m68k_go` not to be on its way to take the flag down.

**`FrameTransport`** models the texture buffer.  `PictureRegister` is what a window
may rely on: a picture is published in one step, as the emulator thread takes the
mutex to write it, and shown in one, as the window has locked its texture.  `countUnderLock` selects the
back end: UAE counts a frame inside the mutex, vAmiga after it.  A row's content
is the frame it belongs to, and its size; freed memory is `"freed"`, fresh
memory `Garbage`.  The reader in the debugger takes no lock.  Frame numbers rise
by one; that vAmiga may skip numbers or start anew after a hard reset is left
out, and so are the copy kept for temporal blending and windows of zero size.

**`VAmSession`** models the other back end (`va_server_thread.cpp`,
`va_vm_imp.cpp`) with four threads: UI, server, vAmiga's emulator thread and SDL's
audio thread.  The user's requests come in any order.

| Model | Code |
| --- | --- |
| `InitWait`, `InitVm`, `Connect` | `initialize` 284-288, the hand-over to the debugger, `qsr_application.cpp` 132-142 |
| `Request`, `PushOperation`, `PushKey` | forwarding callback, `pushOperationMsg`, `pushSdlEvent` |
| `Create` to `Ready`, `Catch` | `onVAmigaThreadMain` 471-676; each step may fail in the way its code may |
| `LoopTop`, `ApplyKey`, `ApplyMode`, `SetMode`, `ApplyOther`, `DrainEnd` | the loop, `onVAmHandleEvents`, `applyOperationMsgProcImp`; the mode is read and written in two steps |
| `LoadSnapshot`, `ObeyTarget` | a snapshot leaves a machine that can run or not (`rom`); `run()` throws when it cannot, inside the loop |
| `CloseAudio`, `Halt`, `Delete`, `ClearVm` | the clean-up, 729-742 |
| `EmulatorCommand`, `AbortMessage`, `Callback` | vAmiga's command queue, `vAmigaMsgQueueProc`, `vamiga_audio_callback` |
| `DestroyDebugger` to `Join` | tear-down of the application, `destroy` 291-319 |

`obj` says whether `m_pVAmiga` points to nothing, an object or a deleted one;
`ui = "nullVm"` and `"deletedVAmiga"` are the calls through such a pointer.
The loop lies inside the `try` of the whole thread (716-723).  What throws in it is
`VAmiga::run`, which asks `isReady` first (`VAmiga.cpp` 2162-2170): a Kickstart ROM
and chip RAM were there at the start, but loading a snapshot replaces both
(`Memory.cpp` 369-411), may fail half way, and is then only logged
(`va_vm_imp.cpp` 157-167).  The next operation that sets the mode to `Live` writes
the mode, throws before it is popped, and ends the thread as any failure of the start
does; the lock of the queues is released by its guard object.  The error is set after
the hand-shake, so nobody reads it but the forwarding callback, which pushes no more
operations: the windows keep a VM object whose emulator is deleted, the exception
`err` in `DebuggerReadsLive`.  Two things are left out: a `run` command already queued
that meets such a machine throws in vAmiga's own thread, where nothing catches it,
and ends the program; and allocations that fail.  `QuitQuasarApp` reaches this back
end as well and has no branch there.

**`AudioPull`** models the pull mode of `sounddep/sound.cpp`.  `pull` and `paula`
hold the samples by their number, 0 is silence; `need` and `seen` are what a
running callback was asked for and the level it read, so that a callback is two
steps with SDL's device lock held between them.  `ResumeSound`, `PrefillBuffer`
and `UnpauseDevice` are `resume_sound` in the pieces a callback could come
between.  A frame renders `Frame` samples, then waits (`SyncStart` to `SyncEnd`).
`dropped` and `gaveUp` are history.

**`ExprParser`** has lexer (`exprLexer`), recursive descent (`Level`, `Loop`,
`primaryExpression`) and `evaluate` as operators on sequences of characters,
tokens and trees.  Every `ExprError` is one outcome.  Words are of `Width` bits.
The one variable the debugger's resolver names, `var.32`, has no value and ends in
an error, as any other name does.
**`AddressField`** is the state around them: the text, the tree `ExprValStr`
keeps, the address the Copper window is pinned to.  Parser and evaluator are its
parameters.  **`ExprField`** puts the parser above in their place and has the
reference, which uses no definition of the lexer or the parser: `Pieces` cuts a text
into its longest lexemes, words and marks instead of a switch over characters;
`NumeralForm` and `PlaceValue` give a numeral the base its form says and its value by
places; `Trees` is the set of trees C's table of operators (`Precedence`) gives the
tokens, tried at every split and in no order.  In one point the reference follows
the code and not its tests: a plain numeral that ends the text is read in base 16.
The tests of the parser say otherwise (`"32768"` is 32768, `"9c"` and `"07"` are
errors: `tests/test.cpp:157, 261, 280`), and a finding reports it; `TreeIsTheMeaning`
holds against this reference, and says nothing in favour of those texts.

Operators marked *Faulty* in the modules are plausible bugs: each replaces one
definition to see that the property meant to catch it does.

## 4. Runs

| Run | Shows | Bounds |
| --- | --- | --- |
| `thread_event` | refinement of the atomic event, no sleeper under a raised flag, waiters are released | three threads in any role: two waiters and a third that sets or resets |
| `console_queue` | FIFO refinement, refinement of the atomic console queue, delivery | two producers, two commands, four additions: two pushes per wake-up, twice |
| `session` | the invariants of a session | the user's twelve operations, three requests: every ordered triple, at any point; the request to quit |
| `session_live` | drains, stops, steps, snapshots, shut-down | nine operations, two requests, the quit |
| `session_quit` | **violated**: `DestroyEnds` | two requests and the quit |
| `session_snapshot` | **violated**: `PauseStops` | a pause and a save |
| `frame` | refinement of the register of pictures (whole frames, the latest), none missed | two sizes, two rows, three frames, both back ends |
| `frame_debugger` | **violated**: `DebuggerReadsLiveBuffer` | two frames |
| `audio` | copies fit, no race, order, nothing vanishes, pacing, waits end, the buffer drains | chunks and frames of 2 samples, callbacks for 3, waits of 2 rounds, 9 samples |
| `vam` | no use of a deleted emulator, nothing left, true mode, hand-shake, queues, destruction | seven operations, two requests, one key, every failure of the start, an operation that throws |
| `vam_continue` | **violated**: `ContinueRuns` | a pause and a continue |
| `expr` | lexer and parser against the two grammars; the pinned address against the text | 20 alphabets of 3 to 5 characters, texts of up to 6 |

Why these are enough: a violated session property needs at most two operations
that meet in one batch or one behind a stop, and a third to follow; the queue's
gaps involve two pushes and one wake-up; mixing two frames needs two rows, and
a number that runs ahead needs a frame before and one behind.  With a pull buffer
of six chunks nine samples are enough to overflow it after the prefill, and
callbacks that ask for one and a half chunks meet every alignment.  Two
operations meet in one batch or around a change of mode; a key is enough to hold
the drain.  Six characters hold two binary operators with their operands, or one
and a bracket; the alphabets pair each level of operators with its neighbours.
A word of 20 bits keeps intermediate results inside TLC's integers; the value of
a longer numeral wraps, as it does at 32.  `MaxRequests`,
`MaxKeys`, `MaxAdds`, `MaxFrames`, `Made` and `MaxText` bound what the user and the
emulated machine do, nothing else.  `session` does not check for deadlock because the program really
has one (`session_quit`); `console_queue`,
`audio` and `vam` because they end with their bounds or with the program, `expr`
because an uncaught exception ends the program.

### Fairness

* `ThreadEvent`: a thread inside a call goes on, and the SDL mutex does not
  starve one that keeps asking (strong fairness per thread).  Nobody must call,
  time out or be woken for no reason.
* `ConsoleQueue`: a producer inside `addCmdToQueue` raises its event; the
  emulator thread goes on inside `popConsoleCmdWait`.  Nothing makes it ask.
* `UaeDebugSession`: the emulator thread executes what it is in the middle of;
  while instructions run, frames end, events fire and special flags are tested
  again and again (strong fairness, because a stop interrupts them).  The UI
  finishes what it began.  The user owes nothing, and the copper need not reach
  a watched address.
* `FrameTransport`: both threads go on, and the mutex does not starve the UI
  thread.  The emulator need not produce another frame.
* `AudioPull`: the emulator thread goes on with its wait, a callback that has
  begun returns (weak fairness).  Nothing makes the sound card ask for samples;
  `BufferDrains` alone assumes it, in its statement.
* `VAmSession`: UI, server and emulator thread go on with what they have begun;
  the mutex and the lock of the audio device, which are free again and again, are
  obtained in the end (strong fairness).  No key, operation or abort message has
  to come.

### What the violated runs show

1. *Closing may hang* (`session_quit`).  Two additions to the console queue raise
   one auto-reset event, and one wake-up pops one command: the second stays behind
   with the event down, a stale command takes the event of the
   final `q`, and `SDL_WaitThread` waits for ever.
2. *A pause is lost* (`session_snapshot`).  With a snapshot pending `debug()`
   returns after its caller has taken `SPCFLAG_BRK` down; `activate_debugger`
   does not raise it again for a debugger already active.
3. *The debugger's preview may read freed memory* (`frame_debugger`).  Not "a
   harmless single-scanline tear" when the picture size changes.
4. *Continue pauses* (`vam_continue`).  The "UI-only mirror" is the real VM object
   once connected, so that the handler toggles on its own mirror.  In the UAE back
   end the same mirror makes TraceStart resume.

`PROJECT.json` has further findings that need no run: they are visible in the
code or in a definition of the model, and say where.

In the live properties these cases are named as exceptions (`debugSkipped`,
`QuitCannotBeMissed`, `Abandoned`, `aborted`, `err`, `deletedVAmiga`), so that everything
else is still shown to hold.

## 5. Proofs

The `_proofs` modules hold for every value of the constants.  Each defines an
inductive invariant that contains the properties, proves that `Init`
establishes it and every action keeps it, and concludes by temporal logic.

| Module | Theorems | Argument |
| --- | --- | --- |
| `ThreadEvent_proofs` | `TypeCorrect`, `MutualExclusion`, `NoMissedSignal`, `FlagStaysUp`, `EventImplementsAtomicEvent`, `RaisedFlagBringsWaiters`, `SignalGetsThrough` | `m_bState` is written and a sleeper goes to sleep only under the mutex, and `set()` empties the set of sleepers as it raises the flag; each step maps to a step of `AtomicEvent` or to none |
| `ConsoleQueue_proofs` | `TypeCorrect`, `OrderKept`, `WakeBudgetKept`, `NoSpuriousWake`, `QueueImplementsChannel`, `QueueImplementsAtomicConsole`, `QueueKeepsToEvent`, `RaisedEventDelivers` | the budget is inductive: a push adds one to both sides, every later step moves or drops a unit on the left; that nobody is woken in vain follows from it, and that the commands heard of are a part of the queue, one for each event |
| `UaeDebugSession_proofs` | `TypeCorrect`, `EventNeedsCommand`, `StopExcludesSnapshot`, `StopIsVisible`, `ArmingKept`, `SessionKeepsToConsole`, `StopNeverDropped`, `QuitNeverLost`, `OrderlyClose`, `OnlySnapshotsDropStops` | the strengthening says at which points of the emulator thread each flag may be up; no bound on requests is used |
| `UaeSessionLiveness_proofs` | `BreakInComes`, `StepReturns`, `SnapshotIsServed`, `CloseEnds`, `PauseStopsWithoutSnapshots`, `OrderlyCloseEnds` | the invariants of `UaeDebugSession_proofs`, and a chain of points the emulator thread passes from one fair step to the next; `ResetsArrive`: while a load waits for its reset, the reset is asked for, on its way to the CPU loop, or done |
| `AudioPull_proofs` | `TypeCorrect`, `PullAlwaysFits`, `NeverRaces`, `PacingPreventsOverflow`, `SamplesInOrder`, `NothingEverVanishes`, `SamplesAdvance`, `WaitIsOver`, `BufferIsPlayed` | `LevelInv`: level and device at each point of the emulator thread and of a callback; `Budget`: the level after a wait that ended below target leaves room for the samples still to come; for the order, that the silent prefix lies before the samples and these rise |
| `VAmSession_proofs` | `TypeCorrect`, `InitAlwaysFindsVm`, `CallbackAlwaysReadsLive`, `DebuggerAlwaysReadsLive`, `NothingIsLeft`, `ModeAlwaysTrue`, `QueueLeadsToMode`, `NobodyWaitsInVain`, `StartIsAnswered`, `SentIsApplied`, `DestroyReturns` | the strengthening says what object, VM, device and emulator thread are at each point of the server thread, and at which points the UI may be; for the mode, that the last of the queued commands that changes it agrees with the mode shown, or else the emulator's state does |
| `FrameTransport_proofs` | `TypeCorrect`, `WholeFrames`, `NothingMissed`, `TransportIsRegister`, `WindowNeverOlder`, `CountedFrameComesNearer`, `CountedFrameIsRendered`, `OneSizeKeepsPreview` | who is between lock and unlock holds the mutex; outside the emulator's section the buffer is one frame not older than the counter; the UI's copy agrees with the buffer up to its next row; each step maps to a step of `PictureRegister` or to none |
| `AddressField_proofs` | `TypeCorrect`, `TreeAlwaysOfTheText`, `ViewAlwaysIsTheText` | the tree kept is the one of the text shown, for any parser that finds none in the empty text: so Enter on an unchanged text pins the same address |

The atomic steps of `UaeDebugSession` are thereby justified in general, from the
bottom up: the event with mutex and condition variable implements `AtomicEvent`
(`EventImplementsAtomicEvent`), the queue uses its event as `AtomicEvent` allows
(`QueueKeepsToEvent`) and implements `AtomicConsole` with it
(`QueueImplementsAtomicConsole`), and the session's queue and event
change as `AtomicConsole` says (`SessionKeepsToConsole`).

**Liveness.**  All but one of the "leads to" properties of the passing runs are proved
from the fairness of their specification:

| Theorem | Proves | Hypotheses besides the fairness | Safety core |
| --- | --- | --- | --- |
| `SignalGetsThrough` | `SignalReleases` | guards | `RaisedFlagBringsWaiters`: while the flag is up no waiter goes back to sleep |
| `RaisedEventDelivers` | `EventDelivers` | guards | `NoSpuriousWake` |
| `BreakInComes`, `StepReturns` | `BreakInStops`, `StepComesBack` | guards, `OperationsDrain` | `StopNeverDropped`: a stop under way stays under way until the emulator is at the console, the window closes or a snapshot swallows it |
| `SnapshotIsServed` | `SnapshotServed` | guards, `OperationsDrain` | `ResetsArrive` |
| `CloseEnds` | `DestroyEndsClean` | guards, `OperationsDrain` | `QuitNeverLost`: a quit that cannot be missed stays so |
| `CountedFrameIsRendered` | `FrameRendered` | guards, `RowsEnd` | `CountedFrameComesNearer` |
| `StartIsAnswered` | `InitializeReturns` | guards | `NobodyWaitsInVain`: who waits finds what ends its wait raised, queued, or still to be done |
| `SentIsApplied` | `QueuesDrain` | guards, `DrainsEnd` | `KeysComeLater` |
| `DestroyReturns` | `DestroyEnds` of `VAmSession` | guards, `DrainsEnd`, `HaltIsReached` | `NobodyWaitsInVain` |
| `WaitIsOver` | `WaitEnds` | guards; `Rounds <= 5` | |
| `BufferIsPlayed` | `BufferDrains` | guards; `Chunk <= 1024` | `SamplesAdvance`: no step moves a sample back, each callback moves it nearer or delivers it; the number of callbacks is doubled until it covers the buffer |

What cannot be derived here stands in the theorems as a hypothesis, to be read:

* *guards* (`GuardsSuffice`, `ServerCanStart`, `UiCanTakeAnswer`, `ServerGuards`,
  `UiGuards`, and the condition of `RaisedEventDelivers`): at the points named a step
  is `ENABLED`.  The guards of the actions say so, but the prover has no rules for
  `ENABLED`.
* `OperationsDrain` and `DrainsEnd` (a drain of the operations ends, in either back
  end; `session_live` checks the first), `HaltIsReached` (vAmiga's thread comes to a
  `halt` in its queue) and `RowsEnd` (a loop over the rows of a frame ends): each is
  an induction on a number, the length of a queue or a row, with a temporal formula
  as the induction hypothesis, for which the language has no operator parameter.

`AudioPull` needs none of the second kind because the code bounds its loops by
constants: a wait has at most five rounds of 20 ms (`sound.cpp` 715-717), and the pull
buffer has six chunks (459) of at most 1024 frames (540-546).  Of what a callback asks
for nothing is assumed but that it is a sample at least: the device is asked for 512
frames and may grant another size (`SDL_AUDIO_ALLOW_SAMPLES_CHANGE`, 427-433).  Every
callback that ends moves a sample forward by one place or delivers it (`OneNearer`), two
stretches of the way join (`WaysJoin`), so twice as many callbacks bring it twice as far
(`TwiceAsNear`), and thirteen doublings cover the buffer.
`SignalGetsThrough` takes the fairness of all threads under a box, as the
prover does not see that fairness, once true, stays true under a quantifier.

`QueueLeadsToMode` goes further than `ModeIsTrue`, which says nothing while commands
are queued.

**The causes of the violated runs.**  What three of them refute is proved once its
cause is taken away, for everything else that may happen:

| Refuted | By | Proved |
| --- | --- | --- |
| `DestroyEnds` | `session_quit` | `OrderlyClose`, `OrderlyCloseEnds`: it holds in a session without `Reset`, `LoadSnapshot` and the two kinds of breakpoint (`OrderlyOps`), whenever `QuitQuasarApp` is applied |
| `PauseStops` | `session_snapshot` | `OnlySnapshotsDropStops`, `PauseStopsWithoutSnapshots`: it holds in a session without snapshots (`NoSnapshots`) |
| `DebuggerReadsLiveBuffer` | `frame_debugger` | `OneSizeKeepsPreview`: it holds while the picture keeps its size (`OneSize`) |

`NoSnapshots`, `OrderlyOps` and `OneSize` restrict constants in the theorems that
name them and nowhere else; `savestate_state = "none"` says that the program was
not started to load a snapshot.

Assumptions are those of the modules: `EventAssumption`, `QueueAssumption`
(a finite set of producers), `SessionAssumption`, `FrameAssumption` (at least one
row), `SizesAssumption` (positive sizes), `VAmAssumption`, `FieldAssumption` (the
empty text has no tree, a value is a number; `expr` evaluates it for the parser of
the code).  `PacingPreventsOverflow`
also needs `FramesFit`, a frame of at most one and a quarter chunks: 3528 bytes
and 4096 with the default settings.

`MutualExclusion`, `FlagStaysUp`, `OrderKept`, `WakeBudgetKept`, `NoSpuriousWake`,
`WholeFrames` and `WindowNeverOlder` are proved of formulas no run lists: on an
instance they follow from the refinements that `thread_event`, `console_queue` and
`frame` check.

Left to TLC: `OperationsDrain`, for the reason given; and `TreeIsTheMeaning`, that the
parser agrees with the grammar: `ExprParser` and `ExprField` use `RECURSIVE`
operators, which take the SMT prover away.  `AddressField` has its parser as a
parameter so that the field around it could be proved about.

## 6. Not modelled

* *The emulated machines.*  WinUAE's core and vAmiga, with SDL, ImGui and EASTL,
  are most of the lines of the repository: instruction tables generated for each
  processor, a compiler, chip emulation.  They are vendored and their behaviour is
  that of hardware; what Quaesar adds reads and writes a few flags of theirs,
  which are modelled.
* *Application frame.*  One thread; parts are added at start-up and destroyed at
  the end, `destroyPart` has no callers.  The order of destruction that matters is
  in `VAmSession` (`DestroyDebugger` before `DestroyServer`).
* *Dispatch.*  A walk along a chain in one thread with no state of its own.
* *Windows* other than the address field: drawing of a copy of the machine.
* *Start-up of the UAE back end*: WinUAE's own, decided by files and settings.
* *`qd::Thread`, `pauseEmulation`, `pause_sound_buffer`, the console queue of the
  vAmiga back end*: nothing calls or reads them.
* Input events of the UAE back end: they pass the same queue and mutex as
  operations and touch only the emulated ports.
* Signal processing, files, key tables, the recording buffer of the sound.

Reads and writes of single flags are taken as atomic and in program order although
the code declares them as plain variables.  Shift counts and the one quotient that
overflows are what x86 makes of them; a C compiler may do otherwise.
