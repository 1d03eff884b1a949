--------------------------- MODULE FrameTransport ---------------------------
(***************************************************************************)
(* The way of a picture from the emulator thread to the two windows of the *)
(* UI thread.  The emulator thread copies each finished frame, row by row, *)
(* into m_pAmigaBuffer under the texture mutex and counts it in            *)
(* m_scrFrameNo: under the mutex (UaeServerThread) or after it             *)
(* (VAmServerThread).  The main window reads the counter first and takes   *)
(* the mutex only for a number it has not rendered; the debugger's screen  *)
(* window takes no mutex at all.                                           *)
(*                                                                         *)
(* Reads and writes of single words are taken as atomic.  The buffer is    *)
(* there from before the emulator thread starts until after it has ended,  *)
(* so that lockDisplayTexBuf never returns false here.                     *)
(***************************************************************************)
EXTENDS Integers

CONSTANTS
    Sizes,           \* picture sizes, e.g. PAL and NTSC
    Rows,            \* rows of a picture
    MaxFrames        \* bound on the number of frames

ASSUME FrameAssumption == Rows \in Nat \ {0} /\ MaxFrames \in Nat

VARIABLES
    countUnderLock,      \* which back end: TRUE for UAE, FALSE for vAmiga
    m_scrFrameNo,        \* frames counted
    m_texMutex,          \* who holds the texture mutex
    m_scrSize,           \* m_scrWidth and m_scrHeight
    buffer,              \* m_pAmigaBuffer: which allocation it points to
    allocated,           \* size of that allocation, or "freed"
    content,             \* what the buffer holds: the frame in each row
    emu, emuFrame, emuRow,   \* emulator thread: point, frame in hand, next row
    ui, curFrame, uiRow,     \* UI thread: point, number it read, next row
    m_renderedFrameNo,
    texture,             \* the main window's texture: the frame in each row
    textureSize,
    textureLost,         \* the last SDL_LockTexture of the main window failed
    seenSize, seenBuffer \* what the debugger read

emuVars == <<m_scrSize, buffer, allocated, content, emu, emuFrame, emuRow>>
textureVars == <<m_renderedFrameNo, texture, textureSize, textureLost>>
uiVars  == <<ui, curFrame, uiRow, textureVars, seenSize, seenBuffer>>
vars == <<countUnderLock, m_scrFrameNo, m_texMutex, emuVars, uiVars>>

\* Row contents: the number and size of a frame; number -1 is memory not written.
Pixels == [no : -1..MaxFrames, size : Sizes]
Garbage(s) == [r \in 1..Rows |-> [no |-> -1, size |-> s]]

EmuPoints == {"run", "check", "delete", "allocate", "copy", "unlock", "count"}
UiPoints  == {"main", "lock", "upload", "copy", "debugger", "pointer", "read"}

TypeOK ==
    /\ countUnderLock \in BOOLEAN
    /\ m_scrFrameNo \in 0..MaxFrames
    /\ m_texMutex \in {"free", "emu", "ui"}
    /\ m_scrSize \in Sizes
    /\ buffer \in Nat
    /\ allocated \in Sizes \cup {"freed"}
    /\ content \in [1..Rows -> Pixels]
    /\ emu \in EmuPoints
    /\ emuFrame \in [no : 0..MaxFrames, size : Sizes]
    /\ emuRow \in 1..(Rows + 1)
    /\ ui \in UiPoints
    /\ curFrame \in 0..MaxFrames
    /\ uiRow \in 1..(Rows + 1)
    /\ m_renderedFrameNo \in -1..MaxFrames
    /\ texture \in [1..Rows -> Pixels]
    /\ textureSize \in Sizes
    /\ textureLost \in BOOLEAN
    /\ seenSize \in Sizes
    /\ seenBuffer \in Nat

\* After initialize(): a buffer nobody has written to, no frame counted, and
\* the counter different from the number rendered last (~0u).
Init ==
    /\ countUnderLock \in BOOLEAN
    /\ m_scrFrameNo = 0
    /\ m_texMutex = "free"
    /\ m_scrSize \in Sizes
    /\ buffer = 0
    /\ allocated = m_scrSize
    /\ content = Garbage(m_scrSize)
    /\ emu = "run" /\ emuFrame = [no |-> 0, size |-> m_scrSize] /\ emuRow = 1
    /\ ui = "main" /\ curFrame = 0 /\ uiRow = 1
    /\ m_renderedFrameNo = -1
    /\ textureSize \in Sizes /\ texture = Garbage(textureSize) /\ textureLost = FALSE
    /\ seenSize = m_scrSize /\ seenBuffer = 0

----------------------------------------------------------------------------
\* Emulator thread: unlockscr, copyVisibleArea.

\* Faulty: the buffer is written without the mutex.
EmuSkipsLock(s) ==
    /\ emu = "run"
    /\ m_scrFrameNo < MaxFrames
    /\ emuFrame' = [no |-> m_scrFrameNo + 1, size |-> s]
    /\ emu' = "check"
    /\ UNCHANGED <<countUnderLock, m_scrFrameNo, m_texMutex, m_scrSize, buffer,
                   allocated, content, emuRow, uiVars>>

\* A frame of some size is done.
EmuLock(s) ==
    /\ emu = "run"
    /\ m_texMutex = "free"
    /\ m_scrFrameNo < MaxFrames
    /\ m_texMutex' = "emu"
    /\ emuFrame' = [no |-> m_scrFrameNo + 1, size |-> s]
    /\ emu' = "check"
    /\ UNCHANGED <<countUnderLock, m_scrFrameNo, m_scrSize, buffer, allocated,
                   content, emuRow, uiVars>>

\* Another size than before: the buffer is freed ...
EmuCheckSize ==
    /\ emu = "check"
    /\ IF emuFrame.size = m_scrSize
       THEN emu' = "copy"  /\ UNCHANGED allocated
       ELSE emu' = "delete" /\ allocated' = "freed"
    /\ emuRow' = 1
    /\ UNCHANGED <<countUnderLock, m_scrFrameNo, m_texMutex, m_scrSize, buffer,
                   content, emuFrame, uiVars>>

\* ... the new size is stored ...
EmuSetSize ==
    /\ emu = "delete"
    /\ m_scrSize' = emuFrame.size
    /\ emu' = "allocate"
    /\ UNCHANGED <<countUnderLock, m_scrFrameNo, m_texMutex, buffer, allocated,
                   content, emuFrame, emuRow, uiVars>>

\* ... and a new buffer allocated, its contents undefined.
EmuAllocate ==
    /\ emu = "allocate"
    /\ buffer' = buffer + 1
    /\ allocated' = m_scrSize
    /\ content' = Garbage(m_scrSize)
    /\ emu' = "copy"
    /\ UNCHANGED <<countUnderLock, m_scrFrameNo, m_texMutex, m_scrSize, emuFrame,
                   emuRow, uiVars>>

EmuCopyRow ==
    /\ emu = "copy"
    /\ IF emuRow <= Rows
       THEN /\ content' = [content EXCEPT ![emuRow] = emuFrame]
            /\ emuRow' = emuRow + 1
            /\ UNCHANGED emu
       ELSE /\ emu' = IF countUnderLock THEN "count" ELSE "unlock"
            /\ UNCHANGED <<content, emuRow>>
    /\ UNCHANGED <<countUnderLock, m_scrFrameNo, m_texMutex, m_scrSize, buffer,
                   allocated, emuFrame, uiVars>>

EmuCount ==
    /\ emu = "count"
    /\ m_scrFrameNo' = emuFrame.no
    /\ emu' = IF countUnderLock THEN "unlock" ELSE "run"
    /\ UNCHANGED <<countUnderLock, m_texMutex, m_scrSize, buffer, allocated,
                   content, emuFrame, emuRow, uiVars>>

EmuUnlock ==
    /\ emu = "unlock"
    /\ m_texMutex' = "free"
    /\ emu' = IF countUnderLock THEN "run" ELSE "count"
    /\ UNCHANGED <<countUnderLock, m_scrFrameNo, m_scrSize, buffer, allocated,
                   content, emuFrame, emuRow, uiVars>>

EmuThread ==
    \/ EmuCheckSize \/ EmuSetSize \/ EmuAllocate \/ EmuCopyRow \/ EmuCount \/ EmuUnlock

----------------------------------------------------------------------------
\* UI thread, main window: renderAppPart.

\* Faulty: the comparison is with the frame after the one rendered.
UiLooksForNext ==
    /\ ui = "main"
    /\ curFrame' = m_scrFrameNo
    /\ ui' = IF m_scrFrameNo = m_renderedFrameNo + 1 THEN "lock" ELSE "debugger"
    /\ UNCHANGED <<countUnderLock, m_scrFrameNo, m_texMutex, emuVars, uiRow,
                   textureVars, seenSize, seenBuffer>>

\* Faulty: the number counts as rendered before the picture is there.
UiMarksAtOnce ==
    /\ ui = "main"
    /\ curFrame' = m_scrFrameNo
    /\ m_renderedFrameNo' = m_scrFrameNo
    /\ ui' = IF m_scrFrameNo # m_renderedFrameNo THEN "lock" ELSE "debugger"
    /\ UNCHANGED <<countUnderLock, m_scrFrameNo, m_texMutex, emuVars, uiRow,
                   texture, textureSize, textureLost, seenSize, seenBuffer>>

\* The number is read without the mutex.
UiLook ==
    /\ ui = "main"
    /\ curFrame' = m_scrFrameNo
    /\ ui' = IF m_scrFrameNo # m_renderedFrameNo THEN "lock" ELSE "debugger"
    /\ UNCHANGED <<countUnderLock, m_scrFrameNo, m_texMutex, emuVars, uiRow,
                   textureVars, seenSize, seenBuffer>>

\* lockDisplayTexBuf, and the number read before it is taken as rendered.
UiLock ==
    /\ ui = "lock"
    /\ m_texMutex = "free"
    /\ m_texMutex' = "ui"
    /\ m_renderedFrameNo' = curFrame
    /\ ui' = "upload"
    /\ UNCHANGED <<countUnderLock, m_scrFrameNo, emuVars, curFrame, uiRow, texture,
                   textureSize, textureLost, seenSize, seenBuffer>>

\* The texture is created anew when the size differs, and locked; on failure
\* there is no copy.
UiLockTexture ==
    /\ ui = "upload"
    /\ textureSize' = m_scrSize
    /\ \/ ui' = "copy"
          /\ textureLost' = FALSE
          /\ UNCHANGED m_texMutex
       \/ ui' = "debugger"
          /\ textureLost' = TRUE
          /\ m_texMutex' = "free"
    /\ texture' = IF textureSize' = textureSize THEN texture ELSE Garbage(m_scrSize)
    /\ uiRow' = 1
    /\ UNCHANGED <<countUnderLock, m_scrFrameNo, emuVars, curFrame,
                   m_renderedFrameNo, seenSize, seenBuffer>>

UiCopyRow ==
    /\ ui = "copy"
    /\ IF uiRow <= Rows
       THEN /\ texture' = [texture EXCEPT ![uiRow] = content[uiRow]]
            /\ uiRow' = uiRow + 1
            /\ UNCHANGED <<ui, m_texMutex>>
       ELSE /\ ui' = "debugger"
            /\ m_texMutex' = "free"
            /\ UNCHANGED <<texture, uiRow>>
    /\ UNCHANGED <<countUnderLock, m_scrFrameNo, emuVars, curFrame,
                   m_renderedFrameNo, textureSize, textureLost, seenSize,
                   seenBuffer>>

----------------------------------------------------------------------------
\* UI thread, debugger window: grabScreenToTexture and getScreenPixBuf.  The
\* window may be closed, or not due for a refresh.

DbgSkip ==
    /\ ui = "debugger"
    /\ ui' = "main"
    /\ UNCHANGED <<countUnderLock, m_scrFrameNo, m_texMutex, emuVars, curFrame,
                   uiRow, textureVars, seenSize, seenBuffer>>

DbgReadSize ==
    /\ ui = "debugger"
    /\ seenSize' = m_scrSize
    /\ ui' = "pointer"
    /\ UNCHANGED <<countUnderLock, m_scrFrameNo, m_texMutex, emuVars, curFrame,
                   uiRow, textureVars, seenBuffer>>

DbgReadPointer ==
    /\ ui = "pointer"
    /\ seenBuffer' = buffer
    /\ ui' = "read"
    /\ UNCHANGED <<countUnderLock, m_scrFrameNo, m_texMutex, emuVars, curFrame,
                   uiRow, textureVars, seenSize>>

\* The copy itself; its result is not kept here.
DbgRead ==
    /\ ui = "read"
    /\ ui' = "main"
    /\ UNCHANGED <<countUnderLock, m_scrFrameNo, m_texMutex, emuVars, curFrame,
                   uiRow, textureVars, seenSize, seenBuffer>>

UiThread ==
    \/ UiLook \/ UiLock \/ UiLockTexture \/ UiCopyRow
    \/ DbgSkip \/ DbgReadSize \/ DbgReadPointer \/ DbgRead

----------------------------------------------------------------------------
Next == (\E s \in Sizes : EmuLock(s)) \/ EmuThread \/ UiThread

Spec == Init /\ [][Next]_vars

\* Both threads go on, and the mutex does not starve the UI; the emulator
\* need not produce another frame.
FairSpec == Spec /\ WF_vars(EmuThread) /\ WF_vars(UiThread) /\ SF_vars(UiLock)

----------------------------------------------------------------------------
\* The two threads and the mutex are a register of whole pictures.  A frame
\* counts as published from the moment the emulator thread has the mutex for
\* it, for nobody can look any more; it counts as shown when the window has
\* locked its texture, for nothing can come between any more.
EmuWrites == emu \in {"check", "delete", "allocate", "copy"}

heldPicture ==
    IF EmuWrites
    THEN [size |-> emuFrame.size, rows |-> [r \in 1..Rows |-> emuFrame]]
    ELSE [size |-> m_scrSize, rows |-> content]

shownPicture ==
    IF ui = "copy"
    THEN [size |-> m_scrSize, rows |-> content]
    ELSE [size |-> textureSize, rows |-> texture]

Register == INSTANCE PictureRegister WITH held <- heldPicture, shown <- shownPicture

\* The main window shows the picture finished last when it looked, in its own
\* size: rows of two frames are never mixed, no picture is shown that was not
\* published, and none after a newer one.
ImplementsRegister == Register!Spec

\* What the main window shows is one frame in its own size: rows of two
\* frames are never mixed, whatever the two threads do meanwhile.
TextureIsOneFrame ==
    ui # "copy" =>
        /\ \A r \in 1..Rows : texture[r] = texture[1]
        /\ texture[1].size = textureSize

\* The number taken as rendered never runs ahead of the picture, so that an
\* equal counter means there is nothing newer to show.  It is read before the
\* mutex is taken; it could be ahead if a frame were counted before it can be
\* had, or a number taken for rendered before its picture.
NumberNotAhead ==
    ui \notin {"upload", "copy"} /\ ~textureLost /\ m_renderedFrameNo > 0 =>
        m_renderedFrameNo <= texture[1].no

\* Every counted frame is rendered, or a later one is.
FrameRendered ==
    \A n \in 1..MaxFrames : m_scrFrameNo = n ~> m_renderedFrameNo >= n

\* "a stable snapshot": the memory the debugger copies from is the buffer it
\* was given, not freed and of the size it was told.
DebuggerReadsLiveBuffer ==
    ui = "read" => seenBuffer = buffer /\ allocated = seenSize
=============================================================================
