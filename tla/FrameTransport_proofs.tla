------------------------ MODULE FrameTransport_proofs -----------------------
(***************************************************************************)
(* For any sizes, any number of rows and either back end, the main window  *)
(* shows whole frames and misses none.                                     *)
(***************************************************************************)
EXTENDS FrameTransport, TLAPS

\* Who is in the critical section holds the mutex, and only he.
EmuInside == emu \in {"check", "delete", "allocate", "copy", "unlock"}
                \/ (emu = "count" /\ countUnderLock)
UiInside  == ui \in {"upload", "copy"}

MutexInv ==
    /\ EmuInside <=> m_texMutex = "emu"
    /\ UiInside <=> m_texMutex = "ui"

\* All rows hold the same thing.
Uniform(picture) == \A r \in 1..Rows : picture[r] = picture[1]

\* The buffer: whole while the emulator thread is elsewhere, the frame in hand
\* up to the next row while it copies, and never older than the counter.
BufferInv ==
    /\ ~EmuInside => Uniform(content) /\ content[1].size = m_scrSize
    /\ ~EmuInside /\ m_scrFrameNo > 0 => content[1].no >= m_scrFrameNo
    /\ emu = "copy" => \A r \in 1..Rows : r < emuRow => content[r] = emuFrame
    /\ emu \in {"unlock", "count"} => \A r \in 1..Rows : content[r] = emuFrame
    /\ emu \in {"copy", "unlock", "count"} => emuFrame.size = m_scrSize
    /\ emu = "allocate" => emuFrame.size = m_scrSize
    /\ emu \in {"delete", "allocate"} => emuRow = 1

CounterInv ==
    /\ emu \in {"check", "delete", "allocate", "copy"} => emuFrame.no = m_scrFrameNo + 1
    /\ emu = "count" => emuFrame.no = m_scrFrameNo + 1
    /\ emu = "unlock" =>
         emuFrame.no = IF countUnderLock THEN m_scrFrameNo ELSE m_scrFrameNo + 1

\* The main window: the number it read and rendered is not ahead of the
\* counter, and the rows it copied are those of the buffer.
WindowInv ==
    /\ curFrame <= m_scrFrameNo /\ m_renderedFrameNo <= m_scrFrameNo
    /\ ui = "copy" =>
         /\ textureSize = m_scrSize
         /\ ~textureLost
         /\ \A r \in 1..Rows : r < uiRow => texture[r] = content[r]

Inv ==
    /\ TypeOK /\ MutexInv /\ BufferInv /\ CounterInv /\ WindowInv
    /\ TextureIsOneFrame /\ NumberNotAhead

LEMMA GarbageType == \A s \in Sizes : Garbage(s) \in [1..Rows -> Pixels]
BY FrameAssumption DEF Garbage, Pixels

LEMMA InitInv == Init => Inv
<1> SUFFICES ASSUME Init PROVE Inv
  OBVIOUS
<1> USE FrameAssumption DEF Init
<1>1. TypeOK
  <2>1. content \in [1..Rows -> Pixels] /\ texture \in [1..Rows -> Pixels]
    BY GarbageType
  <2>2. emuFrame \in [no : 0..MaxFrames, size : Sizes]
    OBVIOUS
  <2>3. m_renderedFrameNo \in -1..MaxFrames /\ curFrame \in 0..MaxFrames
    OBVIOUS
  <2>4. emuRow \in 1..(Rows + 1) /\ uiRow \in 1..(Rows + 1)
    OBVIOUS
  <2>5. textureLost \in BOOLEAN /\ countUnderLock \in BOOLEAN
    OBVIOUS
  <2>6. emu \in EmuPoints /\ ui \in UiPoints
    BY DEF EmuPoints, UiPoints
  <2>7. m_scrFrameNo \in 0..MaxFrames /\ buffer \in Nat /\ seenBuffer \in Nat
    OBVIOUS
  <2>8. /\ m_texMutex \in {"free", "emu", "ui"} /\ m_scrSize \in Sizes
        /\ allocated \in Sizes \cup {"freed"} /\ textureSize \in Sizes
        /\ seenSize \in Sizes
    OBVIOUS
  <2> QED
    BY <2>1, <2>2, <2>3, <2>4, <2>5, <2>6, <2>7, <2>8 DEF TypeOK
<1>2. MutexInv
  BY DEF MutexInv, EmuInside, UiInside
<1>3. BufferInv
  BY DEF BufferInv, EmuInside, Uniform, Garbage
<1>4. CounterInv /\ WindowInv
  BY DEF CounterInv, WindowInv
<1>5. TextureIsOneFrame /\ NumberNotAhead
  BY DEF TextureIsOneFrame, NumberNotAhead, Garbage
<1> QED
  BY <1>1, <1>2, <1>3, <1>4, <1>5 DEF Inv

LEMMA TypesNext == TypeOK /\ [Next]_vars => TypeOK'
<1> SUFFICES ASSUME TypeOK, [Next]_vars PROVE TypeOK'
  OBVIOUS
<1> USE FrameAssumption DEF TypeOK
<1>1. ASSUME NEW s \in Sizes, EmuLock(s) PROVE TypeOK'
  <2>1. emuFrame' \in [no : 0..MaxFrames, size : Sizes]
    BY <1>1 DEF EmuLock
  <2>2. QED
    BY <1>1, <2>1 DEF EmuLock, EmuPoints, uiVars, textureVars
<1>2. CASE EmuCheckSize
  BY <1>2 DEF EmuCheckSize, EmuPoints, uiVars, textureVars
<1>3. CASE EmuSetSize
  BY <1>3 DEF EmuSetSize, EmuPoints, uiVars, textureVars
<1>4. CASE EmuAllocate
  BY <1>4, GarbageType DEF EmuAllocate, EmuPoints, uiVars, textureVars
<1>5. CASE EmuCopyRow
  <2>1. emuFrame \in Pixels
    BY DEF Pixels
  <2>2. content' \in [1..Rows -> Pixels] /\ emuRow' \in 1..(Rows + 1)
    BY <1>5, <2>1 DEF EmuCopyRow
  <2>3. QED
    BY <1>5, <2>2 DEF EmuCopyRow, EmuPoints, uiVars, textureVars
<1>6. CASE EmuCount
  BY <1>6 DEF EmuCount, EmuPoints, uiVars, textureVars
<1>7. CASE EmuUnlock
  BY <1>7 DEF EmuUnlock, EmuPoints, uiVars, textureVars
<1>8. CASE UiLook
  BY <1>8 DEF UiLook, UiPoints, emuVars, textureVars
<1>9. CASE UiLock
  BY <1>9 DEF UiLock, UiPoints, emuVars
<1>10. CASE UiLockTexture
  <2>1. texture' \in [1..Rows -> Pixels]
    BY <1>10, GarbageType DEF UiLockTexture
  <2>2. ui' \in UiPoints /\ m_texMutex' \in {"free", "emu", "ui"}
    BY <1>10 DEF UiLockTexture, UiPoints
  <2>3. textureLost' \in BOOLEAN
    BY <1>10 DEF UiLockTexture
  <2>4. uiRow' \in 1..(Rows + 1) /\ textureSize' \in Sizes
    BY <1>10 DEF UiLockTexture
  <2> QED
    BY <1>10, <2>1, <2>2, <2>3, <2>4 DEF UiLockTexture, emuVars
<1>11. CASE UiCopyRow
  <2>1. texture' \in [1..Rows -> Pixels] /\ uiRow' \in 1..(Rows + 1)
    BY <1>11 DEF UiCopyRow
  <2>2. QED
    BY <1>11, <2>1 DEF UiCopyRow, UiPoints, emuVars
<1>12. CASE DbgSkip \/ DbgReadSize \/ DbgReadPointer \/ DbgRead
  BY <1>12 DEF DbgSkip, DbgReadSize, DbgReadPointer, DbgRead, UiPoints, emuVars,
               textureVars
<1>13. CASE UNCHANGED vars
  BY <1>13 DEF vars, emuVars, uiVars, textureVars
<1> QED
  BY <1>1, <1>2, <1>3, <1>4, <1>5, <1>6, <1>7, <1>8, <1>9, <1>10, <1>11, <1>12,
     <1>13 DEF Next, EmuThread, UiThread

LEMMA NextInv == Inv /\ [Next]_vars => Inv'
<1> SUFFICES ASSUME Inv, [Next]_vars PROVE Inv'
  OBVIOUS
<1> USE FrameAssumption DEF Inv
<1>0. TypeOK'
  BY TypesNext
<1>1. ASSUME NEW s \in Sizes, EmuLock(s) PROVE Inv'
  <2>1. MutexInv'
    BY <1>1 DEF EmuLock, uiVars, textureVars, TypeOK, MutexInv, EmuInside,
       UiInside
  <2>2. BufferInv'
    BY <1>1 DEF EmuLock, uiVars, textureVars, TypeOK, BufferInv, MutexInv,
       CounterInv, EmuInside, UiInside, Uniform
  <2>3. CounterInv'
    BY <1>1 DEF EmuLock, uiVars, textureVars, TypeOK, CounterInv, MutexInv,
       EmuInside
  <2>4. WindowInv'
    BY <1>1 DEF EmuLock, uiVars, textureVars, TypeOK, WindowInv, CounterInv,
       MutexInv, BufferInv, EmuInside, UiInside
  <2>5. TextureIsOneFrame' /\ NumberNotAhead'
    BY <1>1 DEF EmuLock, uiVars, textureVars, TextureIsOneFrame,
       NumberNotAhead
  <2> QED
    BY <1>0, <2>1, <2>2, <2>3, <2>4, <2>5
<1>2. CASE EmuCheckSize
  <2>1. MutexInv'
    BY <1>2 DEF EmuCheckSize, uiVars, textureVars, TypeOK, MutexInv,
       EmuInside, UiInside
  <2>2. BufferInv'
    BY <1>2 DEF EmuCheckSize, uiVars, textureVars, TypeOK, BufferInv,
       MutexInv, CounterInv, EmuInside, UiInside, Uniform
  <2>3. CounterInv'
    BY <1>2 DEF EmuCheckSize, uiVars, textureVars, TypeOK, CounterInv,
       MutexInv, EmuInside
  <2>4. WindowInv'
    BY <1>2 DEF EmuCheckSize, uiVars, textureVars, TypeOK, WindowInv,
       CounterInv, MutexInv, BufferInv, EmuInside, UiInside
  <2>5. TextureIsOneFrame' /\ NumberNotAhead'
    BY <1>2 DEF EmuCheckSize, uiVars, textureVars, TextureIsOneFrame,
       NumberNotAhead
  <2> QED
    BY <1>0, <2>1, <2>2, <2>3, <2>4, <2>5
<1>3. CASE EmuSetSize
  <2>1. MutexInv'
    BY <1>3 DEF EmuSetSize, uiVars, textureVars, TypeOK, MutexInv, EmuInside,
       UiInside
  <2>2. BufferInv'
    BY <1>3 DEF EmuSetSize, uiVars, textureVars, TypeOK, BufferInv, MutexInv,
       CounterInv, EmuInside, UiInside, Uniform
  <2>3. CounterInv'
    BY <1>3 DEF EmuSetSize, uiVars, textureVars, TypeOK, CounterInv, MutexInv,
       EmuInside
  <2>4. WindowInv'
    BY <1>3 DEF EmuSetSize, uiVars, textureVars, TypeOK, WindowInv,
       CounterInv, MutexInv, BufferInv, EmuInside, UiInside
  <2>5. TextureIsOneFrame' /\ NumberNotAhead'
    BY <1>3 DEF EmuSetSize, uiVars, textureVars, TextureIsOneFrame,
       NumberNotAhead
  <2> QED
    BY <1>0, <2>1, <2>2, <2>3, <2>4, <2>5
<1>4. CASE EmuAllocate
  <2>1. MutexInv'
    BY <1>4 DEF EmuAllocate, uiVars, textureVars, TypeOK, MutexInv, EmuInside,
       UiInside
  <2>2. BufferInv'
    <3>1. emu' = "copy" /\ emuRow' = emuRow
      BY <1>4 DEF EmuAllocate
    <3>2. emuRow = 1
      BY <1>4 DEF EmuAllocate, BufferInv
    <3> QED
      BY <1>4, <3>1, <3>2 DEF EmuAllocate, BufferInv, EmuInside, MutexInv, TypeOK
  <2>3. CounterInv'
    BY <1>4 DEF EmuAllocate, uiVars, textureVars, TypeOK, CounterInv,
       MutexInv, EmuInside
  <2>4. WindowInv'
    BY <1>4 DEF EmuAllocate, uiVars, textureVars, TypeOK, WindowInv,
       CounterInv, MutexInv, BufferInv, EmuInside, UiInside
  <2>5. TextureIsOneFrame' /\ NumberNotAhead'
    BY <1>4 DEF EmuAllocate, uiVars, textureVars, TextureIsOneFrame,
       NumberNotAhead
  <2> QED
    BY <1>0, <2>1, <2>2, <2>3, <2>4, <2>5
<1>5. CASE EmuCopyRow
  <2>1. MutexInv'
    BY <1>5 DEF EmuCopyRow, uiVars, textureVars, TypeOK, MutexInv, EmuInside,
       UiInside
  <2>2. BufferInv'
    BY <1>5 DEF EmuCopyRow, uiVars, textureVars, TypeOK, BufferInv, MutexInv,
       CounterInv, EmuInside, UiInside, Uniform
  <2>3. CounterInv'
    BY <1>5 DEF EmuCopyRow, uiVars, textureVars, TypeOK, CounterInv, MutexInv,
       EmuInside
  <2>4. WindowInv'
    BY <1>5 DEF EmuCopyRow, uiVars, textureVars, TypeOK, WindowInv,
       CounterInv, MutexInv, BufferInv, EmuInside, UiInside
  <2>5. TextureIsOneFrame' /\ NumberNotAhead'
    BY <1>5 DEF EmuCopyRow, uiVars, textureVars, TextureIsOneFrame,
       NumberNotAhead
  <2> QED
    BY <1>0, <2>1, <2>2, <2>3, <2>4, <2>5
<1>6. CASE EmuCount
  <2>1. MutexInv'
    BY <1>6 DEF EmuCount, uiVars, textureVars, TypeOK, MutexInv, EmuInside,
       UiInside
  <2>2. BufferInv'
    BY <1>6 DEF EmuCount, uiVars, textureVars, TypeOK, BufferInv, MutexInv,
       CounterInv, EmuInside, UiInside, Uniform
  <2>3. CounterInv'
    BY <1>6 DEF EmuCount, uiVars, textureVars, TypeOK, CounterInv, MutexInv,
       EmuInside
  <2>4. WindowInv'
    BY <1>6 DEF EmuCount, uiVars, textureVars, TypeOK, WindowInv, CounterInv,
       MutexInv, BufferInv, EmuInside, UiInside
  <2>5. TextureIsOneFrame' /\ NumberNotAhead'
    BY <1>6 DEF EmuCount, uiVars, textureVars, TextureIsOneFrame,
       NumberNotAhead
  <2> QED
    BY <1>0, <2>1, <2>2, <2>3, <2>4, <2>5
<1>7. CASE EmuUnlock
  <2>1. MutexInv'
    BY <1>7 DEF EmuUnlock, uiVars, textureVars, TypeOK, MutexInv, EmuInside,
       UiInside
  <2>2. BufferInv'
    BY <1>7 DEF EmuUnlock, uiVars, textureVars, TypeOK, BufferInv, MutexInv,
       CounterInv, EmuInside, UiInside, Uniform
  <2>3. CounterInv'
    BY <1>7 DEF EmuUnlock, uiVars, textureVars, TypeOK, CounterInv, MutexInv,
       EmuInside
  <2>4. WindowInv'
    BY <1>7 DEF EmuUnlock, uiVars, textureVars, TypeOK, WindowInv, CounterInv,
       MutexInv, BufferInv, EmuInside, UiInside
  <2>5. TextureIsOneFrame' /\ NumberNotAhead'
    BY <1>7 DEF EmuUnlock, uiVars, textureVars, TextureIsOneFrame,
       NumberNotAhead
  <2> QED
    BY <1>0, <2>1, <2>2, <2>3, <2>4, <2>5
<1>8. CASE UiLook
  <2>1. MutexInv'
    BY <1>8 DEF UiLook, emuVars, TypeOK, MutexInv, EmuInside, UiInside
  <2>2. BufferInv' /\ CounterInv'
    BY <1>8 DEF UiLook, emuVars, BufferInv, CounterInv, EmuInside, Uniform
  <2>3. WindowInv'
    BY <1>8 DEF UiLook, emuVars, textureVars, TypeOK, WindowInv
  <2>4. TextureIsOneFrame'
    BY <1>8 DEF UiLook, emuVars, textureVars, TextureIsOneFrame
  <2>5. NumberNotAhead'
    BY <1>8 DEF UiLook, emuVars, textureVars, NumberNotAhead
  <2> QED
    BY <1>0, <2>1, <2>2, <2>3, <2>4, <2>5
<1>9. CASE UiLock
  <2>1. MutexInv'
    BY <1>9 DEF UiLock, emuVars, TypeOK, MutexInv, EmuInside, UiInside
  <2>2. BufferInv' /\ CounterInv'
    BY <1>9 DEF UiLock, emuVars, BufferInv, CounterInv, EmuInside, Uniform
  <2>3. WindowInv'
    BY <1>9 DEF UiLock, emuVars, textureVars, TypeOK, WindowInv
  <2>4. TextureIsOneFrame'
    BY <1>9 DEF UiLock, emuVars, textureVars, TextureIsOneFrame
  <2>5. NumberNotAhead'
    BY <1>9 DEF UiLock, emuVars, textureVars, NumberNotAhead
  <2> QED
    BY <1>0, <2>1, <2>2, <2>3, <2>4, <2>5
<1>10. CASE UiLockTexture
  <2>1. MutexInv'
    BY <1>10 DEF UiLockTexture, emuVars, TypeOK, MutexInv, EmuInside, UiInside
  <2>2. BufferInv' /\ CounterInv'
    BY <1>10 DEF UiLockTexture, emuVars, BufferInv, CounterInv, EmuInside,
       Uniform
  <2>3. WindowInv'
    BY <1>10 DEF UiLockTexture, emuVars, textureVars, TypeOK, WindowInv
  <2>4. TextureIsOneFrame'
    <3>1. CASE ui' = "copy"
      BY <3>1 DEF TextureIsOneFrame
    <3>2. CASE ui' = "debugger" /\ textureSize' = textureSize
      BY <1>10, <3>2 DEF UiLockTexture, TextureIsOneFrame
    <3>3. CASE ui' = "debugger" /\ textureSize' # textureSize
      <4>1. texture' = Garbage(textureSize')
        BY <1>10, <3>3 DEF UiLockTexture
      <4> QED
        BY <4>1 DEF Garbage, TextureIsOneFrame
    <3> QED
      BY <1>10, <3>1, <3>2, <3>3 DEF UiLockTexture
  <2>5. NumberNotAhead'
    BY <1>10 DEF UiLockTexture, emuVars, textureVars, NumberNotAhead
  <2> QED
    BY <1>0, <2>1, <2>2, <2>3, <2>4, <2>5
<1>11. CASE UiCopyRow
  <2>1. MutexInv'
    BY <1>11 DEF UiCopyRow, emuVars, TypeOK, MutexInv, EmuInside, UiInside
  <2>2. BufferInv' /\ CounterInv'
    BY <1>11 DEF UiCopyRow, emuVars, BufferInv, CounterInv, EmuInside, Uniform
  <2>3. WindowInv'
    BY <1>11 DEF UiCopyRow, emuVars, textureVars, TypeOK, WindowInv
  <2>4. TextureIsOneFrame'
    <3>1. CASE uiRow <= Rows
      BY <1>11, <3>1 DEF UiCopyRow, TextureIsOneFrame
    <3>2. CASE uiRow = Rows + 1
      <4>1. \A r \in 1..Rows : texture'[r] = content[r]
        BY <1>11, <3>2 DEF UiCopyRow, WindowInv, TypeOK
      <4>2. /\ Uniform(content) /\ content[1].size = m_scrSize
            /\ textureSize = m_scrSize
        BY <1>11 DEF UiCopyRow, WindowInv, BufferInv, MutexInv, UiInside
      <4> QED
        BY <1>11, <4>1, <4>2 DEF UiCopyRow, TextureIsOneFrame, Uniform
    <3> QED
      BY <3>1, <3>2 DEF TypeOK
  <2>5. NumberNotAhead'
    <3>1. CASE uiRow <= Rows
      BY <1>11, <3>1 DEF UiCopyRow, NumberNotAhead
    <3>2. CASE uiRow = Rows + 1
      <4>1. texture'[1] = content[1]
        BY <1>11, <3>2 DEF UiCopyRow, WindowInv, TypeOK
      <4>2. m_scrFrameNo > 0 => content[1].no >= m_scrFrameNo
        BY <1>11 DEF UiCopyRow, BufferInv, MutexInv, UiInside
      <4>3. m_renderedFrameNo' <= m_scrFrameNo
        BY <1>11 DEF UiCopyRow, WindowInv
      <4>4. content[1].no \in -1..MaxFrames
        BY DEF TypeOK, Pixels
      <4> QED
        BY <1>11, <4>1, <4>2, <4>3, <4>4 DEF UiCopyRow, NumberNotAhead, TypeOK
    <3> QED
      BY <3>1, <3>2 DEF TypeOK
  <2> QED
    BY <1>0, <2>1, <2>2, <2>3, <2>4, <2>5
<1>12. CASE DbgSkip \/ DbgReadSize \/ DbgReadPointer \/ DbgRead
  BY <1>12, <1>0 DEF DbgSkip, DbgReadSize, DbgReadPointer, DbgRead, emuVars,
     textureVars, MutexInv, BufferInv, CounterInv, WindowInv, EmuInside,
     UiInside, Uniform, TextureIsOneFrame, NumberNotAhead
<1>13. CASE UNCHANGED vars
  BY <1>13, <1>0 DEF vars, uiVars, emuVars, textureVars, MutexInv, BufferInv,
     CounterInv, WindowInv, EmuInside, UiInside, Uniform, TextureIsOneFrame,
     NumberNotAhead
<1> QED
  BY <1>1, <1>2, <1>3, <1>4, <1>5, <1>6, <1>7, <1>8, <1>9, <1>10, <1>11,
     <1>12, <1>13 DEF Next, EmuThread, UiThread

\* The strengthened invariant is one of the specification.
THEOREM Invariance == Spec => []Inv
<1>1. Init => Inv
  BY InitInv
<1>2. Inv /\ [Next]_vars => Inv'
  BY NextInv
<1> QED
  BY <1>1, <1>2, PTL DEF Spec

\* Type correctness: in particular no index leaves the picture.
THEOREM TypeCorrect == Spec => []TypeOK
<1>1. Inv => TypeOK
  BY DEF Inv
<1> QED
  BY <1>1, Invariance, PTL

\* The main window never shows rows of two frames, nor a frame in another's
\* size: what renderAppPart copies under the mutex is one finished picture.
THEOREM WholeFrames == Spec => []TextureIsOneFrame
<1>1. Inv => TextureIsOneFrame
  BY DEF Inv
<1> QED
  BY <1>1, Invariance, PTL

\* A frame number read without the mutex is safe to remember as rendered, in
\* either back end's order of counting and unlocking.
THEOREM NothingMissed == Spec => []NumberNotAhead
<1>1. Inv => NumberNotAhead
  BY DEF Inv
<1> QED
  BY <1>1, Invariance, PTL

----------------------------------------------------------------------------
(* The refinement of PictureRegister.  Two facts about the numbers carry   *)
(* the step that publishes: outside the critical section the buffer holds  *)
(* the frame counted last, or none yet.                                    *)

LastInv ==
    /\ emu = "run" => content[1].no = IF m_scrFrameNo = 0 THEN -1 ELSE m_scrFrameNo
    /\ emu \in {"unlock", "count"} => emuFrame.no >= 1

LEMMA LastInit == Init => LastInv
BY FrameAssumption DEF Init, LastInv, Garbage

LEMMA LastNext == Inv /\ LastInv /\ [Next]_vars => LastInv'
<1> SUFFICES ASSUME Inv, LastInv, [Next]_vars PROVE LastInv'
  OBVIOUS
<1> USE FrameAssumption DEF LastInv
<1>1. CASE EmuCopyRow
  <2>1. emuFrame' = emuFrame /\ emuFrame.no \in Nat
    BY <1>1 DEF EmuCopyRow, Inv, TypeOK
  <2>2. emuFrame.no = m_scrFrameNo + 1 /\ m_scrFrameNo \in Nat
    BY <1>1 DEF EmuCopyRow, Inv, TypeOK, CounterInv
  <2>3. emu' # "run"
    BY <1>1 DEF EmuCopyRow
  <2> QED
    BY <2>1, <2>2, <2>3
<1>2. CASE EmuCount \/ EmuUnlock
  <2>1. content' = content /\ emuFrame' = emuFrame /\ content[1] = emuFrame /\ emuFrame.no >= 1
    BY <1>2 DEF EmuCount, EmuUnlock, Inv, BufferInv
  <2>2. emuFrame.no \in Nat /\ m_scrFrameNo \in Nat
    BY DEF Inv, TypeOK
  <2>3. emu' = "run" => m_scrFrameNo' = emuFrame.no
    BY <1>2 DEF EmuCount, EmuUnlock, Inv, CounterInv
  <2> QED
    BY <2>1, <2>2, <2>3
<1>3. CASE (\E s \in Sizes : EmuLock(s)) \/ EmuCheckSize \/ EmuSetSize \/ EmuAllocate
  <2>1. emu' \in {"check", "copy", "delete", "allocate"}
    BY <1>3 DEF EmuLock, EmuCheckSize, EmuSetSize, EmuAllocate
  <2> QED
    BY <2>1
<1>4. CASE UiThread \/ UNCHANGED vars
  <2>1. UNCHANGED <<emu, content, m_scrFrameNo, emuFrame>>
    BY <1>4 DEF UiThread, UiLook, UiLock, UiLockTexture, UiCopyRow, DbgSkip, DbgReadSize,
                DbgReadPointer, DbgRead, vars, emuVars
  <2> QED
    BY <2>1
<1> QED
  BY <1>1, <1>2, <1>3, <1>4 DEF Next, EmuThread

\* Taking the mutex publishes the frame that is about to be copied.
LEMMA LockPublishes ==
  ASSUME Inv, LastInv, NEW s \in Sizes, EmuLock(s)
  PROVE  Register!Publish(s)
<1> USE DEF Inv, TypeOK
<1>1. ui # "copy" /\ ui' # "copy"
  BY DEF EmuLock, MutexInv, UiInside, uiVars
<1>2. shownPicture' = shownPicture
  BY <1>1 DEF EmuLock, shownPicture, uiVars, textureVars
<1>3. heldPicture = [size |-> m_scrSize, rows |-> content]
  BY DEF EmuLock, heldPicture, EmuWrites
<1>4. Register!Number(heldPicture) = IF m_scrFrameNo = 0 THEN -1 ELSE m_scrFrameNo
  BY <1>3 DEF EmuLock, LastInv, Register!Number
<1>5. emuFrame' = [no |-> m_scrFrameNo + 1, size |-> s] /\ emu' = "check"
  BY DEF EmuLock
<1>6. heldPicture' = Register!Picture(m_scrFrameNo + 1, s)
  BY <1>5 DEF heldPicture, EmuWrites, Register!Picture
<1>7. m_scrFrameNo + 1 = IF Register!Number(heldPicture) = -1 THEN 1
                         ELSE Register!Number(heldPicture) + 1
  <2>1. CASE m_scrFrameNo = 0
    BY <1>4, <2>1
  <2>2. CASE m_scrFrameNo # 0
    <3>1. Register!Number(heldPicture) = m_scrFrameNo /\ m_scrFrameNo # -1
      BY <1>4, <2>2
    <3> QED
      BY <3>1
  <2> QED
    BY <2>1, <2>2
<1> QED
  BY <1>2, <1>6, <1>7 DEF Register!Publish

\* The emulator thread's other steps change neither picture.
LEMMA CopyingStutters ==
  ASSUME Inv, EmuThread
  PROVE  UNCHANGED <<heldPicture, shownPicture>>
<1> USE DEF Inv
<1>1. CASE EmuCount \/ EmuUnlock
  <2>1. UNCHANGED <<m_scrSize, content, ui, texture, textureSize>> /\ ~EmuWrites /\ ~EmuWrites'
    BY <1>1 DEF EmuCount, EmuUnlock, uiVars, textureVars, EmuWrites
  <2> QED
    BY <2>1 DEF heldPicture, shownPicture
<1>2. CASE EmuCheckSize \/ EmuSetSize \/ EmuAllocate \/ EmuCopyRow
  <2>1. ui # "copy" /\ UNCHANGED <<ui, texture, textureSize, emuFrame>> /\ EmuWrites
    BY <1>2 DEF EmuCheckSize, EmuSetSize, EmuAllocate, EmuCopyRow, MutexInv, EmuInside, UiInside,
                uiVars, textureVars, EmuWrites
  <2>2. shownPicture' = shownPicture
    BY <2>1 DEF shownPicture
  <2>3. CASE EmuWrites'
    BY <2>1, <2>2, <2>3 DEF heldPicture
  <2>4. CASE ~EmuWrites'
    <3>1. EmuCopyRow /\ emuRow = Rows + 1 /\ UNCHANGED <<content, m_scrSize>>
      BY <1>2, <2>4, FrameAssumption
         DEF EmuCheckSize, EmuSetSize, EmuAllocate, EmuCopyRow, EmuWrites, TypeOK
    <3>2. \A r \in 1..Rows : content[r] = emuFrame
      BY <3>1, FrameAssumption DEF EmuCopyRow, BufferInv
    <3>3. content = [r \in 1..Rows |-> emuFrame] /\ emuFrame.size = m_scrSize
      BY <3>1, <3>2 DEF EmuCopyRow, BufferInv, TypeOK
    <3>4. heldPicture = [size |-> emuFrame.size, rows |-> [r \in 1..Rows |-> emuFrame]]
      BY <2>1 DEF heldPicture
    <3>5. heldPicture' = [size |-> m_scrSize, rows |-> content]
      BY <2>4, <3>1 DEF heldPicture
    <3> QED
      BY <2>2, <3>3, <3>4, <3>5
  <2> QED
    BY <2>3, <2>4
<1> QED
  BY <1>1, <1>2 DEF EmuThread

\* Locking the texture shows the picture, or loses the one that was there;
\* the rest of the window's work changes neither.
LEMMA WindowShows ==
  ASSUME Inv, UiThread
  PROVE  [Register!Next]_<<heldPicture, shownPicture>>
<1> USE DEF Inv
<1>1. UNCHANGED <<emu, emuFrame, content, m_scrSize>> /\ heldPicture' = heldPicture
  BY DEF UiThread, UiLook, UiLock, UiLockTexture, UiCopyRow, DbgSkip, DbgReadSize, DbgReadPointer,
         DbgRead, emuVars, heldPicture, EmuWrites
<1>2. CASE UiLockTexture
  <2>1. CASE ui' = "copy"
    <3>1. ~EmuWrites
      BY <1>2 DEF UiLockTexture, MutexInv, EmuInside, UiInside, EmuWrites
    <3>2. shownPicture' = heldPicture
      BY <1>1, <2>1, <3>1 DEF shownPicture, heldPicture
    <3> QED
      BY <1>1, <3>2 DEF Register!Next, Register!Show
  <2>2. CASE ui' = "debugger"
    <3>1. shownPicture = [size |-> textureSize, rows |-> texture]
      BY <1>2 DEF UiLockTexture, shownPicture
    <3>2. shownPicture' = [size |-> textureSize', rows |-> texture']
      BY <2>2 DEF shownPicture
    <3>3. CASE textureSize' = textureSize
      <4>1. texture' = texture
        BY <1>2, <3>3 DEF UiLockTexture
      <4> QED
        BY <1>1, <3>1, <3>2, <3>3, <4>1
    <3>4. CASE textureSize' # textureSize
      <4>1. textureSize' = m_scrSize /\ texture' = Garbage(m_scrSize) /\ m_scrSize \in Sizes
        BY <1>2, <3>4 DEF UiLockTexture, TypeOK
      <4>2. shownPicture' = Register!Blank(m_scrSize)
        BY <3>2, <4>1 DEF Garbage, Register!Blank, Register!Picture
      <4> QED
        BY <1>1, <4>1, <4>2 DEF Register!Next, Register!Lose
    <3> QED
      BY <3>3, <3>4
  <2> QED
    BY <1>2, <2>1, <2>2 DEF UiLockTexture
<1>3. CASE UiCopyRow
  <2>1. CASE ui' = "copy"
    <3>1. ui = "copy"
      BY <1>3 DEF UiCopyRow
    <3> QED
      BY <1>1, <2>1, <3>1 DEF shownPicture
  <2>2. CASE ui' # "copy"
    <3>1. ui = "copy" /\ uiRow = Rows + 1 /\ UNCHANGED <<texture, textureSize>>
      BY <1>3, <2>2, FrameAssumption DEF UiCopyRow, TypeOK
    <3>2. \A r \in 1..Rows : texture[r] = content[r]
      BY <3>1, FrameAssumption DEF WindowInv
    <3>3. texture \in [1..Rows -> Pixels] /\ content \in [1..Rows -> Pixels]
      BY DEF TypeOK
    <3>4. texture = content
      <4>1. /\ texture = [r \in 1..Rows |-> texture[r]]
            /\ content = [r \in 1..Rows |-> content[r]]
        BY <3>3
      <4>2. [r \in 1..Rows |-> texture[r]] = [r \in 1..Rows |-> content[r]]
        BY <3>2
      <4> QED
        BY <4>1, <4>2, Zenon
    <3>5. textureSize = m_scrSize
      BY <3>1 DEF WindowInv
    <3> QED
      BY <1>1, <2>2, <3>1, <3>4, <3>5 DEF shownPicture
  <2> QED
    BY <2>1, <2>2
<1>4. CASE UiLook \/ UiLock \/ DbgSkip \/ DbgReadSize \/ DbgReadPointer \/ DbgRead
  <2>1. ui # "copy" /\ ui' # "copy" /\ UNCHANGED <<texture, textureSize>>
    BY <1>4 DEF UiLook, UiLock, DbgSkip, DbgReadSize, DbgReadPointer, DbgRead, textureVars
  <2> QED
    BY <1>1, <2>1 DEF shownPicture
<1> QED
  BY <1>2, <1>3, <1>4 DEF UiThread

LEMMA RegisterInit == Init => Register!Init
<1> SUFFICES ASSUME Init PROVE Register!Init
  OBVIOUS
<1>1. heldPicture = Register!Blank(m_scrSize) /\ m_scrSize \in Sizes
  BY DEF Init, heldPicture, EmuWrites, Garbage, Register!Blank, Register!Picture
<1>2. shownPicture = Register!Blank(textureSize) /\ textureSize \in Sizes
  BY DEF Init, shownPicture, Garbage, Register!Blank, Register!Picture
<1> QED
  BY <1>1, <1>2 DEF Register!Init

LEMMA RegisterStep == Inv /\ LastInv /\ [Next]_vars => [Register!Next]_(Register!rvars)
<1> SUFFICES ASSUME Inv, LastInv, [Next]_vars
             PROVE  [Register!Next]_<<heldPicture, shownPicture>>
  BY DEF Register!rvars
<1>1. CASE \E s \in Sizes : EmuLock(s)
  BY <1>1, LockPublishes DEF Register!Next
<1>2. CASE EmuThread
  BY <1>2, CopyingStutters
<1>3. CASE UiThread
  BY <1>3, WindowShows
<1>4. CASE UNCHANGED vars
  BY <1>4 DEF vars, uiVars, emuVars, textureVars, heldPicture, shownPicture, EmuWrites
<1> QED
  BY <1>1, <1>2, <1>3, <1>4 DEF Next

\* The emulator thread, the window and the mutex between them implement a
\* register of whole pictures, for every number of rows and either back end.
THEOREM TransportIsRegister == Spec => ImplementsRegister
<1>1. Init => LastInv /\ Register!Init
  BY LastInit, RegisterInit
<1>2. Inv /\ LastInv /\ [Next]_vars => LastInv' /\ [Register!Next]_(Register!rvars)
  BY LastNext, RegisterStep
<1> QED
  BY <1>1, <1>2, Invariance, PTL DEF Spec, ImplementsRegister, Register!Spec


\* The window is never ahead of the pictures that were published.
ShownNotAhead == Register!Number(shownPicture) <= Register!Number(heldPicture)

LEMMA NumbersTyped ==
  ASSUME Inv
  PROVE  /\ Register!Number(heldPicture) \in -1..MaxFrames
         /\ Register!Number(shownPicture) \in -1..MaxFrames
<1> USE FrameAssumption
<1>1. content[1].no \in -1..MaxFrames /\ texture[1].no \in -1..MaxFrames
  BY DEF Inv, TypeOK, Pixels
<1>2. emuFrame.no \in -1..MaxFrames
  BY DEF Inv, TypeOK
<1>3. \/ Register!Number(heldPicture) = emuFrame.no
      \/ Register!Number(heldPicture) = content[1].no
  BY DEF heldPicture, Register!Number
<1>4. \/ Register!Number(shownPicture) = content[1].no
      \/ Register!Number(shownPicture) = texture[1].no
  BY DEF shownPicture, Register!Number
<1> QED
  BY <1>1, <1>2, <1>3, <1>4

LEMMA InOrder ==
  ASSUME Inv, ShownNotAhead, [Register!Next]_(Register!rvars)
  PROVE  /\ ShownNotAhead'
         /\ \/ Register!Number(shownPicture)' >= Register!Number(shownPicture)
            \/ Register!Number(shownPicture)' = -1
<1> DEFINE h == Register!Number(heldPicture)
           n == Register!Number(shownPicture)
<1>1. h \in Int /\ n \in Int /\ -1 <= h /\ -1 <= n /\ n <= h
  BY FrameAssumption, NumbersTyped DEF ShownNotAhead
<1>2. CASE Register!Show
  <2>1. h' = h /\ n' = h
    BY <1>2 DEF Register!Show, Register!Number
  <2> HIDE DEF h, n
  <2> QED
    BY <1>1, <2>1 DEF ShownNotAhead, h, n
<1>3. ASSUME NEW s \in Sizes, Register!Publish(s)
      PROVE  n' = n /\ h' = IF h = -1 THEN 1 ELSE h + 1
  BY <1>3, FrameAssumption DEF Register!Publish, Register!Number, Register!Picture
<1>4. ASSUME NEW s \in Sizes, Register!Lose(s) PROVE h' = h /\ n' = -1
  BY <1>4, FrameAssumption DEF Register!Lose, Register!Blank, Register!Number, Register!Picture
<1>5. CASE UNCHANGED Register!rvars
  <2>1. h' = h /\ n' = n
    BY <1>5 DEF Register!rvars, Register!Number
  <2> QED
    BY <1>1, <2>1 DEF ShownNotAhead
<1>6. CASE \E s \in Sizes : Register!Publish(s)
  <2>1. n' = n /\ h' = IF h = -1 THEN 1 ELSE h + 1
    BY <1>3, <1>6
  <2> HIDE DEF h, n
  <2>2. n' <= h' /\ n' >= n
    BY <1>1, <2>1
  <2> QED
    BY <2>2 DEF ShownNotAhead, h, n
<1>7. CASE \E s \in Sizes : Register!Lose(s)
  <2>1. h' = h /\ n' = -1
    BY <1>4, <1>7
  <2> QED
    BY <1>1, <2>1 DEF ShownNotAhead
<1> QED
  BY <1>2, <1>5, <1>6, <1>7 DEF Register!Next

\* The main window never goes back to an older picture, although number and
\* picture are read at different times.
THEOREM WindowNeverOlder == Spec => Register!NeverOlder
<1>1. Inv /\ Register!Init => ShownNotAhead
  BY FrameAssumption DEF Register!Init, Register!Blank, Register!Picture, Register!Number,
                         ShownNotAhead
<1>2. Inv /\ ShownNotAhead /\ [Register!Next]_(Register!rvars)
      => /\ ShownNotAhead'
         /\ [\/ Register!Number(shownPicture') >= Register!Number(shownPicture)
             \/ Register!Number(shownPicture') = -1]_(Register!rvars)
  BY InOrder DEF Register!Number
<1> QED
  BY <1>1, <1>2, Invariance, TransportIsRegister, PTL
     DEF ImplementsRegister, Register!Spec, Register!NeverOlder

----------------------------------------------------------------------------
(* The way of a counted frame into the main window: what FrameRendered     *)
(* rests on, apart from the UI thread going on.                            *)

\* Frame n is counted, and neither it nor a later one is taken as rendered.
Owed(n) == m_renderedFrameNo < n /\ n <= m_scrFrameNo

\* How many points the UI thread is away from taking it as rendered.
Way(n) ==
    CASE ui = "lock" /\ curFrame >= n -> 0
      [] ui = "main"                  -> 1
      [] ui = "read"                  -> 2
      [] ui = "pointer"               -> 3
      [] ui = "debugger"              -> 4
      [] ui = "copy"                  -> 5
      [] ui = "upload"                -> 6
      [] OTHER                        -> 7

ComesNearer ==
    \A n \in Nat :
        Owed(n) => \/ m_renderedFrameNo' >= n
                   \/ Owed(n)' /\ Way(n)' <= Way(n) /\ (ui' # ui => Way(n)' < Way(n))

LEMMA NextComesNearer ==
    ASSUME Inv, [Next]_vars
    PROVE  ComesNearer
<1> SUFFICES ASSUME NEW n \in Nat, Owed(n), ~(m_renderedFrameNo' >= n)
             PROVE  Owed(n)' /\ Way(n)' <= Way(n) /\ (ui' # ui => Way(n)' < Way(n))
  BY DEF ComesNearer
<1>1. /\ m_renderedFrameNo \in Int /\ m_scrFrameNo \in Nat /\ curFrame \in Nat
      /\ m_renderedFrameNo' \in Int /\ m_scrFrameNo' \in Nat
  BY TypesNext, FrameAssumption DEF Inv, TypeOK
<1>2. m_scrFrameNo' >= m_scrFrameNo
  <2>1. CASE EmuCount
    BY <1>1, <2>1 DEF EmuCount, Inv, CounterInv
  <2>2. CASE ~EmuCount
    <3>1. m_scrFrameNo' = m_scrFrameNo
      BY <2>2 DEF Next, EmuLock, EmuThread, EmuCheckSize, EmuSetSize, EmuAllocate,
         EmuCopyRow, EmuUnlock, UiThread, UiLook, UiLock, UiLockTexture, UiCopyRow,
         DbgSkip, DbgReadSize, DbgReadPointer, DbgRead, vars
    <3> QED
      BY <1>1, <3>1
  <2> QED
    BY <2>1, <2>2
<1>3. Owed(n)'
  BY <1>1, <1>2 DEF Owed
<1>4. CASE (\E s \in Sizes : EmuLock(s)) \/ EmuThread \/ UNCHANGED vars
  <2>1. ui' = ui /\ curFrame' = curFrame
    BY <1>4 DEF EmuLock, EmuThread, EmuCheckSize, EmuSetSize, EmuAllocate, EmuCopyRow,
       EmuCount, EmuUnlock, vars, uiVars
  <2> QED
    BY <1>3, <2>1 DEF Way
<1>5. CASE UiThread
  BY <1>1, <1>3, <1>5 DEF UiThread, UiLook, UiLock, UiLockTexture, UiCopyRow, DbgSkip,
     DbgReadSize, DbgReadPointer, DbgRead, Way, Owed
<1> QED
  BY <1>4, <1>5 DEF Next

\* No frame is forgotten: once counted, it or a later one is taken as rendered
\* within one round of the UI thread, and no step of the emulator thread throws
\* the UI back, however fast it counts (the unlocked comparison of the numbers
\* cannot be fooled).
THEOREM CountedFrameComesNearer == Spec => [][ComesNearer]_vars
<1>1. Inv /\ [Next]_vars => [ComesNearer]_vars
  BY NextComesNearer
<1> QED
  BY <1>1, Invariance, PTL DEF Spec

----------------------------------------------------------------------------
(* What the preview of the debugger, which takes no mutex, depends on.     *)

\* All pictures have one size.
OneSize == \A s, t \in Sizes : s = t

\* The buffer is never given up, so what was read of it stays true.
NeverReplaced ==
    /\ emu \notin {"delete", "allocate"}
    /\ allocated = m_scrSize
    /\ ui \in {"pointer", "read"} => seenSize = m_scrSize
    /\ ui = "read" => seenBuffer = buffer

LEMMA ReplacedStep ==
    ASSUME OneSize, TypeOK, TypeOK', NeverReplaced, [Next]_vars
    PROVE  NeverReplaced'
<1> USE DEF NeverReplaced
<1>1. UNCHANGED <<buffer, allocated, m_scrSize>> /\ emu' \notin {"delete", "allocate"}
  <2>1. emuFrame.size = m_scrSize
    BY DEF OneSize, TypeOK
  <2> QED
    BY <2>1 DEF Next, EmuLock, EmuThread, EmuCheckSize, EmuSetSize, EmuAllocate, EmuCopyRow,
       EmuCount, EmuUnlock, UiThread, UiLook, UiLock, UiLockTexture, UiCopyRow, DbgSkip,
       DbgReadSize, DbgReadPointer, DbgRead, emuVars, vars
<1>2. CASE (\E s \in Sizes : EmuLock(s)) \/ EmuThread \/ UNCHANGED vars
  BY <1>1, <1>2 DEF EmuLock, EmuThread, EmuCheckSize, EmuSetSize, EmuAllocate, EmuCopyRow,
     EmuCount, EmuUnlock, vars, uiVars
<1>3. CASE UiThread
  BY <1>1, <1>3 DEF UiThread, UiLook, UiLock, UiLockTexture, UiCopyRow, DbgSkip, DbgReadSize,
     DbgReadPointer, DbgRead
<1> QED
  BY <1>2, <1>3 DEF Next

\* As long as the size of the picture does not change, the debugger's preview
\* copies from a live buffer of the size it read, although it takes no mutex:
\* the new allocation on a change of size is the only thing that takes the
\* buffer away under it.
THEOREM OneSizeKeepsPreview ==
    ASSUME OneSize
    PROVE  Spec => []DebuggerReadsLiveBuffer
<1>1. Init => NeverReplaced
  BY DEF Init, NeverReplaced
<1>2. TypeOK /\ TypeOK' /\ NeverReplaced /\ [Next]_vars => NeverReplaced'
  BY ReplacedStep
<1>3. NeverReplaced => DebuggerReadsLiveBuffer
  BY DEF NeverReplaced, DebuggerReadsLiveBuffer
<1> QED
  BY <1>1, <1>2, <1>3, TypeCorrect, PTL DEF Spec

----------------------------------------------------------------------------
(* And the UI thread does go on: every counted frame is rendered.  Two     *)
(* things are hypotheses: that the guards of the actions under fairness    *)
(* suffice for a step (ENABLED has no rules here), and that the copy of    *)
(* the rows ends (it takes an induction on their number).                  *)

GuardsSuffice ==
    /\ EmuInside => ENABLED <<EmuThread>>_vars
    /\ ui # "lock" => ENABLED <<UiThread>>_vars
    /\ ui = "lock" /\ m_texMutex = "free" => ENABLED <<UiLock>>_vars

EmuCopies == emu = "copy"
UiCopies == ui = "copy"
RowsEnd == (EmuCopies ~> ~EmuCopies) /\ (UiCopies ~> ~UiCopies)

Live == FairSpec /\ []GuardsSuffice /\ RowsEnd

\* The emulator thread lets go of the mutex again.
InsideAt(point) == EmuInside /\ emu = point

LEMMA InsideSuccessors ==
    ASSUME Inv, [Next]_vars, EmuInside, EmuInside'
    PROVE  /\ ~EmuThread => emu' = emu
           /\ EmuThread =>
                /\ emu = "check" => emu' \in {"copy", "delete"}
                /\ emu = "delete" => emu' = "allocate"
                /\ emu = "allocate" => emu' = "copy"
                /\ emu = "count" => emu' = "unlock"
                /\ emu # "unlock"
           /\ emu = "copy" => emu' \in {"copy", "unlock", "count"}
<1>1. ~EmuThread => emu' = emu
  BY DEF Next, EmuLock, EmuInside, UiThread, UiLook, UiLock, UiLockTexture, UiCopyRow, DbgSkip,
     DbgReadSize, DbgReadPointer, DbgRead, vars, emuVars
<1>2. CASE EmuThread
  BY <1>2 DEF EmuThread, EmuCheckSize, EmuSetSize, EmuAllocate, EmuCopyRow, EmuCount, EmuUnlock,
     EmuInside
<1> QED
  BY <1>1, <1>2

LEMMA MutexComesFree == Live => (EmuInside ~> ~EmuInside)
<1> DEFINE Step == Inv /\ [Next]_vars
           Outside == ~EmuInside
<1>1. Step /\ InsideAt("unlock") =>
        /\ InsideAt("unlock")' \/ Outside'
        /\ <<EmuThread>>_vars => Outside'
  BY InsideSuccessors DEF InsideAt
<1>2. Step /\ InsideAt("count") =>
        /\ InsideAt("count")' \/ InsideAt("unlock")' \/ Outside'
        /\ <<EmuThread>>_vars => InsideAt("unlock")' \/ Outside'
  BY InsideSuccessors DEF InsideAt
<1>3. Step /\ InsideAt("copy") =>
        InsideAt("copy")' \/ InsideAt("count")' \/ InsideAt("unlock")' \/ Outside'
  BY InsideSuccessors DEF InsideAt
<1>4. Step /\ InsideAt("allocate") =>
        /\ InsideAt("allocate")' \/ InsideAt("copy")' \/ Outside'
        /\ <<EmuThread>>_vars => InsideAt("copy")' \/ Outside'
  BY InsideSuccessors DEF InsideAt
<1>5. Step /\ InsideAt("delete") =>
        /\ InsideAt("delete")' \/ InsideAt("allocate")' \/ Outside'
        /\ <<EmuThread>>_vars => InsideAt("allocate")' \/ Outside'
  BY InsideSuccessors DEF InsideAt
<1>6. Step /\ InsideAt("check") =>
        /\ InsideAt("check")' \/ InsideAt("copy")' \/ InsideAt("delete")' \/ Outside'
        /\ <<EmuThread>>_vars => InsideAt("copy")' \/ InsideAt("delete")' \/ Outside'
  BY InsideSuccessors DEF InsideAt
<1>7. EmuInside =>
        \/ InsideAt("check") \/ InsideAt("delete") \/ InsideAt("allocate") \/ InsideAt("copy")
        \/ InsideAt("unlock") \/ InsideAt("count")
  BY DEF InsideAt, EmuInside
<1>8. /\ InsideAt("check") => EmuInside
      /\ InsideAt("delete") => EmuInside
      /\ InsideAt("allocate") => EmuInside
      /\ InsideAt("unlock") => EmuInside
      /\ InsideAt("count") => EmuInside
      /\ InsideAt("copy") <=> EmuCopies
  BY DEF InsideAt, EmuInside, EmuCopies
<1>9. /\ GuardsSuffice /\ EmuInside => ENABLED <<EmuThread>>_vars
      /\ Outside <=> ~EmuInside
  BY DEF GuardsSuffice
<1> HIDE DEF Outside
<1>10. Live => (InsideAt("unlock") ~> Outside)
  BY <1>1, <1>8, <1>9, Invariance, PTL DEF Live, FairSpec, Spec
<1>11. Live => (InsideAt("count") ~> Outside)
  BY <1>2, <1>8, <1>9, <1>10, Invariance, PTL DEF Live, FairSpec, Spec
<1>12. Live => (InsideAt("copy") ~> Outside)
  BY <1>3, <1>8, <1>10, <1>11, Invariance, PTL DEF Live, FairSpec, Spec, RowsEnd
<1>13. Live => (InsideAt("allocate") ~> Outside)
  BY <1>4, <1>8, <1>9, <1>12, Invariance, PTL DEF Live, FairSpec, Spec
<1>14. Live => (InsideAt("delete") ~> Outside)
  BY <1>5, <1>8, <1>9, <1>13, Invariance, PTL DEF Live, FairSpec, Spec
<1>15. Live => (InsideAt("check") ~> Outside)
  BY <1>6, <1>8, <1>9, <1>12, <1>14, Invariance, PTL DEF Live, FairSpec, Spec
<1> QED
  BY <1>7, <1>9, <1>10, <1>11, <1>12, <1>13, <1>14, <1>15, PTL

\* The points of the UI thread while frame n is owed.
Rendered(n) == m_renderedFrameNo >= n
OwedAt(n, point) == Owed(n) /\ ui = point
OwedRead(n) == Owed(n) /\ ui = "lock" /\ curFrame >= n

LEMMA OwedSuccessors ==
    ASSUME Inv, [Next]_vars, NEW n \in 1..MaxFrames, Owed(n), ~Rendered(n)'
    PROVE  /\ Owed(n)'
           /\ ~UiThread => ui' = ui /\ curFrame' = curFrame
           /\ UiThread =>
                /\ ui = "main" => ui' = "lock" /\ curFrame' >= n
                /\ ui = "upload" => ui' \in {"copy", "debugger"}
                /\ ui = "debugger" => ui' \in {"main", "pointer"}
                /\ ui = "pointer" => ui' = "read"
                /\ ui = "read" => ui' = "main"
           /\ ui = "copy" => ui' \in {"copy", "debugger"}
           /\ ui = "lock" =>
                \/ ui' = ui /\ curFrame' = curFrame /\ ~UiLock
                \/ ui' = "upload" /\ ~(curFrame >= n)
<1>1. /\ m_renderedFrameNo \in Int /\ m_scrFrameNo \in Nat /\ curFrame \in Nat
      /\ n \in Nat /\ m_renderedFrameNo' \in Int
  BY TypesNext, FrameAssumption DEF Inv, TypeOK
<1>2. Owed(n)'
  BY <1>1, NextComesNearer DEF ComesNearer, Rendered
<1>3. ~UiThread => ui' = ui /\ curFrame' = curFrame
  BY DEF Next, EmuLock, EmuThread, EmuCheckSize, EmuSetSize, EmuAllocate, EmuCopyRow, EmuCount,
     EmuUnlock, vars, uiVars
<1>4. UiThread =>
        /\ ui = "main" => ui' = "lock" /\ curFrame' >= n
        /\ ui = "upload" => ui' \in {"copy", "debugger"}
        /\ ui = "debugger" => ui' \in {"main", "pointer"}
        /\ ui = "pointer" => ui' = "read"
        /\ ui = "read" => ui' = "main"
        /\ ui = "copy" => ui' \in {"copy", "debugger"}
        /\ ui = "lock" => UiLock
  BY <1>1 DEF UiThread, UiLook, UiLock, UiLockTexture, UiCopyRow, DbgSkip, DbgReadSize,
     DbgReadPointer, DbgRead, Owed
<1>5. UiLock => UiThread /\ ui' = "upload" /\ ~(curFrame >= n)
  BY DEF UiThread, UiLock, Rendered
<1>6. ui = "copy" => ui' \in {"copy", "debugger"}
  BY <1>3, <1>4
<1>7. ASSUME ui = "lock"
      PROVE  \/ ui' = ui /\ curFrame' = curFrame /\ ~UiLock
             \/ ui' = "upload" /\ ~(curFrame >= n)
  <2>1. CASE UiLock
    BY <1>5, <2>1
  <2>2. CASE ~UiLock
    <3>1. ~UiThread
      BY <1>4, <1>7, <2>2
    <3> QED
      BY <1>3, <2>2, <3>1
  <2> QED
    BY <2>1, <2>2
<1> QED
  BY <1>2, <1>3, <1>4, <1>6, <1>7

LEMMA OwedIsRendered ==
    ASSUME NEW n \in 1..MaxFrames
    PROVE  Live => (m_scrFrameNo = n ~> m_renderedFrameNo >= n)
<1> DEFINE Step == Inv /\ [Next]_vars
           LockAt == OwedAt(n, "lock")
           Read == OwedRead(n)
           Done == Rendered(n)
           Counted == m_scrFrameNo = n
<1>1. Step /\ Read =>
        /\ Read' \/ Done'
        /\ <<UiLock>>_vars => Done'
  BY OwedSuccessors DEF OwedRead
<1>2. Step /\ OwedAt(n, "main") =>
        /\ OwedAt(n, "main")' \/ Read' \/ Done'
        /\ <<UiThread>>_vars => Read' \/ Done'
  BY OwedSuccessors DEF OwedAt, OwedRead
<1>3. Step /\ OwedAt(n, "read") =>
        /\ OwedAt(n, "read")' \/ OwedAt(n, "main")' \/ Done'
        /\ <<UiThread>>_vars => OwedAt(n, "main")' \/ Done'
  BY OwedSuccessors DEF OwedAt
<1>4. Step /\ OwedAt(n, "pointer") =>
        /\ OwedAt(n, "pointer")' \/ OwedAt(n, "read")' \/ Done'
        /\ <<UiThread>>_vars => OwedAt(n, "read")' \/ Done'
  BY OwedSuccessors DEF OwedAt
<1>5. Step /\ OwedAt(n, "debugger") =>
        /\ OwedAt(n, "debugger")' \/ OwedAt(n, "main")' \/ OwedAt(n, "pointer")' \/ Done'
        /\ <<UiThread>>_vars => OwedAt(n, "main")' \/ OwedAt(n, "pointer")' \/ Done'
  BY OwedSuccessors DEF OwedAt
<1>6. Step /\ OwedAt(n, "copy") =>
        OwedAt(n, "copy")' \/ OwedAt(n, "debugger")' \/ Done'
  BY OwedSuccessors DEF OwedAt
<1>7. Step /\ OwedAt(n, "upload") =>
        /\ OwedAt(n, "upload")' \/ OwedAt(n, "copy")' \/ OwedAt(n, "debugger")' \/ Done'
        /\ <<UiThread>>_vars => OwedAt(n, "copy")' \/ OwedAt(n, "debugger")' \/ Done'
  BY OwedSuccessors DEF OwedAt
<1>8. Step /\ LockAt =>
        /\ LockAt' \/ OwedAt(n, "upload")' \/ Done'
        /\ <<UiLock>>_vars => OwedAt(n, "upload")' \/ Done'
  BY OwedSuccessors DEF OwedAt
<1>9. Inv /\ Counted => \/ Done \/ OwedAt(n, "main") \/ LockAt \/ OwedAt(n, "upload")
                        \/ OwedAt(n, "copy") \/ OwedAt(n, "debugger") \/ OwedAt(n, "pointer")
                        \/ OwedAt(n, "read")
  BY FrameAssumption DEF Inv, TypeOK, UiPoints, OwedAt, Owed, Rendered
<1>10. /\ GuardsSuffice /\ OwedAt(n, "main") => ENABLED <<UiThread>>_vars
       /\ GuardsSuffice /\ OwedAt(n, "read") => ENABLED <<UiThread>>_vars
       /\ GuardsSuffice /\ OwedAt(n, "pointer") => ENABLED <<UiThread>>_vars
       /\ GuardsSuffice /\ OwedAt(n, "debugger") => ENABLED <<UiThread>>_vars
       /\ GuardsSuffice /\ OwedAt(n, "upload") => ENABLED <<UiThread>>_vars
  BY DEF GuardsSuffice, OwedAt
<1>11. /\ GuardsSuffice /\ Inv /\ LockAt /\ ~EmuInside => ENABLED <<UiLock>>_vars
       /\ GuardsSuffice /\ Inv /\ Read /\ ~EmuInside => ENABLED <<UiLock>>_vars
  BY DEF GuardsSuffice, OwedAt, OwedRead, Inv, TypeOK, MutexInv, UiInside
<1>12. OwedAt(n, "copy") => UiCopies
  BY DEF OwedAt, UiCopies
<1> HIDE DEF LockAt, Read, Done, Counted
<1>13. Live => (Read ~> Done)
  BY <1>1, <1>11, MutexComesFree, Invariance, PTL DEF Live, FairSpec, Spec
<1>14. Live => (OwedAt(n, "main") ~> Done)
  BY <1>2, <1>10, <1>13, Invariance, PTL DEF Live, FairSpec, Spec
<1>15. Live => (OwedAt(n, "read") ~> Done)
  BY <1>3, <1>10, <1>14, Invariance, PTL DEF Live, FairSpec, Spec
<1>16. Live => (OwedAt(n, "pointer") ~> Done)
  BY <1>4, <1>10, <1>15, Invariance, PTL DEF Live, FairSpec, Spec
<1>17. Live => (OwedAt(n, "debugger") ~> Done)
  BY <1>5, <1>10, <1>14, <1>16, Invariance, PTL DEF Live, FairSpec, Spec
<1>18. Live => (OwedAt(n, "copy") ~> Done)
  BY <1>6, <1>12, <1>17, Invariance, PTL DEF Live, FairSpec, Spec, RowsEnd
<1>19. Live => (OwedAt(n, "upload") ~> Done)
  BY <1>7, <1>10, <1>17, <1>18, Invariance, PTL DEF Live, FairSpec, Spec
<1>20. Live => (LockAt ~> Done)
  BY <1>8, <1>11, <1>19, MutexComesFree, Invariance, PTL DEF Live, FairSpec, Spec
<1>21. Live => (Counted ~> Done)
  BY <1>9, <1>14, <1>15, <1>16, <1>17, <1>18, <1>19, <1>20, Invariance, PTL
     DEF Live, FairSpec, Spec
<1> QED
  BY <1>21 DEF Counted, Done, Rendered

\* Every counted frame is rendered, or a later one is, however often the two
\* threads meet at the mutex and however fast the emulator counts.
THEOREM CountedFrameIsRendered == Live => FrameRendered
<1>1. \A n \in 1..MaxFrames : Live => (m_scrFrameNo = n ~> m_renderedFrameNo >= n)
  BY OwedIsRendered
<1> QED
  BY <1>1 DEF FrameRendered
=============================================================================
