-------------------------- MODULE AudioPull_proofs --------------------------
(***************************************************************************)
(* For any sizes the copies stay inside the pull buffer, nothing races,    *)
(* the samples stay in order, and for frames that fit the chunks the       *)
(* pacing prevents overflows.                                              *)
(***************************************************************************)
EXTENDS AudioPull, SequenceTheorems, TLAPS

LEMMA MaxFacts == Max \in Nat /\ Target \in Nat /\ Max = 2 * Target /\ Target = 3 * Chunk
BY SizesAssumption DEF Max, Target

\* What silence is: all zeros, of the length asked for.
LEMMA SilenceFacts ==
  ASSUME NEW n \in Nat
  PROVE  /\ Silence(n) \in Seq(Nat)
         /\ Len(Silence(n)) = n
         /\ \A i \in 1 .. n : Silence(n)[i] = 0
BY SMT DEF Silence

LEMMA SilenceHasNoUnits == \A n \in Nat : Units(Silence(n)) = {} /\ Rising(Silence(n))
BY SilenceFacts DEF Units, Rising

\* What is taken out of the middle of a sequence.
LEMMA PartFacts ==
  ASSUME NEW s \in Seq(Nat), NEW m \in Nat \ {0}, NEW n \in 0 .. Len(s)
  PROVE  /\ SubSeq(s, m, n) \in Seq(Nat)
         /\ Len(SubSeq(s, m, n)) = IF m <= n THEN n - m + 1 ELSE 0
         /\ \A i \in 1 .. Len(SubSeq(s, m, n)) : SubSeq(s, m, n)[i] = s[m + i - 1]
<1>1. \A i \in m .. n : s[i] \in Nat
  BY ElementOfSeq
<1> QED
  BY <1>1, SubSeqProperties, LenProperties

\* A chunk: Paula's buffer and the sample that fills it.
LEMMA ChunkFacts ==
  ASSUME NEW s \in Seq(Nat), NEW p \in Seq(Nat), NEW u \in Nat
  PROVE  /\ s \o Append(p, u) \in Seq(Nat)
         /\ Len(s \o Append(p, u)) = Len(s) + Len(p) + 1
         /\ \A i \in 1 .. Len(s \o Append(p, u)) :
              (s \o Append(p, u))[i] =
                IF i <= Len(s) THEN s[i]
                ELSE IF i <= Len(s) + Len(p) THEN p[i - Len(s)] ELSE u
<1> DEFINE q == Append(p, u)
<1>1. /\ q \in Seq(Nat) /\ Len(q) = Len(p) + 1
      /\ \A i \in 1 .. Len(p) : q[i] = p[i]
      /\ q[Len(p) + 1] = u
  BY AppendProperties
<1>2. /\ s \o q \in Seq(Nat) /\ Len(s \o q) = Len(s) + Len(q)
      /\ \A i \in 1 .. Len(s) + Len(q) : (s \o q)[i] = IF i <= Len(s) THEN s[i] ELSE q[i - Len(s)]
  BY <1>1, ConcatProperties
<1>3. Len(s) \in Nat /\ Len(p) \in Nat
  BY LenProperties
<1> HIDE DEF q
<1> QED
  BY <1>1, <1>2, <1>3 DEF q

-----------------------------------------------------------------------------
(* Types, levels and the lock. *)

\* The device plays exactly while the sound is open and not paused.
DeviceInv ==
  /\ dev = "playing" => ~paused
  /\ dev = "paused" => paused
  /\ dev = "none" => pull = <<>>

LevelInv == TypeOK /\ PullFits /\ NoRace /\ DeviceInv

LEMMA InitLevel == Init => LevelInv
<1> SUFFICES ASSUME Init PROVE LevelInv
  OBVIOUS
<1>1. pull \in Seq(Nat) /\ Len(pull) = 0 /\ paula \in Seq(Nat) /\ Len(paula) = 0
  BY DEF Init
<1>2. TypeOK
  <2>1. paused \in BOOLEAN /\ turbo \in BOOLEAN /\ gaveUp \in BOOLEAN
    BY DEF Init
  <2>2. left \in 0 .. Frame /\ guard \in 0 .. Rounds /\ sem \in 0 .. SemLimit
    BY SizesAssumption DEF Init, SemLimit
  <2>3. Len(paula) < Chunk
    BY <1>1, SizesAssumption
  <2> QED
    BY <1>1, <2>1, <2>2, <2>3 DEF Init, TypeOK
<1>3. PullFits /\ NoRace
  BY <1>1, SizesAssumption, MaxFacts DEF Init, PullFits, NoRace, Locked
<1>4. DeviceInv
  BY DEF Init, DeviceInv
<1> QED
  BY <1>2, <1>3, <1>4 DEF LevelInv

\* What is kept when a chunk is pushed, and the level after it.
LEMMA PushFacts ==
  ASSUME LevelInv, Push, made' \in Nat, Len(paula) + 1 = Chunk
  PROVE  /\ pull' \in Seq(Nat)
         /\ dropped' \in Nat
         /\ Len(pull') <= Max
         /\ dropped' # dropped => Len(pull) + Chunk > Max
         /\ dropped' = dropped => Len(pull') = Len(pull) + Chunk
         /\ dropped' # dropped => Len(pull') = Target + Chunk
         /\ need = 0
<1> DEFINE overflow == Len(pull) + Chunk > Max
           kept == IF overflow THEN SubSeq(pull, Len(pull) - Target + 1, Len(pull)) ELSE pull
<1>1. pull \in Seq(Nat) /\ paula \in Seq(Nat) /\ Len(pull) \in Nat /\ dropped \in Nat
  BY LenProperties DEF LevelInv, TypeOK
<1>2. overflow => Len(pull) - Target + 1 \in Nat \ {0} /\ Len(pull) - Target + 1 <= Len(pull)
  BY <1>1, MaxFacts, SizesAssumption DEF LevelInv, PullFits
<1>3. overflow => SubSeq(pull, Len(pull) - Target + 1, Len(pull)) \in Seq(Nat)
                  /\ Len(SubSeq(pull, Len(pull) - Target + 1, Len(pull))) = Target
  <2> DEFINE m == Len(pull) - Target + 1
  <2> SUFFICES ASSUME overflow
               PROVE  SubSeq(pull, m, Len(pull)) \in Seq(Nat) /\ Len(SubSeq(pull, m, Len(pull))) = Target
    OBVIOUS
  <2>1. m \in Nat \ {0} /\ m <= Len(pull) /\ Len(pull) \in 0 .. Len(pull)
    BY <1>1, <1>2
  <2>2. Len(pull) - m + 1 = Target
    BY <1>1, MaxFacts
  <2> HIDE DEF m
  <2>3. /\ SubSeq(pull, m, Len(pull)) \in Seq(Nat)
        /\ Len(SubSeq(pull, m, Len(pull))) = Len(pull) - m + 1
    BY <1>1, <2>1, PartFacts
  <2> QED
    BY <2>2, <2>3
<1>4. kept \in Seq(Nat) /\ Len(kept) = IF overflow THEN Target ELSE Len(pull)
  BY <1>1, <1>3
<1>5. pull' = kept \o Append(paula, made') /\ need = 0
      /\ dropped' = IF overflow THEN dropped + 1 ELSE dropped
  BY DEF Push, Locked
<1>6. pull' \in Seq(Nat) /\ Len(pull') = Len(kept) + Chunk
  BY <1>1, <1>4, <1>5, ChunkFacts
<1>7. overflow => dropped' = dropped + 1
  BY <1>5
<1>8. ~overflow => dropped' = dropped
  BY <1>5
<1>9. Len(kept) = IF Len(pull) + Chunk > Max THEN Target ELSE Len(pull)
  BY <1>4
<1> HIDE DEF kept
<1>10. dropped' \in Nat /\ (dropped' # dropped <=> Len(pull) + Chunk > Max)
  BY <1>1, <1>7, <1>8
<1> QED
  BY <1>1, <1>5, <1>6, <1>9, <1>10, MaxFacts, SizesAssumption

\* Zeroing keeps the levels.
LEMMA ClearFacts ==
  ASSUME TypeOK, ClearBuffer
  PROVE  /\ pull' \in Seq(Nat) /\ Len(pull') = Len(pull)
         /\ paula' \in Seq(Nat) /\ Len(paula') = Len(paula)
         /\ need = 0
<1>1. Len(pull) \in Nat /\ Len(paula) \in Nat
  BY LenProperties DEF TypeOK
<1> QED
  BY <1>1, SilenceFacts DEF ClearBuffer, Locked

LEMMA DeliverFacts ==
  ASSUME TypeOK, seen = Len(pull), seen # 0, need # 0, Deliver
  PROVE  \E taken \in 1 .. Len(pull) :
           /\ pull' = SubSeq(pull, taken + 1, Len(pull))
           /\ pull' \in Seq(Nat)
           /\ Len(pull') = Len(pull) - taken
           /\ \A i \in 1 .. Len(pull') : pull'[i] = pull[taken + i]
           /\ last' = (IF pull[taken] # 0 THEN pull[taken] ELSE last)
           /\ last' \in Nat
           /\ taken = need \/ taken = Len(pull)
<1> DEFINE taken == IF need > seen THEN seen ELSE need
<1>1. pull \in Seq(Nat) /\ Len(pull) \in Nat /\ need \in Nat \ {0} /\ last \in Nat
  BY LenProperties, SizesAssumption DEF TypeOK
<1>2. taken \in 1 .. Len(pull)
  BY <1>1
<1>3. pull' = SubSeq(pull, taken + 1, Len(pull))
      /\ last' = (IF pull[taken] # 0 THEN pull[taken] ELSE last)
  BY DEF Deliver
<1>9. taken = need \/ taken = Len(pull)
  OBVIOUS
<1> HIDE DEF taken
<1>4. taken + 1 \in Nat \ {0} /\ Len(pull) \in 0 .. Len(pull)
  BY <1>1, <1>2
<1>5. /\ pull' \in Seq(Nat)
      /\ Len(pull') = Len(pull) - taken
      /\ \A i \in 1 .. Len(pull') : pull'[i] = pull[taken + 1 + i - 1]
  BY <1>1, <1>2, <1>3, <1>4, PartFacts
<1>6. \A i \in 1 .. Len(pull') : pull'[i] = pull[taken + i]
  BY <1>1, <1>2, <1>5
<1>7. pull[taken] \in Nat
  BY <1>1, <1>2, ElementOfSeq
<1>8. last' \in Nat
  BY <1>1, <1>3, <1>7
<1> QED
  BY <1>2, <1>3, <1>5, <1>6, <1>8, <1>9

\* Rendering: only a full chunk touches the pull buffer.
LEMMA RenderLevel == ASSUME LevelInv, RenderSample PROVE LevelInv'
<1>1. /\ pull \in Seq(Nat) /\ paula \in Seq(Nat) /\ Len(paula) \in Nat
      /\ Len(pull) \in Nat /\ made' \in Nat /\ dropped \in Nat /\ Len(paula) < Chunk
  BY LenProperties DEF LevelInv, TypeOK, RenderSample
<1>2. /\ UNCHANGED <<dev, paused, turbo, pc, guard, sem, need, seen, last, gaveUp>>
      /\ left' = left - 1 /\ left > 0
  BY DEF RenderSample, callback
<1>3. /\ pull' \in Seq(Nat) /\ paula' \in Seq(Nat) /\ Len(paula') < Chunk /\ dropped' \in Nat
      /\ Len(pull') <= Max
      /\ pull' = pull \/ (need = 0 /\ dev # "none")
  <2>1. CASE Len(paula) + 1 < Chunk
    <3>1. pull' = pull /\ dropped' = dropped /\ paula' = Append(paula, made')
      BY <2>1 DEF RenderSample
    <3>2. paula' \in Seq(Nat) /\ Len(paula') = Len(paula) + 1
      BY <1>1, <3>1, AppendProperties
    <3> QED
      BY <1>1, <2>1, <3>1, <3>2, SizesAssumption DEF LevelInv, PullFits
  <2>2. CASE ~(Len(paula) + 1 < Chunk)
    <3>1. paula' = <<>> /\ \E saving \in BOOLEAN : FinishSoundBuffer(saving)
      BY <2>2 DEF RenderSample
    <3>2. paula' \in Seq(Nat) /\ Len(paula') = 0
      BY <3>1
    <3>3. Len(paula) + 1 = Chunk
      BY <1>1, <2>2, SizesAssumption
    <3>4. UNCHANGED <<pull, dropped>> \/ (Push /\ dev # "none")
      BY <3>1 DEF FinishSoundBuffer
    <3>5. CASE UNCHANGED <<pull, dropped>>
      BY <1>1, <3>2, <3>5, SizesAssumption DEF LevelInv, PullFits
    <3>6. CASE Push /\ dev # "none"
      <4>1. pull' \in Seq(Nat) /\ dropped' \in Nat /\ Len(pull') <= Max /\ need = 0
        BY <1>1, <3>3, <3>6, PushFacts
      <4> QED
        BY <3>2, <3>6, <4>1, SizesAssumption
    <3> QED
      BY <3>4, <3>5, <3>6
  <2> QED
    BY <2>1, <2>2
<1>4. TypeOK'
  <2>1. left' \in 0 .. Frame
    BY <1>2, SizesAssumption DEF LevelInv, TypeOK
  <2> QED
    BY <1>1, <1>2, <1>3, <2>1 DEF LevelInv, TypeOK
<1>5. PullFits'
  <2>1. Len(pull') \in Nat
    BY <1>3, LenProperties
  <2> QED
    BY <1>2, <1>3, <2>1, MaxFacts, SizesAssumption DEF LevelInv, PullFits, Locked
<1>6. NoRace'
  BY <1>2, <1>3 DEF LevelInv, NoRace, Locked
<1>7. DeviceInv'
  BY <1>2, <1>3 DEF LevelInv, DeviceInv
<1> QED
  BY <1>4, <1>5, <1>6, <1>7 DEF LevelInv

\* Pacing changes neither the device nor the buffers.
LEMMA SyncLevel == ASSUME LevelInv, Sync PROVE LevelInv'
<1>1. /\ UNCHANGED <<dev, paused, turbo, pull, paula, made, need, seen, last, dropped>>
      /\ pc' \in {"run", "wait"}
  BY DEF Sync, SyncSkipped, SyncStart, SyncWait, SyncEnd, StartFrame, samples, callback, history
<1>2. left' \in 0 .. Frame /\ guard' \in 0 .. Rounds /\ sem' \in 0 .. SemLimit
  <2>1. left \in 0 .. Frame /\ guard \in 0 .. Rounds /\ sem \in 0 .. SemLimit
    BY DEF LevelInv, TypeOK
  <2>2. CASE SyncSkipped
    BY <2>1, <2>2, SizesAssumption DEF SyncSkipped, StartFrame
  <2>3. CASE SyncStart
    BY <2>1, <2>3, SizesAssumption DEF SyncStart, samples
  <2>4. CASE SyncWait
    BY <2>1, <2>4, SizesAssumption DEF SyncWait, samples, SemLimit
  <2>5. CASE SyncEnd
    BY <2>1, <2>5, SizesAssumption DEF SyncEnd, StartFrame, SemLimit
  <2> QED
    BY <2>2, <2>3, <2>4, <2>5 DEF Sync
<1>3. gaveUp' \in BOOLEAN
  BY DEF Sync, SyncSkipped, SyncStart, SyncWait, SyncEnd, StartFrame, AboveTarget, samples,
         callback, history, LevelInv, TypeOK
<1>4. TypeOK'
  BY <1>1, <1>2, <1>3 DEF LevelInv, TypeOK
<1>5. PullFits' /\ NoRace'
  BY <1>1 DEF LevelInv, PullFits, NoRace, Locked
<1>6. DeviceInv'
  BY <1>1 DEF LevelInv, DeviceInv
<1> QED
  BY <1>4, <1>5, <1>6 DEF LevelInv

\* A step that keeps or zeroes the buffers and keeps what is rendered.
Cleared ==
  /\ pull' \in Seq(Nat) /\ Len(pull') = Len(pull)
  /\ paula' \in Seq(Nat) /\ Len(paula') = Len(paula)
  /\ pull' # pull => need = 0 /\ dev # "none"
  /\ UNCHANGED <<made, left, guard, sem, need, seen, last, dropped, gaveUp>>

LEMMA ClearedLevel ==
  ASSUME LevelInv, Cleared, turbo' \in BOOLEAN, paused' \in BOOLEAN,
         dev' \in {"none", "paused", "playing"},
         pc' \in {"run", "wait", "stopped", "prefill", "unpause"}
  PROVE  TypeOK' /\ PullFits'
<1>1. TypeOK'
  BY DEF LevelInv, TypeOK, Cleared
<1>2. PullFits'
  BY DEF LevelInv, PullFits, Cleared, Locked
<1> QED
  BY <1>1, <1>2

\* Pausing and resuming, by the debugger or by warp mode.
LEMMA PauseLevel ==
  ASSUME LevelInv, UNCHANGED <<made, left, guard, sem, need, seen, last, dropped, gaveUp>>,
         DebuggerStop \/ DebuggerContinue \/ WarpOn \/ WarpOff
  PROVE  LevelInv'
<1>1. TypeOK
  BY DEF LevelInv
<1>2. CASE DebuggerStop \/ WarpOn
  <2>1. pc' \in {"stopped", "run"} /\ turbo' \in BOOLEAN /\ PauseSound
    BY <1>1, <1>2 DEF DebuggerStop, WarpOn, TypeOK
  <2>2. Cleared /\ (~Locked \/ dev' = dev) /\ dev' \in {"none", "paused", "playing"}
        /\ ((dev' = dev /\ paused' = paused /\ pull' = pull)
            \/ (dev' = "paused" /\ paused' = TRUE /\ need = 0))
    BY <1>1, <2>1, ClearFacts DEF PauseSound, Cleared, TypeOK, Locked
  <2>3. paused' \in BOOLEAN
    BY <1>1, <2>1, <2>2 DEF TypeOK
  <2>4. TypeOK' /\ PullFits'
    BY <2>1, <2>2, <2>3, ClearedLevel
  <2>5. NoRace'
    BY <2>1, <2>2 DEF LevelInv, NoRace, Locked, Cleared
  <2>6. DeviceInv'
    BY <2>2 DEF LevelInv, DeviceInv
  <2> QED
    BY <2>4, <2>5, <2>6 DEF LevelInv
<1>3. CASE DebuggerContinue \/ WarpOff
  <2>1. turbo' \in BOOLEAN /\ ResumeSound /\ UNCHANGED <<dev, paused>>
    BY <1>1, <1>3 DEF DebuggerContinue, WarpOff, TypeOK
  <2>2. Cleared /\ (pc' = "run" \/ (pc' = "prefill" /\ paused /\ dev # "none" /\ need = 0))
    BY <1>1, <2>1, ClearFacts DEF ResumeSound, Cleared, TypeOK
  <2>3. /\ paused' \in BOOLEAN /\ dev' \in {"none", "paused", "playing"}
        /\ pc' \in {"run", "wait", "stopped", "prefill", "unpause"}
    BY <1>1, <2>1, <2>2 DEF TypeOK
  <2>4. TypeOK' /\ PullFits'
    BY <2>1, <2>2, <2>3, ClearedLevel
  <2>5. pc' = "prefill" => dev' = "paused"
    BY <1>1, <2>1, <2>2 DEF LevelInv, DeviceInv, TypeOK
  <2>6. NoRace'
    BY <2>1, <2>2, <2>5 DEF LevelInv, NoRace, Locked, Cleared
  <2>7. DeviceInv'
    BY <2>1, <2>2 DEF LevelInv, DeviceInv, Cleared
  <2> QED
    BY <2>4, <2>6, <2>7 DEF LevelInv
<1> QED
  BY <1>2, <1>3

\* Opening and closing the device, and the two steps that start it.
LEMMA SwitchLevel == ASSUME LevelInv, Switch PROVE LevelInv'
<1>1. TypeOK
  BY DEF LevelInv
<1>2. CASE DebuggerStop \/ DebuggerContinue \/ WarpOn \/ WarpOff
  <2>1. UNCHANGED <<made, left, guard, sem, need, seen, last, dropped, gaveUp>>
    BY <1>2 DEF DebuggerStop, DebuggerContinue, WarpOn, WarpOff, callback, history
  <2> QED
    BY <1>2, <2>1, PauseLevel
<1>3. CASE PrefillBuffer
  <2> DEFINE n == IF 3 * Frame > Max THEN Target ELSE 3 * Frame
  <2>1. n \in Nat /\ n <= Max /\ (n + Chunk > Max => n >= Target)
    BY MaxFacts, SizesAssumption
  <2>2. pull' = Silence(n)
    BY <1>3 DEF PrefillBuffer
  <2> HIDE DEF n
  <2>3. pull' \in Seq(Nat) /\ Len(pull') = n
    BY <2>1, <2>2, SilenceFacts
  <2>4. /\ UNCHANGED <<dev, paused, turbo, paula, made, left, guard, sem, need, seen, last, dropped, gaveUp>>
        /\ pc = "prefill" /\ pc' = "unpause" /\ dev = "paused" /\ need = 0
    BY <1>3 DEF PrefillBuffer, callback, history, LevelInv, NoRace, Locked
  <2>5. TypeOK'
    BY <1>1, <2>3, <2>4 DEF TypeOK
  <2>6. PullFits' /\ NoRace'
    BY <2>1, <2>3, <2>4 DEF PullFits, NoRace, Locked
  <2>7. DeviceInv'
    BY <2>4 DEF LevelInv, DeviceInv
  <2> QED
    BY <2>5, <2>6, <2>7 DEF LevelInv
<1>4. CASE UnpauseDevice
  <2>1. /\ UNCHANGED <<turbo, pull, paula, made, left, guard, sem, need, seen, last, dropped, gaveUp>>
        /\ pc' = "run" /\ dev' = "playing" /\ paused' = FALSE /\ need = 0
    BY <1>4 DEF UnpauseDevice, samples, callback, history, Locked
  <2>2. TypeOK'
    BY <1>1, <2>1 DEF TypeOK
  <2>3. PullFits' /\ NoRace'
    BY <2>1 DEF LevelInv, PullFits, NoRace, Locked
  <2>4. DeviceInv'
    BY <2>1 DEF DeviceInv
  <2> QED
    BY <2>2, <2>3, <2>4 DEF LevelInv
<1>5. CASE InitSound
  <2>1. pull' \in Seq(Nat) /\ Len(pull') = Target /\ paula' \in Seq(Nat) /\ Len(paula') = 0
    BY <1>5, SilenceFacts, MaxFacts DEF InitSound
  <2>2. /\ UNCHANGED <<turbo, made, left, guard, need, seen, last, dropped, gaveUp>>
        /\ pc' = "prefill" /\ dev' = "paused" /\ paused' = TRUE /\ sem' = 0 /\ dev = "none"
    BY <1>5 DEF InitSound, callback, history
  <2>3. need = 0
    BY <2>2 DEF LevelInv, NoRace, Locked
  <2>4. sem' \in 0 .. SemLimit
    BY <2>2 DEF SemLimit
  <2>5. TypeOK'
    BY <1>1, <2>1, <2>2, <2>4, SizesAssumption DEF TypeOK
  <2>6. PullFits' /\ NoRace'
    BY <2>1, <2>2, <2>3, MaxFacts DEF PullFits, NoRace, Locked
  <2>7. DeviceInv'
    BY <2>2 DEF DeviceInv
  <2> QED
    BY <2>5, <2>6, <2>7 DEF LevelInv
<1>6. CASE CloseSound
  <2>1. pull' \in Seq(Nat) /\ Len(pull') = 0 /\ pull' = <<>>
    BY <1>6 DEF CloseSound
  <2>2. paula' \in Seq(Nat) /\ Len(paula') = Len(paula)
    BY <1>1, <1>6, SilenceFacts, LenProperties DEF CloseSound, TypeOK
  <2>3. /\ UNCHANGED <<turbo, made, left, pc, guard, sem, need, seen, last, dropped, gaveUp>>
        /\ pc = "run" /\ dev' = "none" /\ paused' = TRUE /\ need = 0
    BY <1>6 DEF CloseSound, callback, history, Locked
  <2>4. TypeOK'
    BY <1>1, <2>1, <2>2, <2>3 DEF TypeOK
  <2>5. PullFits' /\ NoRace'
    BY <2>1, <2>3, MaxFacts, SizesAssumption DEF PullFits, NoRace, Locked
  <2>6. DeviceInv'
    BY <2>1, <2>3 DEF DeviceInv
  <2> QED
    BY <2>4, <2>5, <2>6 DEF LevelInv
<1> QED
  BY <1>2, <1>3, <1>4, <1>5, <1>6 DEF Switch

\* The callback: it has the lock from its first to its second step.
LEMMA CallbackLevel == ASSUME LevelInv, Callback PROVE LevelInv'
<1>1. TypeOK /\ pull \in Seq(Nat) /\ Len(pull) \in Nat
  BY LenProperties DEF LevelInv, TypeOK
<1>2. CASE CallbackStart
  <2>1. /\ UNCHANGED <<dev, paused, turbo, pull, paula, made, left, pc, guard, sem, last, dropped, gaveUp>>
        /\ need' \in Needs /\ seen' = Len(pull) /\ dev = "playing"
    BY <1>2 DEF CallbackStart, samples, history
  <2>2. TypeOK'
    BY <1>1, <2>1 DEF TypeOK
  <2>3. PullFits' /\ NoRace'
    BY <1>1, <2>1 DEF LevelInv, PullFits, NoRace, Locked
  <2>4. DeviceInv'
    BY <2>1 DEF LevelInv, DeviceInv
  <2> QED
    BY <2>2, <2>3, <2>4 DEF LevelInv
<1>3. CASE CallbackEnd
  <2>1. /\ UNCHANGED <<dev, paused, turbo, paula, made, left, pc, guard, dropped, gaveUp>>
        /\ need' = 0 /\ seen' = 0 /\ need # 0
    BY <1>3 DEF CallbackEnd, history, Locked
  <2>2. dev = "playing" /\ seen = Len(pull)
    BY <2>1 DEF LevelInv, NoRace, Locked
  <2>3. /\ pull' \in Seq(Nat) /\ last' \in Nat
        /\ Len(pull') <= Len(pull) \/ Len(pull') = Target
    <3>1. CASE seen = 0
      <4>1. pull' = Silence(Target) /\ last' = last
        BY <1>3, <3>1 DEF CallbackEnd, Underrun
      <4> QED
        BY <1>1, <4>1, SilenceFacts, MaxFacts DEF TypeOK
    <3>2. CASE seen # 0
      <4>1. Deliver
        BY <1>3, <3>2 DEF CallbackEnd
      <4>2. PICK taken \in 1 .. Len(pull) :
              /\ pull' \in Seq(Nat) /\ Len(pull') = Len(pull) - taken /\ last' \in Nat
        BY <1>1, <2>1, <2>2, <3>2, <4>1, DeliverFacts
      <4> QED
        BY <1>1, <4>2
    <3> QED
      BY <3>1, <3>2
  <2>4. sem' \in 0 .. SemLimit
    BY <1>1, <1>3 DEF CallbackEnd, PostFrameSync, TypeOK, SemLimit
  <2>5. TypeOK'
    BY <1>1, <2>1, <2>3, <2>4 DEF TypeOK
  <2>6. Len(pull') \in Nat
    BY <2>3, LenProperties
  <2>7. PullFits' /\ NoRace'
    BY <1>1, <2>1, <2>2, <2>3, <2>6, MaxFacts, SizesAssumption
    DEF LevelInv, PullFits, NoRace, Locked
  <2>8. DeviceInv'
    BY <2>1, <2>2 DEF LevelInv, DeviceInv
  <2> QED
    BY <2>5, <2>7, <2>8 DEF LevelInv
<1> QED
  BY <1>2, <1>3 DEF Callback

LEMMA NextLevel == LevelInv /\ [Next]_vars => LevelInv'
<1> SUFFICES ASSUME LevelInv, [Next]_vars PROVE LevelInv'
  OBVIOUS
<1>1. CASE Next
  BY <1>1, RenderLevel, SyncLevel, SwitchLevel, CallbackLevel DEF Next
<1>2. CASE UNCHANGED vars
  <2>1. UNCHANGED <<dev, paused, turbo, pull, paula, made, left, pc, guard, sem, need, seen, last,
                    dropped, gaveUp>>
    BY <1>2 DEF vars, samples, callback, history
  <2>2. TypeOK'
    BY <2>1 DEF LevelInv, TypeOK
  <2>3. PullFits' /\ NoRace'
    BY <2>1 DEF LevelInv, PullFits, NoRace, Locked
  <2>4. DeviceInv'
    BY <2>1 DEF LevelInv, DeviceInv
  <2> QED
    BY <2>2, <2>3, <2>4 DEF LevelInv
<1> QED
  BY <1>1, <1>2

LEMMA AlwaysLevel == Spec => []LevelInv
<1> QED
  BY InitLevel, NextLevel, PTL DEF Spec

\* Every variable has its type: sound.cpp's levels, flags and semaphore.
THEOREM TypeCorrect == Spec => []TypeOK
<1>1. LevelInv => TypeOK
  BY DEF LevelInv
<1> QED
  BY <1>1, AlwaysLevel, PTL

\* No copy into or out of pullbuffer leaves it, whatever the sizes of chunk,
\* frame and callback are (finish_sound_buffer_pull, sdl2_audio_callback).
THEOREM PullAlwaysFits == Spec => []PullFits
<1>1. LevelInv => PullFits
  BY DEF LevelInv
<1> QED
  BY <1>1, AlwaysLevel, PTL

\* The write of pullbufferlen outside the lock in resume_audio_sdl2 never
\* meets a callback.
THEOREM NeverRaces == Spec => []NoRace
<1>1. LevelInv => NoRace
  BY DEF LevelInv
<1> QED
  BY <1>1, AlwaysLevel, PTL

-----------------------------------------------------------------------------
(* Overflows. *)

FramesFit == 4 * Frame <= 5 * Chunk

\* What is in the buffers and what is still rendered in this frame fits,
\* unless the wait gave up or the device is not running.
Budget ==
  ~gaveUp /\ (dev = "playing" \/ pc = "unpause") => Len(pull) + Len(paula) + left <= 6 * Chunk

LEMMA InitBudget == Init => Budget
BY DEF Init, Budget

LEMMA RenderBudget ==
  ASSUME LevelInv, Budget, RenderSample
  PROVE  Budget' /\ (dropped' > dropped => gaveUp)
<1>1. /\ pull \in Seq(Nat) /\ paula \in Seq(Nat) /\ Len(paula) \in Nat /\ Len(pull) \in Nat
      /\ made' \in Nat /\ dropped \in Nat /\ left \in Nat /\ Len(paula) < Chunk
  BY LenProperties, SizesAssumption DEF LevelInv, TypeOK, RenderSample
<1>2. /\ UNCHANGED <<dev, paused, pc, gaveUp>>
      /\ left' = left - 1 /\ left > 0 /\ pc = "run"
  BY DEF RenderSample
<1>3. CASE Len(paula) + 1 < Chunk
  <2>1. pull' = pull /\ dropped' = dropped /\ paula' = Append(paula, made')
    BY <1>3 DEF RenderSample
  <2>2. Len(paula') = Len(paula) + 1
    BY <1>1, <2>1, AppendProperties
  <2> QED
    BY <1>1, <1>2, <2>1, <2>2 DEF Budget
<1>4. CASE ~(Len(paula) + 1 < Chunk)
  <2>1. paula' = <<>> /\ \E saving \in BOOLEAN : FinishSoundBuffer(saving)
    BY <1>4 DEF RenderSample
  <2>2. Len(paula') = 0 /\ Len(paula) + 1 = Chunk
    BY <1>1, <1>4, <2>1, SizesAssumption
  <2>3. UNCHANGED <<pull, dropped>> \/ (Push /\ dev = "playing")
    BY <2>1 DEF FinishSoundBuffer, LevelInv, DeviceInv, TypeOK
  <2>4. CASE UNCHANGED <<pull, dropped>>
    BY <1>1, <1>2, <2>2, <2>4 DEF Budget
  <2>5. CASE Push /\ dev = "playing"
    <3>1. /\ dropped' \in Nat
          /\ dropped' # dropped => Len(pull) + Chunk > Max
          /\ dropped' = dropped => Len(pull') = Len(pull) + Chunk
      BY <1>1, <2>2, <2>5, PushFacts
    <3>2. ~gaveUp => Len(pull) + Len(paula) + left <= Max
      BY <2>5 DEF Budget, Max
    <3>3. ~gaveUp => dropped' = dropped
      BY <1>1, <1>2, <2>2, <3>1, <3>2, MaxFacts, SizesAssumption
    <3>4. ~gaveUp => Len(pull') + Len(paula') + left' <= 6 * Chunk
      BY <1>1, <1>2, <2>2, <3>1, <3>2, <3>3, SizesAssumption DEF Max
    <3> QED
      BY <1>1, <1>2, <3>1, <3>3, <3>4 DEF Budget
  <2> QED
    BY <2>3, <2>4, <2>5
<1> QED
  BY <1>3, <1>4

\* A frame starts below target, or the wait gave up.
LEMMA SyncBudget ==
  ASSUME FramesFit, LevelInv, Budget, Sync
  PROVE  Budget' /\ dropped' = dropped
<1>1. Len(paula) \in Nat /\ Len(pull) \in Nat
  BY LenProperties DEF LevelInv, TypeOK
<1>2. UNCHANGED <<dev, pull, paula, dropped>> /\ pc' \in {"run", "wait"}
  BY DEF Sync, SyncSkipped, SyncStart, SyncWait, SyncEnd, StartFrame, samples, callback, history
<1>3. CASE SyncSkipped
  <2>1. dev # "playing" /\ pc' = "run"
    BY <1>3 DEF SyncSkipped, StartFrame, LevelInv, DeviceInv
  <2> QED
    BY <1>2, <2>1 DEF Budget
<1>4. CASE SyncStart \/ SyncWait
  <2>1. left' = left /\ gaveUp' = gaveUp /\ pc' # "unpause"
    BY <1>4 DEF SyncStart, SyncWait, samples, history
  <2> QED
    BY <1>2, <2>1 DEF Budget
<1>5. CASE SyncEnd
  <2>1. left' = Frame /\ pc' = "run" /\ (~gaveUp' => ~AboveTarget)
    BY <1>5 DEF SyncEnd, StartFrame
  <2>2. ~gaveUp' /\ dev = "playing" => Len(pull) + Len(paula) < Target
    BY <1>1, <2>1, MaxFacts DEF AboveTarget
  <2>3. ~gaveUp' /\ dev = "playing" => Len(pull) + Len(paula) + left' <= 6 * Chunk
    BY <1>1, <2>1, <2>2, MaxFacts, SizesAssumption DEF FramesFit
  <2> QED
    BY <1>2, <2>1, <2>3 DEF Budget
<1> QED
  BY <1>2, <1>3, <1>4, <1>5 DEF Sync

LEMMA SwitchBudget ==
  ASSUME FramesFit, LevelInv, Budget, Switch
  PROVE  Budget' /\ dropped' = dropped
<1>1. /\ Len(paula) \in Nat /\ Len(pull) \in Nat /\ left \in 0 .. Frame /\ Len(paula) < Chunk
      /\ dev \in {"none", "paused", "playing"}
  BY LenProperties DEF LevelInv, TypeOK
<1>2. dropped' = dropped /\ gaveUp' = gaveUp /\ left' = left
  BY DEF Switch, PrefillBuffer, UnpauseDevice, DebuggerStop, DebuggerContinue, WarpOn, WarpOff,
         InitSound, CloseSound, samples, history
<1>3. CASE PrefillBuffer
  <2> DEFINE n == IF 3 * Frame > Max THEN Target ELSE 3 * Frame
  <2>1. n = 3 * Frame /\ n \in Nat
    BY SizesAssumption DEF FramesFit, Max
  <2>2. pull' = Silence(n) /\ paula' = paula
    BY <1>3 DEF PrefillBuffer
  <2> HIDE DEF n
  <2>3. Len(pull') = n
    BY <2>1, <2>2, SilenceFacts
  <2>4. Len(pull') + Len(paula') + left' <= 6 * Chunk
    BY <1>1, <1>2, <2>1, <2>2, <2>3, SizesAssumption DEF FramesFit
  <2> QED
    BY <1>2, <2>4 DEF Budget
<1>4. CASE UnpauseDevice
  <2>1. pc = "unpause" /\ pull' = pull /\ paula' = paula
    BY <1>4 DEF UnpauseDevice, samples
  <2> QED
    BY <1>2, <2>1 DEF Budget
<1>5. CASE DebuggerStop \/ WarpOn
  <2>1. pc' # "unpause" /\ PauseSound
    BY <1>5 DEF DebuggerStop, WarpOn
  <2>2. dev' # "playing" \/ (dev' = dev /\ pull' = pull /\ paula' = paula)
    BY <2>1 DEF PauseSound
  <2> QED
    BY <1>2, <2>1, <2>2 DEF Budget
<1>6. CASE DebuggerContinue \/ WarpOff
  <2>1. dev' = dev /\ ResumeSound
    BY <1>6 DEF DebuggerContinue, WarpOff
  <2>2. pc' # "unpause" /\ (dev' # "playing" \/ (pull' = pull /\ paula' = paula))
    BY <2>1 DEF ResumeSound, LevelInv, DeviceInv
  <2> QED
    BY <1>2, <2>1, <2>2 DEF Budget
<1>7. CASE InitSound \/ CloseSound
  <2>1. dev' # "playing" /\ pc' # "unpause"
    BY <1>7 DEF InitSound, CloseSound
  <2> QED
    BY <1>2, <2>1 DEF Budget
<1> QED
  BY <1>2, <1>3, <1>4, <1>5, <1>6, <1>7 DEF Switch

\* Draining helps; priming again after an underrun leaves room for a frame.
LEMMA CallbackBudget ==
  ASSUME FramesFit, LevelInv, Budget, Callback
  PROVE  Budget' /\ dropped' = dropped
<1>1. /\ Len(paula) \in Nat /\ Len(pull) \in Nat /\ left \in 0 .. Frame /\ Len(paula) < Chunk
      /\ TypeOK
  BY LenProperties DEF LevelInv, TypeOK
<1>2. UNCHANGED <<dev, paula, left, pc, dropped, gaveUp>>
  BY DEF Callback, CallbackStart, CallbackEnd, samples, history
<1>3. CASE CallbackStart
  <2>1. pull' = pull
    BY <1>3 DEF CallbackStart, samples
  <2> QED
    BY <1>2, <2>1 DEF Budget
<1>4. CASE CallbackEnd
  <2>1. need # 0 /\ seen = Len(pull)
    BY <1>4 DEF CallbackEnd, Locked, LevelInv, NoRace
  <2>2. CASE seen = 0
    <3>1. Len(pull') = Target
      BY <1>4, <2>2, SilenceFacts, MaxFacts DEF CallbackEnd, Underrun
    <3>2. Len(pull') + Len(paula) + left <= 6 * Chunk
      BY <1>1, <3>1, MaxFacts, SizesAssumption DEF FramesFit
    <3> QED
      BY <1>2, <3>2 DEF Budget
  <2>3. CASE seen # 0
    <3>1. PICK taken \in 1 .. Len(pull) : Len(pull') = Len(pull) - taken
      BY <1>1, <1>4, <2>1, <2>3, DeliverFacts DEF CallbackEnd
    <3>2. Len(pull') + Len(paula) + left <= Len(pull) + Len(paula) + left
      BY <1>1, <3>1, SizesAssumption
    <3>3. Len(pull') \in Nat
      BY <1>1, <3>1
    <3> QED
      BY <1>1, <1>2, <3>2, <3>3, SizesAssumption DEF Budget
  <2> QED
    BY <2>2, <2>3
<1> QED
  BY <1>2, <1>3, <1>4 DEF Callback

LEMMA NextBudget ==
  ASSUME FramesFit, LevelInv, Budget, [Next]_vars
  PROVE  Budget' /\ (dropped' > dropped => gaveUp)
<1>1. dropped \in Nat
  BY DEF LevelInv, TypeOK
<1>2. CASE RenderSample
  BY <1>2, RenderBudget
<1>3. CASE Sync \/ Switch \/ Callback
  BY <1>1, <1>3, SyncBudget, SwitchBudget, CallbackBudget
<1>4. CASE UNCHANGED vars
  <2>1. UNCHANGED <<dev, pull, paula, left, pc, dropped, gaveUp>>
    BY <1>4 DEF vars, samples, history
  <2> QED
    BY <1>1, <2>1 DEF Budget
<1> QED
  BY <1>2, <1>3, <1>4 DEF Next

\* If a frame fits the chunks (44100 Hz and 50 frames a second: 3528 bytes
\* and chunks of 4096) only a wait that gave up is followed by an overflow.
THEOREM PacingPreventsOverflow == ASSUME FramesFit PROVE Spec => OverflowMeansGaveUp
<1>1. LevelInv /\ Budget /\ [Next]_vars => Budget'
  BY NextBudget
<1>2. LevelInv /\ Budget /\ [Next]_vars => [dropped' > dropped => gaveUp]_vars
  BY NextBudget
<1>3. Spec => []Budget
  BY <1>1, InitBudget, AlwaysLevel, PTL DEF Spec
<1> QED
  BY <1>2, <1>3, AlwaysLevel, PTL DEF Spec, OverflowMeansGaveUp

-----------------------------------------------------------------------------
(* The order of the samples. *)

\* A nonzero unit of s comes before every unit of t.
Ordered(s, t) == \A i \in 1 .. Len(s), j \in 1 .. Len(t) : s[i] # 0 => s[i] < t[j]

\* The units of s are later than a and not later than b.
Within(s, a, b) == \A i \in 1 .. Len(s) : s[i] # 0 => a < s[i] /\ s[i] <= b

OrderInv ==
  /\ Rising(pull) /\ Rising(paula) /\ Ordered(pull, paula)
  /\ Within(pull, last, made) /\ Within(paula, last, made)
  /\ last <= made

LEMMA UnitsAre == \A s, u : u \in Units(s) <=> u # 0 /\ \E i \in 1 .. Len(s) : s[i] = u
BY DEF Units

\* Silence can be put anywhere.
LEMMA ZerosAreOrdered ==
  ASSUME NEW s \in Seq(Nat), \A i \in 1 .. Len(s) : s[i] = 0
  PROVE  /\ Rising(s)
         /\ \A t : Ordered(s, t)
         /\ \A a, b : Within(s, a, b)
BY DEF Rising, Ordered, Within

\* A part that is cut off stays ordered, in itself and to what follows.
LEMMA PartIsOrdered ==
  ASSUME NEW s \in Seq(Nat), NEW m \in Nat \ {0}, NEW n \in 0 .. Len(s), NEW t, NEW a, NEW b
  PROVE  /\ Rising(s) => Rising(SubSeq(s, m, n))
         /\ Ordered(s, t) => Ordered(SubSeq(s, m, n), t)
         /\ Within(s, a, b) => Within(SubSeq(s, m, n), a, b)
<1> DEFINE q == SubSeq(s, m, n)
<1>1. Len(s) \in Nat
  BY LenProperties
<1>2. Len(q) = (IF m <= n THEN n - m + 1 ELSE 0) /\ \A i \in 1 .. Len(q) : q[i] = s[m + i - 1]
  BY PartFacts
<1> HIDE DEF q
<1>3. \A i \in 1 .. Len(q) : m + i - 1 \in 1 .. Len(s) /\ q[i] = s[m + i - 1]
  <2>1. CASE m <= n
    <3>1. Len(q) = n - m + 1
      BY <1>2, <2>1
    <3> QED
      BY <1>1, <1>2, <3>1
  <2>2. CASE ~(m <= n)
    BY <1>2, <2>2
  <2> QED
    BY <2>1, <2>2
<1>4. \A i, j \in 1 .. Len(q) : i < j => m + i - 1 < m + j - 1
  BY <1>1, <1>2
<1>5. Rising(s) => Rising(q)
  BY <1>3, <1>4 DEF Rising
<1>6. Ordered(s, t) => Ordered(q, t)
  BY <1>3 DEF Ordered
<1>7. Within(s, a, b) => Within(q, a, b)
  BY <1>3 DEF Within
<1> QED
  BY <1>5, <1>6, <1>7 DEF q

\* A chunk put behind what is older stays in order.
LEMMA ChunkIsOrdered ==
  ASSUME NEW s \in Seq(Nat), NEW p \in Seq(Nat), NEW a \in Nat, NEW b \in Nat,
         Rising(s), Rising(p), Ordered(s, p), Within(s, a, b), Within(p, a, b), a <= b
  PROVE  /\ Rising(s \o Append(p, b + 1))
         /\ Within(s \o Append(p, b + 1), a, b + 1)
<1> DEFINE u == b + 1
           q == s \o Append(p, u)
<1>1. Len(s) \in Nat /\ Len(p) \in Nat
  BY LenProperties
<1>2. u \in Nat
  OBVIOUS
<1>3. /\ Len(q) = Len(s) + Len(p) + 1
      /\ \A i \in 1 .. Len(q) : q[i] = IF i <= Len(s) THEN s[i]
                                       ELSE IF i <= Len(s) + Len(p) THEN p[i - Len(s)] ELSE u
  BY <1>2, ChunkFacts
<1> HIDE DEF q
<1>4. \A i \in 1 .. Len(q) :
        \/ i \in 1 .. Len(s) /\ q[i] = s[i]
        \/ i - Len(s) \in 1 .. Len(p) /\ q[i] = p[i - Len(s)]
        \/ i = Len(q) /\ q[i] = u
  BY <1>1, <1>3
<1>5. Within(q, a, u)
  <2>1. (\A i \in 1 .. Len(s) : s[i] \in Nat) /\ (\A i \in 1 .. Len(p) : p[i] \in Nat)
    BY ElementOfSeq
  <2>2. \A i \in 1 .. Len(s) : s[i] # 0 => a < s[i] /\ s[i] <= u
    BY <2>1 DEF Within
  <2>3. \A i \in 1 .. Len(p) : p[i] # 0 => a < p[i] /\ p[i] <= u
    BY <2>1 DEF Within
  <2>4. a < u
    OBVIOUS
  <2> HIDE DEF u
  <2>5. ASSUME NEW i \in 1 .. Len(q), q[i] # 0 PROVE a < q[i] /\ q[i] <= u
    <3>1. CASE i \in 1 .. Len(s) /\ q[i] = s[i]
      BY <2>2, <2>5, <3>1
    <3>2. CASE i - Len(s) \in 1 .. Len(p) /\ q[i] = p[i - Len(s)]
      BY <2>3, <2>5, <3>2
    <3>3. CASE q[i] = u
      BY <1>2, <2>4, <3>3
    <3> QED
      BY <1>4, <3>1, <3>2, <3>3
  <2> QED
    BY <2>5 DEF Within
<1>6. ASSUME NEW i \in 1 .. Len(q), NEW j \in 1 .. Len(q), i < j, q[i] # 0
      PROVE  q[i] < q[j]
  <2>1. i \in 1 .. Len(s) => q[i] = s[i] /\ q[i] <= b
    BY <1>1, <1>3, <1>6 DEF Within
  <2>2. i - Len(s) \in 1 .. Len(p) => q[i] = p[i - Len(s)] /\ q[i] <= b
    BY <1>1, <1>3, <1>6 DEF Within
  <2>3. i # Len(q) /\ (i \in 1 .. Len(s) \/ i - Len(s) \in 1 .. Len(p))
    BY <1>1, <1>3, <1>6
  <2>4. CASE j = Len(q)
    <3>1. q[j] = b + 1
      BY <1>1, <1>3, <2>4
    <3>2. q[i] \in Nat
      BY <2>1, <2>2, <2>3, ElementOfSeq
    <3> QED
      BY <2>1, <2>2, <2>3, <3>1, <3>2
  <2>5. CASE j \in 1 .. Len(s)
    <3>1. q[j] = s[j] /\ i \in 1 .. Len(s)
      BY <1>1, <1>3, <1>6, <2>5
    <3> QED
      BY <1>6, <2>1, <2>5, <3>1 DEF Rising
  <2>6. CASE j - Len(s) \in 1 .. Len(p)
    <3>1. q[j] = p[j - Len(s)]
      BY <1>1, <1>3, <2>6
    <3>2. i \in 1 .. Len(s) => s[i] < p[j - Len(s)]
      BY <1>6, <2>1, <2>6 DEF Ordered
    <3>3. i - Len(s) \in 1 .. Len(p) => p[i - Len(s)] < p[j - Len(s)]
      <4>1. i - Len(s) < j - Len(s)
        BY <1>1, <1>6
      <4> QED
        BY <1>6, <2>2, <2>6, <4>1 DEF Rising
    <3> QED
      BY <2>1, <2>2, <2>3, <3>1, <3>2, <3>3
  <2> QED
    BY <1>4, <2>4, <2>5, <2>6
<1>7. Rising(q)
  BY <1>6 DEF Rising
<1> QED
  BY <1>5, <1>7 DEF q

LEMMA InitOrder == Init => OrderInv
<1> SUFFICES ASSUME Init PROVE OrderInv
  OBVIOUS
<1>1. Len(pull) = 0 /\ Len(paula) = 0 /\ last = 0 /\ made = 0
  BY DEF Init
<1> QED
  BY <1>1 DEF OrderInv, Rising, Ordered, Within

\* A sample that left the buffer was delivered or lost for a stated reason.
Accounted ==
  \A u \in Units(pull) :
    u \in Units(pull') \/ u <= last' \/ dropped' > dropped \/ dev' # "playing"

LEMMA SameIsAccounted == ASSUME pull' = pull PROVE Accounted
BY DEF Accounted

LEMMA PushOrder ==
  ASSUME LevelInv, OrderInv, Push, made' = made + 1, Len(paula) + 1 = Chunk,
         paula' = <<>>, last' = last
  PROVE  OrderInv' /\ Accounted
<1> DEFINE overflow == Len(pull) + Chunk > Max
           m == Len(pull) - Target + 1
           kept == IF overflow THEN SubSeq(pull, m, Len(pull)) ELSE pull
<1>1. /\ pull \in Seq(Nat) /\ paula \in Seq(Nat) /\ Len(pull) \in Nat /\ Len(paula) \in Nat
      /\ dropped \in Nat /\ made \in Nat /\ last \in Nat
  BY LenProperties DEF LevelInv, TypeOK
<1>2. pull' = kept \o Append(paula, made + 1) /\ dropped' = IF overflow THEN dropped + 1 ELSE dropped
  BY DEF Push
<1>3. /\ kept \in Seq(Nat) /\ Rising(kept) /\ Ordered(kept, paula) /\ Within(kept, last, made)
      /\ ~overflow => kept = pull
  <2>1. CASE ~overflow
    BY <1>1, <2>1 DEF OrderInv
  <2>2. CASE overflow
    <3>1. m \in Nat \ {0} /\ Len(pull) \in 0 .. Len(pull)
      BY <1>1, <2>2, MaxFacts, SizesAssumption DEF LevelInv, PullFits
    <3>2. kept = SubSeq(pull, m, Len(pull))
      BY <2>2
    <3> HIDE DEF m, kept
    <3> QED
      BY <1>1, <2>2, <3>1, <3>2, PartFacts, PartIsOrdered DEF OrderInv
  <2> QED
    BY <2>1, <2>2
<1> HIDE DEF kept
<1>4. Rising(pull') /\ Within(pull', last, made + 1)
  BY <1>1, <1>2, <1>3, ChunkIsOrdered DEF OrderInv
<1>5. Len(paula') = 0 /\ last <= made + 1
  BY <1>1 DEF OrderInv
<1>6. OrderInv'
  BY <1>4, <1>5 DEF OrderInv, Rising, Ordered, Within
<1>7. CASE overflow
  <2>1. dropped' = dropped + 1
    BY <1>2, <1>7
  <2>2. dropped' > dropped
    BY <1>1, <2>1
  <2> QED
    BY <1>6, <2>2 DEF Accounted
<1>8. CASE ~overflow
  <2>1. \A i \in 1 .. Len(pull) : i \in 1 .. Len(pull') /\ pull'[i] = pull[i]
    BY <1>1, <1>2, <1>3, <1>8, ChunkFacts
  <2> QED
    BY <1>6, <2>1 DEF Accounted, Units
<1> QED
  BY <1>6, <1>7, <1>8

LEMMA RenderOrder ==
  ASSUME LevelInv, OrderInv, RenderSample
  PROVE  OrderInv' /\ Accounted
<1>1. /\ pull \in Seq(Nat) /\ paula \in Seq(Nat) /\ Len(pull) \in Nat /\ Len(paula) \in Nat
      /\ made \in Nat /\ last \in Nat /\ Len(paula) < Chunk
  BY LenProperties DEF LevelInv, TypeOK
<1>2. made' = made + 1 /\ last' = last
  BY DEF RenderSample, callback
<1>3. CASE Len(paula) + 1 < Chunk
  <2>1. pull' = pull /\ paula' = Append(paula, made + 1)
    BY <1>2, <1>3 DEF RenderSample
  <2>2. /\ Len(paula') = Len(paula) + 1
        /\ \A i \in 1 .. Len(paula) : paula'[i] = paula[i]
        /\ paula'[Len(paula) + 1] = made + 1
    BY <1>1, <2>1, AppendProperties
  <2>3. (\A i \in 1 .. Len(paula) : paula[i] \in Nat) /\ (\A i \in 1 .. Len(pull) : pull[i] \in Nat)
    BY <1>1, ElementOfSeq
  <2>4. \A i \in 1 .. Len(paula') : i \in 1 .. Len(paula) \/ i = Len(paula) + 1
    BY <1>1, <2>2
  <2>5. Within(paula', last, made + 1)
    BY <1>1, <2>2, <2>3, <2>4 DEF OrderInv, Within
  <2>6. Within(pull, last, made + 1)
    BY <1>1, <2>3 DEF OrderInv, Within
  <2>7. Rising(paula')
    <3> SUFFICES ASSUME NEW i \in 1 .. Len(paula'), NEW j \in 1 .. Len(paula'), i < j, paula'[i] # 0
                 PROVE  paula'[i] < paula'[j]
      BY DEF Rising
    <3>1. i \in 1 .. Len(paula) /\ paula'[i] = paula[i]
      BY <1>1, <2>2, <2>4
    <3>2. CASE j \in 1 .. Len(paula)
      BY <2>2, <3>1, <3>2 DEF OrderInv, Rising
    <3>3. CASE j = Len(paula) + 1
      BY <1>1, <2>2, <2>3, <3>1, <3>3 DEF OrderInv, Within
    <3> QED
      BY <2>4, <3>2, <3>3
  <2>8. Ordered(pull, paula')
    <3> SUFFICES ASSUME NEW i \in 1 .. Len(pull), NEW j \in 1 .. Len(paula'), pull[i] # 0
                 PROVE  pull[i] < paula'[j]
      BY DEF Ordered
    <3>1. CASE j \in 1 .. Len(paula)
      BY <2>2, <3>1 DEF OrderInv, Ordered
    <3>2. CASE j = Len(paula) + 1
      BY <1>1, <2>2, <2>3, <3>2 DEF OrderInv, Within
    <3> QED
      BY <2>4, <3>1, <3>2
  <2>9. OrderInv'
    BY <1>1, <1>2, <2>1, <2>5, <2>6, <2>7, <2>8 DEF OrderInv
  <2> QED
    BY <2>1, <2>9, SameIsAccounted
<1>4. CASE ~(Len(paula) + 1 < Chunk)
  <2>1. paula' = <<>> /\ \E saving \in BOOLEAN : FinishSoundBuffer(saving)
    BY <1>4 DEF RenderSample
  <2>2. Len(paula) + 1 = Chunk /\ Len(paula') = 0
    BY <1>1, <1>4, <2>1, SizesAssumption
  <2>3. pull' = pull \/ Push
    BY <2>1 DEF FinishSoundBuffer
  <2>4. CASE pull' = pull
    <3>1. \A i \in 1 .. Len(pull) : pull[i] \in Nat
      BY <1>1, ElementOfSeq
    <3>2. Within(pull, last, made + 1)
      BY <1>1, <3>1 DEF OrderInv, Within
    <3>3. Rising(paula') /\ Ordered(pull, paula') /\ Within(paula', last, made + 1)
      BY <2>2 DEF Rising, Ordered, Within
    <3>4. OrderInv'
      BY <1>1, <1>2, <2>4, <3>2, <3>3 DEF OrderInv
    <3> QED
      BY <2>4, <3>4, SameIsAccounted
  <2>5. CASE Push
    BY <1>2, <2>1, <2>2, <2>5, PushOrder
  <2> QED
    BY <2>3, <2>4, <2>5
<1> QED
  BY <1>3, <1>4

LEMMA SyncOrder ==
  ASSUME OrderInv, Sync \/ CallbackStart
  PROVE  OrderInv' /\ Accounted
<1>1. UNCHANGED <<pull, paula, made, last>>
  BY DEF Sync, SyncSkipped, SyncStart, SyncWait, SyncEnd, CallbackStart, samples, callback
<1> QED
  BY <1>1, SameIsAccounted DEF OrderInv

\* Both buffers zeroed, or nothing changed.
LEMMA SilencedOrder ==
  ASSUME LevelInv, OrderInv, made' = made, last' = last,
         NEW k \in Nat, NEW l \in Nat, pull' = Silence(k), paula' = Silence(l) \/ paula' = paula
  PROVE  OrderInv'
<1>1. pull' \in Seq(Nat) /\ \A i \in 1 .. Len(pull') : pull'[i] = 0
  BY SilenceFacts
<1>2. Rising(pull') /\ Ordered(pull', paula') /\ Within(pull', last, made)
  BY <1>1, ZerosAreOrdered
<1>3. CASE paula' = paula
  BY <1>2, <1>3 DEF OrderInv
<1>4. CASE paula' = Silence(l)
  <2>1. paula' \in Seq(Nat) /\ \A i \in 1 .. Len(paula') : paula'[i] = 0
    BY <1>4, SilenceFacts
  <2>2. Rising(paula') /\ Within(paula', last, made)
    BY <2>1, ZerosAreOrdered
  <2> QED
    BY <1>2, <2>2 DEF OrderInv
<1> QED
  BY <1>3, <1>4

LEMMA SwitchOrder ==
  ASSUME LevelInv, OrderInv, Switch
  PROVE  OrderInv' /\ Accounted
<1>1. made' = made /\ last' = last
  BY DEF Switch, PrefillBuffer, UnpauseDevice, DebuggerStop, DebuggerContinue, WarpOn, WarpOff,
         InitSound, CloseSound, samples, callback
<1>2. pull \in Seq(Nat) /\ Len(pull) \in Nat /\ Len(paula) \in Nat
  BY LenProperties DEF LevelInv, TypeOK
<1>3. CASE UNCHANGED <<pull, paula>>
  BY <1>1, <1>3, SameIsAccounted DEF OrderInv
<1>4. CASE PrefillBuffer \/ InitSound
  <2>1. PICK k \in Nat, l \in Nat : pull' = Silence(k) /\ (paula' = Silence(l) \/ paula' = paula)
    <3>1. CASE PrefillBuffer
      <4>1. (IF 3 * Frame > Max THEN Target ELSE 3 * Frame) \in Nat
        BY MaxFacts, SizesAssumption
      <4> QED
        BY <3>1, <4>1 DEF PrefillBuffer
    <3>2. CASE InitSound
      <4>1. Silence(0) = <<>>
        BY DEF Silence
      <4> QED
        BY <3>2, <4>1, MaxFacts DEF InitSound
    <3> QED
      BY <1>4, <3>1, <3>2
  <2>2. OrderInv'
    BY <1>1, <2>1, SilencedOrder
  <2>3. dev' # "playing"
    BY <1>4 DEF PrefillBuffer, InitSound, LevelInv, NoRace
  <2> QED
    BY <2>2, <2>3 DEF Accounted
<1>5. CASE ClearBuffer /\ dev' # "playing"
  <2>1. OrderInv'
    BY <1>1, <1>2, <1>5, SilencedOrder DEF ClearBuffer
  <2> QED
    BY <1>5, <2>1 DEF Accounted
<1>6. CASE CloseSound
  <2>1. Silence(0) = <<>> /\ dev' # "playing"
    BY <1>6 DEF Silence, CloseSound
  <2>2. OrderInv'
    BY <1>1, <1>2, <1>6, <2>1, SilencedOrder DEF CloseSound
  <2> QED
    BY <2>1, <2>2 DEF Accounted
<1>7. CASE UnpauseDevice
  BY <1>3, <1>7 DEF UnpauseDevice, samples
<1>8. CASE DebuggerStop \/ WarpOn
  <2>1. PauseSound
    BY <1>8 DEF DebuggerStop, WarpOn
  <2>2. UNCHANGED <<pull, paula>> \/ (ClearBuffer /\ dev' # "playing")
    BY <2>1 DEF PauseSound
  <2> QED
    BY <1>3, <1>5, <2>2
<1>9. CASE DebuggerContinue \/ WarpOff
  <2>1. ResumeSound /\ dev' = dev
    BY <1>9 DEF DebuggerContinue, WarpOff
  <2>2. UNCHANGED <<pull, paula>> \/ (ClearBuffer /\ dev' # "playing")
    BY <2>1 DEF ResumeSound, LevelInv, DeviceInv
  <2> QED
    BY <1>3, <1>5, <2>2
<1> QED
  BY <1>4, <1>6, <1>7, <1>8, <1>9 DEF Switch

LEMMA CallbackEndOrder ==
  ASSUME LevelInv, OrderInv, CallbackEnd
  PROVE  OrderInv' /\ Accounted
<1>1. /\ pull \in Seq(Nat) /\ Len(pull) \in Nat /\ made \in Nat /\ last \in Nat
      /\ \A i \in 1 .. Len(pull) : pull[i] \in Nat
  BY LenProperties, ElementOfSeq DEF LevelInv, TypeOK
<1>2. paula' = paula /\ made' = made /\ need # 0 /\ seen = Len(pull)
  BY DEF CallbackEnd, Locked, LevelInv, NoRace
<1>3. CASE seen = 0
  <2>1. pull' = Silence(Target) /\ last' = last
    BY <1>3 DEF CallbackEnd, Underrun
  <2>2. OrderInv'
    BY <1>2, <2>1, SilencedOrder, MaxFacts
  <2>3. Units(pull) = {}
    BY <1>1, <1>2, <1>3 DEF Units
  <2> QED
    BY <2>2, <2>3 DEF Accounted
<1>4. CASE seen # 0
  <2>1. PICK taken \in 1 .. Len(pull) :
          /\ pull' = SubSeq(pull, taken + 1, Len(pull))
          /\ Len(pull') = Len(pull) - taken
          /\ \A i \in 1 .. Len(pull') : pull'[i] = pull[taken + i]
          /\ last' = IF pull[taken] # 0 THEN pull[taken] ELSE last
    BY <1>2, <1>4, DeliverFacts DEF CallbackEnd, LevelInv
  <2>2. taken + 1 \in Nat \ {0} /\ Len(pull) \in 0 .. Len(pull)
    BY <1>1
  <2>3. Rising(pull') /\ Ordered(pull', paula)
    BY <1>1, <2>1, <2>2, PartIsOrdered DEF OrderInv
  <2>4. last' <= made /\ last <= last'
    BY <1>1, <2>1 DEF OrderInv, Within
  <2>5. \A i \in 1 .. Len(pull') : taken + i \in 1 .. Len(pull) /\ taken < taken + i
    BY <1>1, <2>1
  <2>6. Within(pull', last', made)
    <3> SUFFICES ASSUME NEW i \in 1 .. Len(pull'), pull'[i] # 0
                 PROVE  last' < pull'[i] /\ pull'[i] <= made
      BY DEF Within
    <3>1. pull'[i] = pull[taken + i] /\ taken + i \in 1 .. Len(pull) /\ taken < taken + i
      BY <2>1, <2>5
    <3>2. last < pull'[i] /\ pull'[i] <= made
      BY <3>1 DEF OrderInv, Within
    <3>3. pull[taken] # 0 => pull[taken] < pull'[i]
      BY <3>1 DEF OrderInv, Rising
    <3> QED
      BY <2>1, <3>2, <3>3
  <2>7. Within(paula, last', made)
    <3> SUFFICES ASSUME NEW j \in 1 .. Len(paula), paula[j] # 0
                 PROVE  last' < paula[j] /\ paula[j] <= made
      BY DEF Within
    <3>1. last < paula[j] /\ paula[j] <= made
      BY DEF OrderInv, Within
    <3>2. pull[taken] # 0 => pull[taken] < paula[j]
      BY DEF OrderInv, Ordered
    <3> QED
      BY <2>1, <3>1, <3>2
  <2>8. OrderInv'
    BY <1>2, <2>3, <2>4, <2>6, <2>7 DEF OrderInv
  <2>9. Accounted
    <3> SUFFICES ASSUME NEW u \in Units(pull) PROVE u \in Units(pull') \/ u <= last'
      BY DEF Accounted
    <3>1. PICK i \in 1 .. Len(pull) : pull[i] = u /\ u # 0
      BY DEF Units
    <3>2. CASE i <= taken
      <4>1. i = taken \/ i < taken
        BY <1>1, <3>2
      <4>2. pull[taken] # 0 /\ u <= pull[taken]
        BY <1>1, <3>1, <4>1 DEF OrderInv, Rising
      <4> QED
        BY <2>1, <4>2
    <3>3. CASE i > taken
      <4>1. i - taken \in 1 .. Len(pull') /\ taken + (i - taken) = i
        BY <1>1, <2>1, <3>3
      <4>2. pull'[i - taken] = u
        BY <2>1, <3>1, <4>1
      <4> QED
        BY <3>1, <4>1, <4>2 DEF Units
    <3> QED
      BY <1>1, <3>2, <3>3
  <2> QED
    BY <2>8, <2>9
<1> QED
  BY <1>3, <1>4

LEMMA NextOrder ==
  ASSUME LevelInv, OrderInv, [Next]_vars
  PROVE  OrderInv' /\ Accounted
<1>1. CASE UNCHANGED vars
  <2>1. UNCHANGED <<pull, paula, made, last>>
    BY <1>1 DEF vars, samples, callback
  <2> QED
    BY <2>1, SameIsAccounted DEF OrderInv
<1>2. CASE Next
  BY <1>2, RenderOrder, SyncOrder, SwitchOrder, CallbackEndOrder DEF Next, Callback
<1> QED
  BY <1>1, <1>2

LEMMA AlwaysOrder == Spec => []OrderInv
<1>1. LevelInv /\ OrderInv /\ [Next]_vars => OrderInv'
  BY NextOrder
<1> QED
  BY <1>1, InitOrder, AlwaysLevel, PTL DEF Spec

\* The device gets the samples in the order of rendering, for any sizes.
THEOREM SamplesInOrder == Spec => []InOrder
<1>1. OrderInv => InOrder
  BY DEF OrderInv, InOrder, Within, Units
<1> QED
  BY <1>1, AlwaysOrder, PTL

\* No sample is lost without an overflow, a pause or a close.
THEOREM NothingEverVanishes == Spec => NothingVanishes
<1>1. LevelInv /\ OrderInv /\ [Next]_vars => [Accounted]_vars
  BY NextOrder
<1>2. [Accounted]_vars =>
        [\A u \in Units(pull) :
           u \in Units(pull') \/ u <= last' \/ dropped' > dropped \/ dev' # "playing"]_vars
  BY DEF Accounted
<1> QED
  BY <1>1, <1>2, AlwaysLevel, AlwaysOrder, PTL DEF Spec, NothingVanishes

-----------------------------------------------------------------------------
(* The way of a sample through the pull buffer: what BufferDrains rests    *)
(* on, apart from the card asking again.                                   *)

\* No step moves a sample away from the front, and the end of a callback moves
\* every sample it leaves in the buffer nearer to it.
Advances ==
  \A i \in 1 .. Len(pull), j \in 1 .. Len(pull') :
    pull[i] # 0 /\ pull'[j] = pull[i] => j <= i /\ (Locked /\ ~Locked' => j < i)

\* A unit is at one place.
LEMMA UnitsAreApart ==
  ASSUME NEW s \in Seq(Nat), Rising(s), NEW i \in 1 .. Len(s), NEW j \in 1 .. Len(s),
         s[i] # 0, s[j] = s[i]
  PROVE  j = i
<1>1. s[i] \in Nat /\ Len(s) \in Nat
  BY ElementOfSeq, LenProperties
<1>2. ~(i < j) /\ ~(j < i)
  BY <1>1 DEF Rising
<1> QED
  BY <1>1, <1>2

LEMMA UnmovedAdvances ==
  ASSUME LevelInv, OrderInv, pull' = pull, need' = need \/ need = 0
  PROVE  Advances
<1>1. pull \in Seq(Nat) /\ Len(pull) \in Nat /\ Rising(pull)
  BY LenProperties DEF LevelInv, TypeOK, OrderInv
<1> QED
  BY <1>1, UnitsAreApart DEF Advances, Locked

LEMMA SilencedAdvances ==
  ASSUME NEW k \in Nat, pull' = Silence(k)
  PROVE  Advances
BY SilenceFacts DEF Advances

LEMMA PushAdvances ==
  ASSUME LevelInv, OrderInv, Push, made' = made + 1
  PROVE  Advances
<1> DEFINE overflow == Len(pull) + Chunk > Max
           m == IF overflow THEN Len(pull) - Target + 1 ELSE 1
           kept == IF overflow THEN SubSeq(pull, m, Len(pull)) ELSE pull
<1>1. /\ pull \in Seq(Nat) /\ paula \in Seq(Nat) /\ Len(pull) \in Nat /\ Len(paula) \in Nat
      /\ made \in Nat /\ Rising(pull) /\ need = 0
  BY LenProperties DEF LevelInv, TypeOK, OrderInv, Push, Locked
<1>2. pull' = kept \o Append(paula, made + 1)
  BY DEF Push
<1>3. m \in Nat \ {0} /\ Len(pull) \in 0 .. Len(pull)
  BY <1>1, MaxFacts, SizesAssumption DEF LevelInv, PullFits
<1>4. /\ kept \in Seq(Nat) /\ Len(kept) \in Nat
      /\ \A j \in 1 .. Len(kept) : m + j - 1 \in 1 .. Len(pull) /\ kept[j] = pull[m + j - 1]
  <2>1. CASE ~overflow
    BY <1>1, <2>1
  <2>2. CASE overflow
    <3>1. kept = SubSeq(pull, m, Len(pull))
      BY <2>2
    <3> HIDE DEF m, kept
    <3>2. /\ kept \in Seq(Nat) /\ Len(kept) = (IF m <= Len(pull) THEN Len(pull) - m + 1 ELSE 0)
          /\ \A j \in 1 .. Len(kept) : kept[j] = pull[m + j - 1]
      BY <1>1, <1>3, <3>1, PartFacts
    <3> QED
      BY <1>1, <1>3, <3>2
  <2> QED
    BY <2>1, <2>2
<1> HIDE DEF m, kept, overflow
<1>5. /\ Len(pull') = Len(kept) + Len(paula) + 1
      /\ \A j \in 1 .. Len(pull') :
           pull'[j] = IF j <= Len(kept) THEN kept[j]
                      ELSE IF j <= Len(kept) + Len(paula) THEN paula[j - Len(kept)] ELSE made + 1
  BY <1>1, <1>2, <1>4, ChunkFacts
<1> SUFFICES ASSUME NEW i \in 1 .. Len(pull), NEW j \in 1 .. Len(pull'),
                    pull[i] # 0, pull'[j] = pull[i]
             PROVE  j <= i
  BY <1>1 DEF Advances, Locked
<1>6. CASE j \in 1 .. Len(kept)
  <2>1. pull'[j] = kept[j]
    BY <1>5, <1>6
  <2>2. m + j - 1 \in 1 .. Len(pull) /\ pull[m + j - 1] = pull[i]
    BY <1>4, <1>6, <2>1
  <2>3. m + j - 1 = i
    BY <1>1, <2>2, UnitsAreApart
  <2> QED
    BY <1>1, <1>3, <2>3
<1>7. CASE j \notin 1 .. Len(kept)
  <2>1. pull[i] \in Nat /\ pull[i] <= made
    BY <1>1, ElementOfSeq DEF OrderInv, Within
  <2>2. CASE j <= Len(kept) + Len(paula)
    <3>1. j - Len(kept) \in 1 .. Len(paula) /\ pull'[j] = paula[j - Len(kept)]
      BY <1>1, <1>4, <1>5, <1>7, <2>2
    <3>2. pull[i] < paula[j - Len(kept)]
      BY <3>1 DEF OrderInv, Ordered
    <3> QED
      BY <2>1, <3>1, <3>2
  <2>3. CASE ~(j <= Len(kept) + Len(paula))
    <3>1. pull'[j] = made + 1
      BY <1>1, <1>4, <1>5, <1>7, <2>3
    <3> QED
      BY <1>1, <2>1, <3>1
  <2> QED
    BY <2>2, <2>3
<1> QED
  BY <1>6, <1>7

LEMMA CallbackAdvances ==
  ASSUME LevelInv, OrderInv, CallbackEnd
  PROVE  Advances
<1>1. pull \in Seq(Nat) /\ Len(pull) \in Nat /\ Rising(pull) /\ need # 0 /\ seen = Len(pull)
  BY LenProperties DEF CallbackEnd, Locked, LevelInv, TypeOK, OrderInv, NoRace
<1>2. CASE seen = 0
  BY <1>1, <1>2 DEF Advances
<1>3. CASE seen # 0
  <2>1. PICK taken \in 1 .. Len(pull) :
          /\ Len(pull') = Len(pull) - taken
          /\ \A j \in 1 .. Len(pull') : pull'[j] = pull[taken + j]
    BY <1>1, <1>3, DeliverFacts DEF CallbackEnd, LevelInv
  <2> SUFFICES ASSUME NEW i \in 1 .. Len(pull), NEW j \in 1 .. Len(pull'),
                      pull[i] # 0, pull'[j] = pull[i]
               PROVE  j < i
    BY <1>1, <2>1 DEF Advances
  <2>2. taken + j \in 1 .. Len(pull) /\ pull[taken + j] = pull[i]
    BY <1>1, <2>1
  <2>3. taken + j = i
    BY <1>1, <2>2, UnitsAreApart
  <2> QED
    BY <1>1, <2>1, <2>3
<1> QED
  BY <1>2, <1>3

LEMMA NextAdvances ==
  ASSUME LevelInv, OrderInv, [Next]_vars
  PROVE  Advances
<1>1. CASE RenderSample
  <2>1. made' = made + 1 /\ need' = need
    BY <1>1 DEF RenderSample, callback
  <2>2. pull' = pull \/ Push
    BY <1>1 DEF RenderSample, FinishSoundBuffer
  <2> QED
    BY <2>1, <2>2, UnmovedAdvances, PushAdvances
<1>2. CASE Sync \/ UNCHANGED vars
  <2>1. pull' = pull /\ need' = need
    BY <1>2 DEF Sync, SyncSkipped, SyncStart, SyncWait, SyncEnd, samples, callback, vars
  <2> QED
    BY <2>1, UnmovedAdvances
<1>3. CASE Switch
  <2>1. need' = need
    BY <1>3 DEF Switch, PrefillBuffer, UnpauseDevice, DebuggerStop, DebuggerContinue, WarpOn,
       WarpOff, InitSound, CloseSound, callback
  <2>2. Silence(0) = <<>> /\ Len(pull) \in Nat
    BY LenProperties DEF Silence, LevelInv, TypeOK
  <2>3. (IF 3 * Frame > Max THEN Target ELSE 3 * Frame) \in Nat /\ Target \in Nat
    BY MaxFacts, SizesAssumption
  <2>4. pull' = pull \/ \E k \in Nat : pull' = Silence(k)
    BY <1>3, <2>2, <2>3
    DEF Switch, PrefillBuffer, UnpauseDevice, DebuggerStop, DebuggerContinue, WarpOn, WarpOff,
        InitSound, CloseSound, PauseSound, ResumeSound, ClearBuffer, samples
  <2> QED
    BY <2>1, <2>4, UnmovedAdvances, SilencedAdvances
<1>4. CASE CallbackStart
  <2>1. pull' = pull /\ need = 0
    BY <1>4 DEF CallbackStart, samples, Locked
  <2> QED
    BY <2>1, UnmovedAdvances
<1> QED
  BY <1>1, <1>2, <1>3, <1>4, CallbackAdvances DEF Next, Callback

\* A sample in the pull buffer only ever gets nearer to the device, and every
\* callback brings it nearer: a sample at place i has left it after at most i
\* callbacks, delivered or, as NothingEverVanishes says, dropped or cleared.
THEOREM SamplesAdvance == Spec => [][Advances]_vars
<1>1. LevelInv /\ OrderInv /\ [Next]_vars => [Advances]_vars
  BY NextAdvances
<1> QED
  BY <1>1, AlwaysLevel, AlwaysOrder, PTL DEF Spec

-----------------------------------------------------------------------------
(* From the fairness: the wait at the end of a frame is over, and the      *)
(* buffer drains.  The guards of the actions suffice for a step, which is  *)
(* a hypothesis, for ENABLED has no rules here.  Both arguments are chains *)
(* whose length the code gives: a wait has at most five rounds of 20 ms,   *)
(* and the pull buffer has six chunks of at most 1024 frames, one of which *)
(* leaves with each callback at least.                                     *)

GuardsSuffice ==
  /\ pc = "wait" => ENABLED <<Sync>>_vars
  /\ dev = "playing" /\ ~Locked => ENABLED <<CallbackStart>>_vars
  /\ Locked => ENABLED <<CallbackEnd>>_vars

WaitsAt(round) == pc = "wait" /\ guard = round

LEMMA WaitSuccessors ==
  ASSUME NEW round \in Nat, TypeOK, WaitsAt(round), [Next]_vars
  PROVE  IF Sync
         THEN pc' = "run" \/ (round < Rounds /\ WaitsAt(round + 1)')
         ELSE WaitsAt(round)'
<1>1. CASE Sync
  BY <1>1 DEF Sync, SyncSkipped, SyncStart, SyncWait, SyncEnd, StartFrame, WaitsAt
<1>2. CASE ~Sync
  BY <1>2 DEF Next, RenderSample, Switch, PrefillBuffer, UnpauseDevice, DebuggerStop,
     DebuggerContinue, WarpOn, WarpOff, InitSound, CloseSound, Callback, CallbackStart, CallbackEnd,
     vars, WaitsAt
<1> QED
  BY <1>1, <1>2

\* The wait for the sound card is over after at most Rounds rounds, whether or
\* not callbacks come meanwhile.
THEOREM WaitIsOver ==
  ASSUME Rounds <= 5
  PROVE  FairSpec /\ []GuardsSuffice => WaitEnds
<1> DEFINE Live == FairSpec /\ []GuardsSuffice
           On == pc = "run"
           Step(here, next) ==
             TypeOK /\ [Next]_vars /\ WaitsAt(here)
               => (WaitsAt(here)' \/ WaitsAt(next)' \/ On') /\ (<<Sync>>_vars => WaitsAt(next)' \/ On')
<1>1. /\ Step(0, 1) /\ Step(1, 2) /\ Step(2, 3) /\ Step(3, 4) /\ Step(4, 5)
      /\ TypeOK /\ [Next]_vars /\ WaitsAt(5) => (WaitsAt(5)' \/ On') /\ (<<Sync>>_vars => On')
  <2>1. ASSUME NEW n \in Nat, TypeOK, [Next]_vars, WaitsAt(n)
        PROVE  /\ WaitsAt(n)' \/ (WaitsAt(n + 1)' /\ n < 5) \/ On'
               /\ <<Sync>>_vars => (WaitsAt(n + 1)' /\ n < 5) \/ On'
    BY <2>1, WaitSuccessors, SizesAssumption
  <2> QED
    BY <2>1
<1>2. TypeOK /\ pc = "wait"
        => WaitsAt(0) \/ WaitsAt(1) \/ WaitsAt(2) \/ WaitsAt(3) \/ WaitsAt(4) \/ WaitsAt(5)
  BY SizesAssumption DEF TypeOK, WaitsAt
<1>3. GuardsSuffice
        => /\ WaitsAt(0) => ENABLED <<Sync>>_vars
           /\ WaitsAt(1) => ENABLED <<Sync>>_vars
           /\ WaitsAt(2) => ENABLED <<Sync>>_vars
           /\ WaitsAt(3) => ENABLED <<Sync>>_vars
           /\ WaitsAt(4) => ENABLED <<Sync>>_vars
           /\ WaitsAt(5) => ENABLED <<Sync>>_vars
  BY DEF GuardsSuffice, WaitsAt
<1> HIDE DEF On
<1>4. Live => (WaitsAt(5) ~> On) /\ (WaitsAt(4) ~> WaitsAt(5) \/ On) /\ (WaitsAt(3) ~> WaitsAt(4) \/ On)
  BY <1>1, <1>3, TypeCorrect, PTL DEF FairSpec, Spec
<1>5. Live => (WaitsAt(2) ~> WaitsAt(3) \/ On) /\ (WaitsAt(1) ~> WaitsAt(2) \/ On)
              /\ (WaitsAt(0) ~> WaitsAt(1) \/ On)
  BY <1>1, <1>3, TypeCorrect, PTL DEF FairSpec, Spec
<1>6. Live => (pc = "wait" ~> On)
  BY <1>2, <1>4, <1>5, TypeCorrect, PTL DEF FairSpec
<1> QED
  BY <1>6 DEF WaitEnds, On

\* A device that does not play has nothing but silence to play.
QuietInv == dev # "playing" => \A i \in 1 .. Len(pull) : pull[i] = 0

LEMMA AlwaysQuiet == Spec => []QuietInv
<1>1. Init => QuietInv
  BY DEF Init, QuietInv
<1>2. LevelInv /\ QuietInv /\ [Next]_vars => QuietInv'
  <2> SUFFICES ASSUME LevelInv, QuietInv, [Next]_vars, dev' # "playing"
               PROVE  \A i \in 1 .. Len(pull') : pull'[i] = 0
    BY DEF QuietInv
  <2>1. Silence(0) = <<>> /\ Len(<<>>) = 0 /\ Len(pull) \in Nat
    BY LenProperties DEF Silence, LevelInv, TypeOK
  <2>2. CASE RenderSample
    <3>1. dev' = dev /\ (paused \/ dev = "none")
      BY <2>2 DEF RenderSample, LevelInv, TypeOK, DeviceInv
    <3>2. pull' = pull
      BY <2>2, <3>1 DEF RenderSample, FinishSoundBuffer
    <3> QED
      BY <3>1, <3>2 DEF QuietInv
  <2>3. CASE Sync \/ UNCHANGED vars
    BY <2>3 DEF Sync, SyncSkipped, SyncStart, SyncWait, SyncEnd, samples, vars, QuietInv
  <2>4. CASE Switch
    <3>1. (IF 3 * Frame > Max THEN Target ELSE 3 * Frame) \in Nat /\ Target \in Nat
      BY MaxFacts, SizesAssumption
    <3>2. (dev' = dev /\ pull' = pull) \/ \E k \in Nat : pull' = Silence(k)
      BY <2>1, <2>4, <3>1 DEF Switch, PrefillBuffer, UnpauseDevice, DebuggerStop, DebuggerContinue,
         WarpOn, WarpOff, InitSound, CloseSound, PauseSound, ResumeSound, ClearBuffer, samples
    <3> QED
      BY <3>2, SilenceFacts DEF QuietInv
  <2>5. CASE Callback
    <3>1. dev' = dev /\ dev = "playing"
      BY <2>5 DEF Callback, CallbackStart, CallbackEnd, LevelInv, NoRace
    <3> QED
      BY <3>1
  <2> QED
    BY <2>2, <2>3, <2>4, <2>5 DEF Next
<1> QED
  BY <1>1, <1>2, AlwaysLevel, PTL DEF Spec

\* A sample is among the first k of the buffer.
Near(u, k) == \E i \in 1 .. Len(pull) : pull[i] = u /\ i <= k

LEMMA NearStep ==
  ASSUME NEW u \in 1 .. Made, NEW k \in Int, LevelInv, OrderInv, [Next]_vars, Near(u, k)
  PROVE  /\ Near(u, k)' \/ u \notin Units(pull')
         /\ CallbackEnd => Near(u, k - 1)' \/ u \notin Units(pull')
<1>1. u # 0 /\ Len(pull) \in Nat /\ Len(pull') \in Nat
  BY NextLevel, LenProperties DEF LevelInv, TypeOK
<1>2. PICK i \in 1 .. Len(pull) : pull[i] = u /\ i <= k
  BY DEF Near
<1>3. ASSUME u \in Units(pull')
      PROVE  Near(u, k)' /\ (CallbackEnd => Near(u, k - 1)')
  <2>1. PICK j \in 1 .. Len(pull') : pull'[j] = u
    BY <1>3 DEF Units
  <2>2. j <= i /\ (Locked /\ ~Locked' => j < i)
    BY <1>1, <1>2, <2>1, NextAdvances DEF Advances
  <2>3. CallbackEnd => Locked /\ ~Locked'
    BY DEF CallbackEnd, Locked
  <2>4. j <= k /\ (CallbackEnd => j <= k - 1)
    BY <1>1, <1>2, <2>1, <2>2, <2>3
  <2> QED
    BY <2>1, <2>4 DEF Near
<1> QED
  BY <1>3

\* The card asks for samples as long as the device plays.
CardAsks == WF_vars(CallbackStart)
Live == FairSpec /\ []GuardsSuffice /\ CardAsks

Idle(u, k) == Near(u, k) /\ ~Locked
Busy(u, k) == Near(u, k) /\ Locked

\* A callback comes, and when it ends the sample is nearer to the front.
LEMMA NearSuccessors ==
  ASSUME NEW u \in 1 .. Made, NEW k \in Int, LevelInv, OrderInv, [Next]_vars
  PROVE  /\ Idle(u, k) =>
              /\ Idle(u, k)' \/ Busy(u, k)' \/ u \notin Units(pull')
              /\ CallbackStart => Busy(u, k)' \/ u \notin Units(pull')
         /\ Busy(u, k) =>
              IF CallbackEnd
              THEN Idle(u, k - 1)' \/ Busy(u, k - 1)' \/ u \notin Units(pull')
              ELSE Busy(u, k)' \/ u \notin Units(pull')
<1>1. Near(u, k) =>
        /\ Near(u, k)' \/ u \notin Units(pull')
        /\ CallbackEnd => Near(u, k - 1)' \/ u \notin Units(pull')
  BY NearStep
<1>2. CallbackStart => Locked'
  BY SizesAssumption DEF CallbackStart, Locked
<1>3. Locked /\ ~CallbackEnd => Locked'
  BY DEF Next, RenderSample, Sync, SyncSkipped, SyncStart, SyncWait, SyncEnd, Switch,
     PrefillBuffer, UnpauseDevice, DebuggerStop, DebuggerContinue, WarpOn, WarpOff, InitSound,
     CloseSound, Callback, CallbackStart, vars, callback, Locked
<1> QED
  BY <1>1, <1>2, <1>3 DEF Idle, Busy

\* A sample among the first m comes among the first k, or leaves the buffer.
Way(u, m, k) == Near(u, m) ~> Near(u, k) \/ u \notin Units(pull)

LEMMA WaysJoin ==
  ASSUME NEW u, NEW m, NEW k, NEW l, Live => Way(u, m, k), Live => Way(u, k, l)
  PROVE  Live => Way(u, m, l)
<1> DEFINE Far == Near(u, m)
           Between == Near(u, k)
           Close == Near(u, l)
           Gone == u \notin Units(pull)
<1>1. (Live => (Far ~> Between \/ Gone)) /\ (Live => (Between ~> Close \/ Gone))
  BY DEF Way
<1> HIDE DEF Far, Between, Close, Gone
<1>2. Live => (Far ~> Close \/ Gone)
  BY <1>1, PTL
<1> QED
  BY <1>2 DEF Far, Close, Gone, Way

\* One callback.
LEMMA OneNearer ==
  ASSUME NEW u \in 1 .. Made, NEW k \in Int
  PROVE  Live => Way(u, k, k - 1)
<1> DEFINE Gone == u \notin Units(pull)
           Here(p) == Idle(u, p) \/ Busy(u, p)
           Step == LevelInv /\ OrderInv /\ [Next]_vars
<1>1. Step /\ Idle(u, k) =>
        /\ Idle(u, k)' \/ Busy(u, k)' \/ Gone'
        /\ <<CallbackStart>>_vars => Busy(u, k)' \/ Gone'
  BY NearSuccessors
<1>2. Step /\ Busy(u, k) =>
        /\ Busy(u, k)' \/ Here(k - 1)' \/ Gone'
        /\ <<CallbackEnd>>_vars => Here(k - 1)' \/ Gone'
  BY NearSuccessors
<1>3. QuietInv /\ Near(u, k) => dev = "playing"
  BY SizesAssumption DEF QuietInv, Near
<1>4. QuietInv /\ GuardsSuffice
        => /\ Idle(u, k) => ENABLED <<CallbackStart>>_vars
           /\ Busy(u, k) => ENABLED <<CallbackEnd>>_vars
  BY <1>3 DEF GuardsSuffice, Idle, Busy
<1>5. Live => [](LevelInv /\ OrderInv /\ QuietInv)
  BY AlwaysLevel, AlwaysOrder, AlwaysQuiet, PTL DEF Live, FairSpec
<1> HIDE DEF Gone, Here
<1>6. (Near(u, k) => Idle(u, k) \/ Busy(u, k)) /\ (Here(k - 1) => Near(u, k - 1))
  BY DEF Idle, Busy, Here
<1>7. Live => (Near(u, k) ~> Near(u, k - 1) \/ Gone)
  BY <1>1, <1>2, <1>4, <1>5, <1>6, PTL DEF Live, FairSpec, Spec, CardAsks
<1> QED
  BY <1>7 DEF Gone, Way

\* As many callbacks again.
LEMMA TwiceAsNear ==
  ASSUME NEW u, NEW n \in Nat, \A k \in Int : Live => Way(u, k, k - n)
  PROVE  \A k \in Int : Live => Way(u, k, k - 2 * n)
<1> SUFFICES ASSUME NEW k \in Int
             PROVE  Live => Way(u, k, k - 2 * n)
  OBVIOUS
<1>1. k - n \in Int /\ (k - n) - n = k - 2 * n
  OBVIOUS
<1>2. (Live => Way(u, k, k - n)) /\ (Live => Way(u, k - n, k - 2 * n))
  BY <1>1
<1> QED
  BY <1>2, WaysJoin

\* If the card keeps asking, every sample leaves the buffer, whatever size the
\* card asks for, and whatever is rendered, dropped, paused or resumed meanwhile.
\* open_sound allows a chunk of 1024 frames at most.
THEOREM BufferIsPlayed ==
  ASSUME Chunk <= 1024
  PROVE  FairSpec /\ []GuardsSuffice => BufferDrains
<1>1. ASSUME NEW u \in 1 .. Made
      PROVE  Live => (u \in Units(pull) ~> u \notin Units(pull))
  <2> DEFINE Here == u \in Units(pull)
             Gone == u \notin Units(pull)
             Reach(n) == \A k \in Int : Live => Way(u, k, k - n)
  <2>1. Reach(1)
    BY OneNearer
  <2>2. ASSUME NEW n \in Nat, Reach(n)
        PROVE  Reach(2 * n)
    BY <2>2, TwiceAsNear
  <2> HIDE DEF Reach
  <2>3. Reach(2) /\ Reach(4) /\ Reach(8) /\ Reach(16)
    <3>1. Reach(2 * 1)
      BY <2>1, <2>2
    <3>2. Reach(2 * 2)
      BY <3>1, <2>2
    <3>3. Reach(2 * 4)
      BY <3>2, <2>2
    <3>4. Reach(2 * 8)
      BY <3>3, <2>2
    <3> QED
      BY <3>1, <3>2, <3>3, <3>4
  <2>4. Reach(256)
    <3>1. Reach(2 * 16)
      BY <2>3, <2>2
    <3>2. Reach(2 * 32)
      BY <3>1, <2>2
    <3>3. Reach(2 * 64)
      BY <3>2, <2>2
    <3>4. Reach(2 * 128)
      BY <3>3, <2>2
    <3> QED
      BY <3>4
  <2>5. Reach(8192)
    <3>1. Reach(2 * 256)
      BY <2>4, <2>2
    <3>2. Reach(2 * 512)
      BY <3>1, <2>2
    <3>3. Reach(2 * 1024)
      BY <3>2, <2>2
    <3>4. Reach(2 * 2048)
      BY <3>3, <2>2
    <3>5. Reach(2 * 4096)
      BY <3>4, <2>2
    <3> QED
      BY <3>5
  <2>6. Live => Way(u, 8192, 0)
    <3>1. Live => Way(u, 8192, 8192 - 8192)
      BY <2>5 DEF Reach
    <3> QED
      BY <3>1
  <2>7. LevelInv /\ Here => Near(u, 8192)
    BY LenProperties, SizesAssumption DEF LevelInv, TypeOK, PullFits, Max, Units, Near
  <2>8. ~Near(u, 0)
    BY DEF Near
  <2>9. Live => (Near(u, 8192) ~> Near(u, 0) \/ Gone)
    BY <2>6 DEF Way
  <2> HIDE DEF Here, Gone
  <2>10. Live => (Here ~> Gone)
    BY <2>7, <2>8, <2>9, AlwaysLevel, PTL DEF Live, FairSpec
  <2> QED
    BY <2>10 DEF Here, Gone
<1>2. Live => \A u \in 1 .. Made : (u \in Units(pull) ~> u \notin Units(pull))
  BY <1>1
<1> QED
  BY <1>2, PTL DEF BufferDrains, Live, CardAsks
=============================================================================
