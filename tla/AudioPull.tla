------------------------------ MODULE AudioPull ------------------------------
(***************************************************************************)
(* Sound output of the UAE back end (uae_lib_imp/sounddep/sound.cpp): the  *)
(* emulator thread renders samples into Paula's buffer and pushes full     *)
(* chunks into the pull buffer; SDL's audio thread takes them out in its   *)
(* callback.  The fill level of the pull buffer paces the emulation: after *)
(* every frame the emulator thread blocks in audio_callback_sync_wait_ms   *)
(* until the level is below half.                                          *)
(*                                                                         *)
(* Sizes are in units of one sample of all channels.  A unit is a number,  *)
(* counted from 1 in the order of rendering; 0 is silence.  SDL runs the   *)
(* callback with the lock of the device held, so that the callback is two  *)
(* steps, and whoever takes the lock waits for the second one.             *)
(***************************************************************************)
EXTENDS Integers, Sequences

CONSTANTS
  Chunk,   \* sndbufsize: Paula's buffer, what one push copies
  Frame,   \* samples rendered per video frame
  Needs,   \* the sizes a callback may ask for
  Rounds,  \* waits until guard_ms reaches 100 (5 with the 20 ms of framewait)
  Made     \* bound of the model: samples rendered in a behaviour

ASSUME SizesAssumption ==
  /\ Chunk \in Nat \ {0}
  /\ Frame \in Nat \ {0}
  /\ Needs \subseteq Nat \ {0}
  /\ Rounds \in Nat \ {0}
  /\ Made \in Nat

Max == 6 * Chunk      \* pullbuffermaxlen
Target == 3 * Chunk   \* pullbuffermaxlen / 2
SemLimit == 4

VARIABLES
  dev,      \* the SDL device: "none", "paused" or "playing"
  paused,   \* sdp->paused
  turbo,    \* currprefs.turbo_emulation
  pull,     \* the first pullbufferlen units of pullbuffer
  paula,    \* the units in Paula's buffer
  made,     \* units rendered so far
  left,     \* units left to render in this frame
  pc,       \* the emulator thread
  guard,    \* waits done in this call of audio_callback_sync_wait_ms
  sem,      \* s_frame_sync_sem
  need,     \* what the running callback has to deliver, 0: no callback runs
  seen,     \* the pullbufferlen it has read
  last,     \* history: the last unit delivered to the device
  dropped,  \* history: how often the pull buffer overflowed
  gaveUp    \* history: this frame was started with the level above target

samples == <<pull, paula, made, left>>
callback == <<need, seen, last>>
history == <<dropped, gaveUp>>
vars == <<dev, paused, turbo, samples, pc, guard, sem, callback, history>>

Silence(n) == [i \in 1 .. n |-> 0]
Units(s) == {s[i] : i \in 1 .. Len(s)} \ {0}
Rising(s) == \A i, j \in 1 .. Len(s) : i < j /\ s[i] # 0 => s[i] < s[j]
Locked == need # 0

Init ==
  /\ dev = "none" /\ paused = FALSE /\ turbo = FALSE
  /\ pull = <<>> /\ paula = <<>> /\ made = 0 /\ left = Frame
  /\ pc = "run" /\ guard = 0 /\ sem = 0
  /\ need = 0 /\ seen = 0 /\ last = 0
  /\ dropped = 0 /\ gaveUp = FALSE

-----------------------------------------------------------------------------
(* The emulator thread: rendering, one sample at a time. *)

\* Faulty: no check for an overflow.
PushUnchecked ==
  /\ ~Locked
  /\ pull' = pull \o Append(paula, made')
  /\ UNCHANGED dropped

\* Faulty: the device is not locked around the copy.
PushUnlocked ==
  IF Len(pull) + Chunk > Max
  THEN /\ pull' = SubSeq(pull, Len(pull) - Target + 1, Len(pull)) \o Append(paula, made')
       /\ dropped' = dropped + 1
  ELSE pull' = pull \o Append(paula, made') /\ UNCHANGED dropped

\* finish_sound_buffer_pull: on overflow only the newest half is kept
Push ==
  LET overflow == Len(pull) + Chunk > Max
      kept == IF overflow THEN SubSeq(pull, Len(pull) - Target + 1, Len(pull)) ELSE pull
  IN  /\ ~Locked
      /\ pull' = kept \o Append(paula, made')
      /\ dropped' = IF overflow THEN dropped + 1 ELSE dropped

\* finish_sound_buffer and send_sound: the chunk is thrown away in warp mode,
\* while a snapshot is taken, and when there is no sound or it is paused
FinishSoundBuffer(saving) ==
  IF turbo \/ dev = "none" \/ saving \/ paused
  THEN UNCHANGED <<pull, dropped>>
  ELSE Push

RenderSample ==
  /\ pc = "run" /\ left > 0 /\ made < Made
  /\ made' = made + 1
  /\ left' = left - 1
  /\ IF Len(paula) + 1 < Chunk
     THEN /\ paula' = Append(paula, made')
          /\ UNCHANGED <<pull, dropped>>
     ELSE /\ paula' = <<>>
          /\ \E saving \in BOOLEAN : FinishSoundBuffer(saving)
  /\ UNCHANGED <<dev, paused, turbo, pc, guard, sem, callback, gaveUp>>

(* The emulator thread: pacing at the end of a frame. *)

\* Faulty: the wait compares with the size of the buffer.
AboveMaximum == dev # "none" /\ Len(pull) + Len(paula) > Max

AboveTarget == dev # "none" /\ Len(pull) + Len(paula) >= Target

StartFrame ==
  /\ pc' = "run"
  /\ left' = Frame
  /\ guard' = 0

\* framewait: without sound the frame is paced by the clock
SyncSkipped ==
  /\ pc = "run" /\ left = 0
  /\ dev = "none" \/ paused
  /\ StartFrame
  /\ gaveUp' = FALSE
  /\ UNCHANGED <<dev, paused, turbo, pull, paula, made, sem, callback, dropped>>

SyncStart ==
  /\ pc = "run" /\ left = 0
  /\ dev # "none" /\ ~paused
  /\ pc' = "wait"
  /\ guard' = 0
  /\ UNCHANGED <<dev, paused, turbo, samples, sem, callback, history>>

\* SDL_SemWaitTimeout: by a post, or by the timeout when there is none
SyncWait ==
  /\ pc = "wait" /\ AboveTarget /\ guard < Rounds
  /\ guard' = guard + 1
  /\ sem' = IF sem > 0 THEN sem - 1 ELSE 0
  /\ UNCHANGED <<dev, paused, turbo, samples, pc, callback, history>>

\* Faulty: no limit on the rounds.
SyncEndBelowTarget ==
  /\ pc = "wait"
  /\ ~AboveTarget
  /\ sem' = 0
  /\ StartFrame
  /\ gaveUp' = FALSE
  /\ UNCHANGED <<dev, paused, turbo, pull, paula, made, callback, dropped>>

SyncEnd ==
  /\ pc = "wait"
  /\ ~AboveTarget \/ guard >= Rounds
  /\ sem' = 0
  /\ StartFrame
  /\ gaveUp' = AboveTarget
  /\ UNCHANGED <<dev, paused, turbo, pull, paula, made, callback, dropped>>

-----------------------------------------------------------------------------
(* The emulator thread: pausing, resuming, opening and closing. *)

\* clearbuffer takes the lock and zeroes both buffers, their levels stay
ClearBuffer ==
  /\ ~Locked
  /\ pull' = Silence(Len(pull))
  /\ paula' = Silence(Len(paula))

\* pause_sound: SDL_PauseAudioDevice waits for the lock as well
PauseSound ==
  IF paused \/ dev = "none"
  THEN UNCHANGED <<dev, paused, pull, paula>>
  ELSE /\ ClearBuffer
       /\ dev' = "paused"
       /\ paused' = TRUE

\* Faulty: resumes sound that was not paused.
ResumeAnySound ==
  IF dev # "none"
  THEN ClearBuffer /\ pc' = "prefill"
  ELSE UNCHANGED <<pull, paula>> /\ pc' = "run"

\* resume_sound up to the end of clearbuffer
ResumeSound ==
  IF paused /\ dev # "none"
  THEN ClearBuffer /\ pc' = "prefill"
  ELSE UNCHANGED <<pull, paula>> /\ pc' = "run"

\* resume_audio_sdl2 sets the fill level without the lock
PrefillBuffer ==
  /\ pc = "prefill"
  /\ pull' = Silence(IF 3 * Frame > Max THEN Target ELSE 3 * Frame)
  /\ pc' = "unpause"
  /\ UNCHANGED <<dev, paused, turbo, paula, made, left, guard, sem, callback, history>>

UnpauseDevice ==
  /\ pc = "unpause" /\ ~Locked
  /\ dev' = "playing"
  /\ paused' = FALSE
  /\ pc' = "run"
  /\ UNCHANGED <<turbo, samples, guard, sem, callback, history>>

\* debug() stops the CPU between pause_sound and resume_sound
DebuggerStop ==
  /\ pc = "run"
  /\ PauseSound
  /\ pc' = "stopped"
  /\ UNCHANGED <<turbo, made, left, guard, sem, callback, history>>

DebuggerContinue ==
  /\ pc = "stopped"
  /\ ResumeSound
  /\ UNCHANGED <<dev, paused, turbo, made, left, guard, sem, callback, history>>

WarpOn ==
  /\ pc = "run" /\ ~turbo
  /\ turbo' = TRUE
  /\ PauseSound
  /\ UNCHANGED <<made, left, pc, guard, sem, callback, history>>

WarpOff ==
  /\ pc = "run" /\ turbo
  /\ turbo' = FALSE
  /\ ResumeSound
  /\ UNCHANGED <<dev, paused, made, left, guard, sem, callback, history>>

\* init_sound: when the device opens it is reset and resumed at once
InitSound ==
  /\ pc = "run" /\ dev = "none"
  /\ dev' = "paused"
  /\ paused' = TRUE
  /\ sem' = 0
  /\ pull' = Silence(Target)
  /\ paula' = <<>>
  /\ pc' = "prefill"
  /\ UNCHANGED <<turbo, made, left, guard, callback, history>>

\* close_sound: paused, freed under the lock, closed
CloseSound ==
  /\ pc = "run" /\ dev # "none" /\ ~Locked
  /\ dev' = "none"
  /\ paused' = TRUE
  /\ pull' = <<>>
  /\ paula' = Silence(Len(paula))
  /\ UNCHANGED <<turbo, made, left, pc, guard, sem, callback, history>>

-----------------------------------------------------------------------------
(* SDL's audio thread: sdl2_audio_callback. *)

CallbackStart ==
  /\ dev = "playing" /\ ~Locked
  /\ need' \in Needs
  /\ seen' = Len(pull)
  /\ UNCHANGED <<dev, paused, turbo, samples, pc, guard, sem, last, history>>

\* Faulty: posts without looking at the value.
PostFrameSyncAlways == sem' = sem + 1

PostFrameSync == sem' = IF sem < SemLimit THEN sem + 1 ELSE sem

\* nothing to play: silence, and half a buffer of silence to start again
Underrun ==
  /\ pull' = Silence(Target)
  /\ UNCHANGED last

\* Faulty: the level goes down but the rest is not moved to the front.
DeliverUnmoved ==
  LET taken == IF need > seen THEN seen ELSE need
  IN  /\ pull' = SubSeq(pull, 1, seen - taken)
      /\ last' = IF pull[taken] # 0 THEN pull[taken] ELSE last

\* Faulty: plays silence until there is enough for the whole request.
DeliverInFull ==
  IF need > seen THEN UNCHANGED <<pull, last>>
  ELSE /\ pull' = SubSeq(pull, need + 1, seen)
       /\ last' = IF pull[need] # 0 THEN pull[need] ELSE last

Deliver ==
  LET taken == IF need > seen THEN seen ELSE need
  IN  /\ pull' = SubSeq(pull, taken + 1, seen)
      /\ last' = IF pull[taken] # 0 THEN pull[taken] ELSE last

CallbackEnd ==
  /\ Locked
  /\ IF seen = 0 THEN Underrun ELSE Deliver
  /\ need' = 0
  /\ seen' = 0
  /\ PostFrameSync
  /\ UNCHANGED <<dev, paused, turbo, paula, made, left, pc, guard, history>>

-----------------------------------------------------------------------------
Sync == SyncSkipped \/ SyncStart \/ SyncWait \/ SyncEnd

Switch ==
  \/ PrefillBuffer \/ UnpauseDevice
  \/ DebuggerStop \/ DebuggerContinue
  \/ WarpOn \/ WarpOff
  \/ InitSound \/ CloseSound

Callback == CallbackStart \/ CallbackEnd

Next == RenderSample \/ Sync \/ Switch \/ Callback

Spec == Init /\ [][Next]_vars

\* the emulator thread runs its loop, a callback that has begun returns;
\* nothing makes the sound card ask for samples
FairSpec ==
  /\ Spec
  /\ WF_vars(Sync)
  /\ WF_vars(CallbackEnd)

-----------------------------------------------------------------------------
TypeOK ==
  /\ dev \in {"none", "paused", "playing"}
  /\ paused \in BOOLEAN /\ turbo \in BOOLEAN /\ gaveUp \in BOOLEAN
  /\ pull \in Seq(Nat)
  /\ paula \in Seq(Nat) /\ Len(paula) < Chunk
  /\ made \in Nat /\ last \in Nat /\ dropped \in Nat
  /\ left \in 0 .. Frame
  /\ pc \in {"run", "wait", "stopped", "prefill", "unpause"}
  /\ guard \in 0 .. Rounds
  /\ sem \in 0 .. SemLimit
  /\ need \in Needs \union {0}
  /\ seen \in Nat

(* Every copy into and out of the pull buffer stays inside it, and what    *)
(* the overflow keeps is really there (the memmove and the memcpy of       *)
(* finish_sound_buffer_pull, the prefill of resume_audio_sdl2).            *)
PullFits ==
  /\ Len(pull) <= Max
  /\ Len(pull) + Chunk > Max => Len(pull) >= Target
  /\ Locked => seen <= Len(pull)

(* The fill level is written without the lock only while no callback runs, *)
(* and a running callback still finds the level it has read: resuming      *)
(* never touches a device that plays.                                      *)
NoRace ==
  /\ pc \in {"prefill", "unpause"} => dev = "paused"
  /\ Locked => dev = "playing" /\ seen = Len(pull)

(* The device gets the samples in the order of rendering, none twice, and  *)
(* silence is only ever played before the samples in the buffer, not       *)
(* between two of them - whatever is dropped, cleared and primed again.    *)
InOrder ==
  /\ Rising(pull)
  /\ \A u \in Units(pull) : last < u /\ u <= made

(* A sample in the pull buffer is delivered; it disappears otherwise only  *)
(* by an overflow or when the device is stopped.                           *)
NothingVanishes ==
  [][\A u \in Units(pull) :
        u \in Units(pull') \/ u <= last' \/ dropped' > dropped \/ dev' # "playing"]_vars

(* The pacing works: as long as the wait ended because the level had come  *)
(* below target (not because it gave up on a device that does not drain),  *)
(* the pull buffer does not overflow, even if an underrun refills it half  *)
(* way through a frame.                                                    *)
OverflowMeansGaveUp == [][dropped' > dropped => gaveUp]_vars

(* The emulation never hangs on the sound card: the wait at the end of a   *)
(* frame is over after a bounded number of rounds, also when no callback   *)
(* comes any more.                                                         *)
WaitEnds == pc = "wait" ~> pc = "run"

(* If the card keeps asking, no sample stays in the buffer: it is          *)
(* delivered, or dropped, or the device is stopped.                        *)
BufferDrains ==
  WF_vars(CallbackStart) => \A u \in 1 .. Made : u \in Units(pull) ~> u \notin Units(pull)
=============================================================================
