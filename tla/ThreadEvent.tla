---------------------------- MODULE ThreadEvent ----------------------------
(***************************************************************************)
(* qd::ThreadEvent (libs/qd/thread/threadImplSdl2.cpp): a flag guarded by  *)
(* an SDL mutex, with a condition variable for the waiters.  Each critical *)
(* section is split where another thread could get in: taking the mutex,   *)
(* reading the flag, writing it.  The error returns of the SDL calls       *)
(* themselves (a mutex that cannot be locked) are not modelled.            *)
(***************************************************************************)
EXTENDS Naturals

CONSTANTS
    Threads,      \* the threads that use the event
    AutoReset,    \* m_bAutoReset
    NoOne         \* owner of a free mutex

ASSUME EventAssumption == AutoReset \in BOOLEAN /\ NoOne \notin Threads

VARIABLES
    m_bState,     \* the flag
    m_pMutex,     \* the thread that holds the mutex, or NoOne
    pc,           \* pc[t]: where t is in the call it made
    timed         \* timed[t]: the wait has a time limit

vars == <<m_bState, m_pMutex, pc, timed>>

Points ==
    {"idle",
     "setLock", "setHeld", "setSignal",       \* set()
     "resetLock", "resetHeld",                \* reset()
     "waitLock", "waitHeld", "waitConsume",   \* wait(): before and in the loop
     "asleep",                                \* in SDL_CondWait, mutex released
     "expired"}                               \* time is up, mutex not yet retaken

\* Only a wait with a time limit gets to "expired".
TypeOK ==
    /\ m_bState \in BOOLEAN
    /\ m_pMutex \in Threads \cup {NoOne}
    /\ pc \in [Threads -> Points]
    /\ timed \in [Threads -> BOOLEAN]
    /\ \A t \in Threads : pc[t] = "expired" => timed[t]

Init ==
    /\ m_bState = FALSE
    /\ m_pMutex = NoOne
    /\ pc = [t \in Threads |-> "idle"]
    /\ timed = [t \in Threads |-> FALSE]

Goto(t, p) == pc' = [pc EXCEPT ![t] = p]

----------------------------------------------------------------------------
\* The calls.

CallSet(t) ==
    /\ pc[t] = "idle"
    /\ Goto(t, "setLock")
    /\ UNCHANGED <<m_bState, m_pMutex, timed>>

CallReset(t) ==
    /\ pc[t] = "idle"
    /\ Goto(t, "resetLock")
    /\ UNCHANGED <<m_bState, m_pMutex, timed>>

CallWait(t) ==
    /\ pc[t] = "idle"
    /\ Goto(t, "waitLock")
    /\ \E limit \in BOOLEAN : timed' = [timed EXCEPT ![t] = limit]
    /\ UNCHANGED <<m_bState, m_pMutex>>

----------------------------------------------------------------------------
\* SDL_LockMutex, also the one SDL_CondWait does before it returns.

Lock(t) ==
    /\ m_pMutex = NoOne
    /\ m_pMutex' = t
    /\ \/ pc[t] = "setLock"   /\ Goto(t, "setHeld")
       \/ pc[t] = "resetLock" /\ Goto(t, "resetHeld")
       \/ pc[t] = "waitLock"  /\ Goto(t, "waitHeld")
    /\ UNCHANGED <<m_bState, timed>>

\* Faulty: set() wakes one waiter only.
SetWakesOne(t) ==
    /\ pc[t] = "setHeld"
    /\ m_bState' = TRUE
    /\ m_pMutex' = NoOne
    /\ \E u \in Threads : pc' = [pc EXCEPT ![t] = "setSignal",
                                  ![u] = IF pc[u] = "asleep" THEN "waitLock" ELSE @]
    /\ UNCHANGED timed

\* set(): raise the flag, wake every waiter, unlock.
SetBroadcast(t) ==
    /\ pc[t] = "setHeld"
    /\ m_bState' = TRUE
    /\ pc' = [u \in Threads |-> IF u = t THEN "setSignal"
                                ELSE IF pc[u] = "asleep" THEN "waitLock" ELSE pc[u]]
    /\ m_pMutex' = NoOne
    /\ UNCHANGED timed

\* set(): SDL_CondSignal once more, after the unlock; it may wake a thread
\* that went to sleep since.
SetSignal(t) ==
    /\ pc[t] = "setSignal"
    /\ \/ /\ \A u \in Threads : pc[u] # "asleep"
          /\ Goto(t, "idle")
       \/ \E u \in Threads :
            /\ pc[u] = "asleep"
            /\ pc' = [pc EXCEPT ![t] = "idle", ![u] = "waitLock"]
    /\ UNCHANGED <<m_bState, m_pMutex, timed>>

\* reset(): take the flag down, unlock.
ResetState(t) ==
    /\ pc[t] = "resetHeld"
    /\ m_bState' = FALSE
    /\ m_pMutex' = NoOne
    /\ Goto(t, "idle")
    /\ UNCHANGED timed

\* wait(): the flag is down, sleep.  SDL_CondWait releases the mutex.
WaitSleep(t) ==
    /\ pc[t] = "waitHeld"
    /\ ~m_bState
    /\ m_pMutex' = NoOne
    /\ Goto(t, "asleep")
    /\ UNCHANGED <<m_bState, timed>>

\* Faulty: an "if" around SDL_CondWait instead of the loop.
WaitUnchecked(t) ==
    /\ pc[t] = "waitHeld"
    /\ Goto(t, "waitConsume")
    /\ UNCHANGED <<m_bState, m_pMutex, timed>>

\* wait(): the flag is up, leave the loop with the mutex held ...
WaitSeen(t) ==
    /\ pc[t] = "waitHeld"
    /\ m_bState
    /\ Goto(t, "waitConsume")
    /\ UNCHANGED <<m_bState, m_pMutex, timed>>

\* ... and take the flag down if the event is auto-reset.
WaitConsume(t) ==
    /\ pc[t] = "waitConsume"
    /\ m_bState' = IF AutoReset THEN FALSE ELSE m_bState
    /\ m_pMutex' = NoOne
    /\ Goto(t, "idle")
    /\ UNCHANGED timed

\* A condition variable may wake a sleeper for no reason.
SpuriousWake(t) ==
    /\ pc[t] = "asleep"
    /\ Goto(t, "waitLock")
    /\ UNCHANGED <<m_bState, m_pMutex, timed>>

\* Faulty: a wait without limit that expires.
ExpireAny(t) ==
    /\ pc[t] = "asleep"
    /\ Goto(t, "expired")
    /\ UNCHANGED <<m_bState, m_pMutex, timed>>

\* SDL_CondWaitTimeout reports SDL_MUTEX_TIMEDOUT.
Expire(t) ==
    /\ pc[t] = "asleep"
    /\ timed[t]
    /\ Goto(t, "expired")
    /\ UNCHANGED <<m_bState, m_pMutex, timed>>

\* Faulty: the timed wait returns with the mutex locked.
ExpiredReturnLocked(t) ==
    /\ pc[t] = "expired"
    /\ m_pMutex = NoOne
    /\ m_pMutex' = t
    /\ Goto(t, "idle")
    /\ UNCHANGED <<m_bState, timed>>

\* The timed wait breaks out of its loop and returns false: rc is not 0, so
\* the flag is not taken even if it went up meanwhile.
ExpiredReturn(t) ==
    /\ pc[t] = "expired"
    /\ m_pMutex = NoOne
    /\ Goto(t, "idle")
    /\ UNCHANGED <<m_bState, m_pMutex, timed>>

----------------------------------------------------------------------------
Operation(t) ==
    \/ Lock(t)
    \/ SetBroadcast(t)
    \/ SetSignal(t)
    \/ ResetState(t)
    \/ WaitSleep(t)
    \/ WaitSeen(t)
    \/ WaitConsume(t)
    \/ ExpiredReturn(t)

Next == \E t \in Threads :
    \/ CallSet(t) \/ CallReset(t) \/ CallWait(t)
    \/ Operation(t) \/ SpuriousWake(t) \/ Expire(t)

Spec == Init /\ [][Next]_vars

\* A thread inside a call is scheduled, and SDL's mutex does not starve a
\* thread that keeps asking for it.  Nothing obliges a thread to make a call,
\* to be woken without reason, or a time limit to run out.
FairSpec == Spec /\ \A t \in Threads : SF_vars(Operation(t))

----------------------------------------------------------------------------
Holding == {"setHeld", "resetHeld", "waitHeld", "waitConsume"}

\* The mutex is held by the thread inside the critical section, and only by it.
MutexHeldInside ==
    \A t \in Threads : pc[t] \in Holding <=> m_pMutex = t

\* No waiter sleeps through a signal: as long as the flag is up, nobody is
\* asleep on the condition variable.  A set() that only signalled one waiter,
\* or raised the flag outside the mutex, would strand the others.
NobodySleepsThroughASignal ==
    m_bState => \A t \in Threads : pc[t] # "asleep"

\* A waiter that decided to take the flag finds it still up.
ConsumeOnlyASetFlag ==
    \A t \in Threads : pc[t] = "waitConsume" => m_bState

\* A raised flag with a thread waiting for it does not stay so for ever:
\* the flag is taken down, or the waiters have left (a manual-reset event
\* releases them all, a timed wait may have given up).
Waiting(t) == pc[t] \in {"waitLock", "waitHeld", "waitConsume", "asleep"}
SignalReleases ==
    \A t \in Threads : (m_bState /\ Waiting(t)) ~> (~m_bState \/ ~Waiting(t))

----------------------------------------------------------------------------
\* The event refines an atomic one: the call a thread is inside of, and the
\* flag as it is.
AbstractCall ==
    [t \in Threads |->
        CASE pc[t] \in {"setLock", "setHeld"}             -> "set"
          [] pc[t] = "setSignal"                           -> "setDone"
          [] pc[t] \in {"resetLock", "resetHeld"}          -> "reset"
          [] pc[t] = "idle"                                -> "none"
          [] OTHER -> IF timed[t] THEN "timedWait" ELSE "wait"]

Atomic == INSTANCE AtomicEvent WITH signaled <- m_bState, call <- AbstractCall

\* Every caller may reason with the atomic event: set, reset and a successful
\* wait each happen at one instant, one raised flag lets one waiter through an
\* auto-reset event, and a timed wait that gave up took nothing.
ImplementsAtomicEvent == Atomic!Spec
=============================================================================
