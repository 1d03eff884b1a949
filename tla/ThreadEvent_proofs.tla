------------------------- MODULE ThreadEvent_proofs ------------------------
(***************************************************************************)
(* For any number of threads and either kind of event, qd::ThreadEvent     *)
(* keeps its mutex discipline, strands no waiter and implements the atomic *)
(* event its callers reason with.                                          *)
(***************************************************************************)
EXTENDS ThreadEvent, TLAPS

\* No part of the invariant is inductive alone: that a waiter finds the flag
\* up rests on the mutex keeping the other writers of the flag away.
Inv == TypeOK /\ MutexHeldInside /\ NobodySleepsThroughASignal /\ ConsumeOnlyASetFlag

LEMMA InitInv == Init => Inv
BY EventAssumption DEF Init, Inv, TypeOK, Points, MutexHeldInside, Holding,
   NobodySleepsThroughASignal, ConsumeOnlyASetFlag

LEMMA NextInv == Inv /\ [Next]_vars => Inv'
<1> SUFFICES ASSUME Inv, [Next]_vars PROVE Inv'
  OBVIOUS
<1> USE EventAssumption DEF Inv, TypeOK, Points, MutexHeldInside, Holding,
        NobodySleepsThroughASignal, ConsumeOnlyASetFlag, Goto
<1>1. ASSUME NEW t \in Threads, CallSet(t) \/ CallReset(t) \/ CallWait(t) PROVE Inv'
  BY <1>1 DEF CallSet, CallReset, CallWait
<1>2. ASSUME NEW t \in Threads, Lock(t) PROVE Inv'
  BY <1>2 DEF Lock
<1>3. ASSUME NEW t \in Threads, SetBroadcast(t) PROVE Inv'
  <2>1. TypeOK'
    BY <1>3 DEF SetBroadcast
  <2>2. MutexHeldInside'
    BY <1>3 DEF SetBroadcast
  <2>3. NobodySleepsThroughASignal'
    BY <1>3 DEF SetBroadcast
  <2>4. ConsumeOnlyASetFlag'
    BY <1>3 DEF SetBroadcast
  <2> QED
    BY <2>1, <2>2, <2>3, <2>4
<1>4. ASSUME NEW t \in Threads, SetSignal(t) PROVE Inv'
  BY <1>4 DEF SetSignal
<1>5. ASSUME NEW t \in Threads, ResetState(t) PROVE Inv'
  BY <1>5 DEF ResetState
<1>6. ASSUME NEW t \in Threads, WaitSleep(t) PROVE Inv'
  BY <1>6 DEF WaitSleep
<1>7. ASSUME NEW t \in Threads, WaitSeen(t) PROVE Inv'
  BY <1>7 DEF WaitSeen
<1>8. ASSUME NEW t \in Threads, WaitConsume(t) PROVE Inv'
  BY <1>8 DEF WaitConsume
<1>9. ASSUME NEW t \in Threads, ExpiredReturn(t) \/ SpuriousWake(t) \/ Expire(t) PROVE Inv'
  BY <1>9 DEF ExpiredReturn, SpuriousWake, Expire
<1>10. CASE UNCHANGED vars
  BY <1>10 DEF vars
<1> QED
  BY <1>1, <1>2, <1>3, <1>4, <1>5, <1>6, <1>7, <1>8, <1>9, <1>10 DEF Next, Operation

\* Every reachable state satisfies the invariant.
THEOREM Invariance == Spec => []Inv
BY InitInv, NextInv, PTL DEF Spec

\* Every reachable state has the types declared for it.
THEOREM TypeCorrect == Spec => []TypeOK
BY Invariance, PTL DEF Inv

\* The mutex is held by the thread inside the critical section and by no other.
THEOREM MutualExclusion == Spec => []MutexHeldInside
BY Invariance, PTL DEF Inv

\* No waiter is left asleep under a raised flag.
THEOREM NoMissedSignal == Spec => []NobodySleepsThroughASignal
BY Invariance, PTL DEF Inv

\* The flag a waiter has seen is still up when it takes it.
THEOREM FlagStaysUp == Spec => []ConsumeOnlyASetFlag
BY Invariance, PTL DEF Inv

----------------------------------------------------------------------------
\* Refinement: the flag changes in the critical section of the call that
\* changes it, and that is where the atomic operation happens.

\* Every step of the code is a step of the atomic event or changes nothing in it.
LEMMA StepRefines == Inv /\ [Next]_vars => [Atomic!Next]_(Atomic!avars)
<1> SUFFICES ASSUME Inv, [Next]_vars PROVE [Atomic!Next]_(Atomic!avars)
  OBVIOUS
<1> USE DEF Inv, TypeOK, Goto
<1>1. ASSUME NEW t \in Threads, CallSet(t) PROVE Atomic!Invoke(t, "set")
  BY <1>1 DEF CallSet, Atomic!Invoke, AbstractCall
<1>2. ASSUME NEW t \in Threads, CallReset(t) PROVE Atomic!Invoke(t, "reset")
  BY <1>2 DEF CallReset, Atomic!Invoke, AbstractCall
<1>3. ASSUME NEW t \in Threads, CallWait(t)
      PROVE  Atomic!Invoke(t, "wait") \/ Atomic!Invoke(t, "timedWait")
  BY <1>3 DEF CallWait, Atomic!Invoke, AbstractCall
<1>4. ASSUME NEW t \in Threads, Lock(t) \/ WaitSleep(t) \/ WaitSeen(t)
                                \/ SpuriousWake(t) \/ Expire(t)
      PROVE  UNCHANGED Atomic!avars
  BY <1>4 DEF Lock, WaitSleep, WaitSeen, SpuriousWake, Expire, Atomic!avars, AbstractCall
<1>5. ASSUME NEW t \in Threads, SetBroadcast(t) PROVE Atomic!Raise(t)
  <2>1. AbstractCall' = [AbstractCall EXCEPT ![t] = "setDone"]
    BY <1>5 DEF SetBroadcast, AbstractCall
  <2> QED
    BY <1>5, <2>1 DEF SetBroadcast, Atomic!Raise, AbstractCall
<1>6. ASSUME NEW t \in Threads, SetSignal(t) PROVE Atomic!Return(t)
  BY <1>6 DEF SetSignal, Atomic!Return, AbstractCall
<1>7. ASSUME NEW t \in Threads, ResetState(t) PROVE Atomic!Lower(t)
  BY <1>7 DEF ResetState, Atomic!Lower, AbstractCall
<1>8. ASSUME NEW t \in Threads, WaitConsume(t) PROVE Atomic!Pass(t)
  BY <1>8, EventAssumption
     DEF WaitConsume, ConsumeOnlyASetFlag, Atomic!Pass, AbstractCall
<1>9. ASSUME NEW t \in Threads, ExpiredReturn(t) PROVE Atomic!GiveUp(t)
  BY <1>9 DEF ExpiredReturn, Atomic!GiveUp, AbstractCall
<1>10. CASE UNCHANGED vars
  BY <1>10 DEF vars, Atomic!avars, AbstractCall
<1> QED
  BY <1>1, <1>2, <1>3, <1>4, <1>5, <1>6, <1>7, <1>8, <1>9, <1>10
     DEF Next, Operation, Atomic!Next, Atomic!Calls

\* The event implements the atomic event.
THEOREM EventImplementsAtomicEvent == Spec => ImplementsAtomicEvent
<1>1. Init => Atomic!Init
  BY DEF Init, Atomic!Init, AbstractCall
<1> QED
  BY <1>1, StepRefines, Invariance, PTL DEF Spec, ImplementsAtomicEvent, Atomic!Spec
----------------------------------------------------------------------------
(* The way of a waiter out of wait(): what SignalReleases rests on, apart  *)
(* from the threads going on and the mutex being had in the end.           *)

\* How many points a waiter is away from leaving with the flag.
Away(t) ==
    CASE pc[t] = "waitConsume" -> 0
      [] pc[t] = "waitHeld"    -> 1
      [] pc[t] = "waitLock"    -> 2
      [] OTHER                 -> 3

\* A step that raises the flag or leaves it up.
FlagUpBrings ==
    m_bState' => \A t \in Threads :
        Waiting(t) => \/ ~Waiting(t)'
                      \/ Away(t)' <= Away(t) /\ (pc'[t] # pc[t] => Away(t)' < Away(t))

\* A waiter under a raised flag moves one point at a time, whoever steps.
LEMMA WaiterMoves ==
    ASSUME Inv, [Next]_vars, m_bState', NEW t \in Threads, Waiting(t), Waiting(t)'
    PROVE  \/ pc'[t] = pc[t]
           \/ pc[t] = "asleep" /\ pc'[t] = "waitLock"
           \/ pc[t] = "waitLock" /\ pc'[t] = "waitHeld"
           \/ pc[t] = "waitHeld" /\ pc'[t] = "waitConsume"
<1> USE DEF Inv, TypeOK, Points, Waiting, Goto
<1>1. ASSUME NEW u \in Threads, CallSet(u) \/ CallReset(u) \/ CallWait(u)
      PROVE  pc'[t] = pc[t]
  BY <1>1 DEF CallSet, CallReset, CallWait
<1>2. ASSUME NEW u \in Threads, Lock(u)
      PROVE  pc'[t] = pc[t] \/ (pc[t] = "waitLock" /\ pc'[t] = "waitHeld")
  BY <1>2 DEF Lock
<1>3. ASSUME NEW u \in Threads, SetBroadcast(u) \/ SetSignal(u) \/ SpuriousWake(u)
      PROVE  pc'[t] = pc[t] \/ (pc[t] = "asleep" /\ pc'[t] = "waitLock")
  BY <1>3 DEF SetBroadcast, SetSignal, SpuriousWake
<1>4. ASSUME NEW u \in Threads, WaitSeen(u)
      PROVE  pc'[t] = pc[t] \/ (pc[t] = "waitHeld" /\ pc'[t] = "waitConsume")
  BY <1>4 DEF WaitSeen
<1>5. ASSUME NEW u \in Threads,
             ResetState(u) \/ WaitSleep(u) \/ WaitConsume(u) \/ ExpiredReturn(u) \/ Expire(u)
      PROVE  pc'[t] = pc[t]
  BY <1>5 DEF ResetState, WaitSleep, WaitConsume, ExpiredReturn, Expire
<1>6. CASE UNCHANGED vars
  BY <1>6 DEF vars
<1> QED
  BY <1>1, <1>2, <1>3, <1>4, <1>5, <1>6 DEF Next, Operation

LEMMA NextBrings ==
    ASSUME Inv, [Next]_vars
    PROVE  FlagUpBrings
<1> SUFFICES ASSUME m_bState', NEW t \in Threads, Waiting(t), Waiting(t)'
             PROVE  Away(t)' <= Away(t) /\ (pc'[t] # pc[t] => Away(t)' < Away(t))
  BY DEF FlagUpBrings
<1> QED
  BY WaiterMoves DEF Away

\* A set() that is not undone releases: while the flag is up no waiter is sent
\* back to sleep, by whatever the other threads call, and each step of its own
\* brings it nearer to leaving.
THEOREM RaisedFlagBringsWaiters == Spec => [][FlagUpBrings]_vars
<1>1. Inv /\ [Next]_vars => [FlagUpBrings]_vars
  BY NextBrings
<1> QED
  BY <1>1, Invariance, PTL DEF Spec
----------------------------------------------------------------------------
(* And the waiters do leave.  The fairness is the one of FairSpec, written *)
(* under the [] that it satisfies anyway: what is fair to a thread is so   *)
(* from every state on.  That a thread can step where the guards of its    *)
(* calls say so is a hypothesis, for ENABLED has no rules here.            *)

Fair(t) == SF_vars(Operation(t))
Able(t) == ENABLED <<Operation(t)>>_vars

GuardsSuffice ==
    \A t \in Threads :
        pc[t] \in Holding \/ (pc[t] = "waitLock" /\ m_pMutex = NoOne) => Able(t)

Live ==
    /\ []Inv /\ [][Next]_vars
    /\ [](\A u \in Threads : Fair(u))
    /\ []GuardsSuffice

LEMMA FairEach ==
    ASSUME NEW t \in Threads
    PROVE  Live => []SF_vars(Operation(t))
<1>1. (\A u \in Threads : Fair(u)) => Fair(t)
  OBVIOUS
<1>2. Fair(t) => SF_vars(Operation(t))
  BY PTL DEF Fair
<1>3. Live => [](\A u \in Threads : Fair(u))
  BY PTL DEF Live
<1> QED
  BY <1>1, <1>2, <1>3, PTL

LEMMA AbleEach ==
    ASSUME NEW t \in Threads, GuardsSuffice,
           pc[t] \in Holding \/ (pc[t] = "waitLock" /\ m_pMutex = NoOne)
    PROVE  Able(t)
BY DEF GuardsSuffice

Free == m_pMutex = NoOne
HeldAt(t, point) == pc[t] = point /\ point \in Holding

\* Only the holder moves inside the critical section.
LEMMA HolderSuccessors ==
    ASSUME Inv, [Next]_vars, NEW t \in Threads, pc[t] \in Holding, ~Free'
    PROVE  /\ ~Operation(t) => pc'[t] = pc[t]
           /\ Operation(t) => pc[t] = "waitHeld" /\ pc'[t] = "waitConsume"
<1> USE DEF Inv, TypeOK, Points, Holding, Goto, Free
<1>1. m_pMutex = t /\ \A u \in Threads : pc[u] \in Holding => u = t
  BY DEF MutexHeldInside
<1>2. Operation(t) => pc[t] = "waitHeld" /\ pc'[t] = "waitConsume"
  BY <1>1, EventAssumption DEF Operation, Lock, SetBroadcast, SetSignal, ResetState, WaitSleep,
     WaitSeen, WaitConsume, ExpiredReturn
<1>3. ~Operation(t) => pc'[t] = pc[t]
  <2> SUFFICES ASSUME ~Operation(t) PROVE pc'[t] = pc[t]
    OBVIOUS
  <2>1. ASSUME NEW u \in Threads, CallSet(u) \/ CallReset(u) \/ CallWait(u)
        PROVE  pc'[t] = pc[t]
    BY <2>1 DEF CallSet, CallReset, CallWait
  <2>2. ASSUME NEW u \in Threads, Operation(u)
        PROVE  pc'[t] = pc[t]
    <3>1. u # t
      BY <2>2
    <3>2. ~Lock(u) /\ pc[u] \notin Holding
      BY <1>1, <3>1, EventAssumption DEF Lock
    <3> QED
      BY <2>2, <3>1, <3>2 DEF Operation, SetBroadcast, SetSignal, ResetState, WaitSleep, WaitSeen,
         WaitConsume, ExpiredReturn
  <2>3. ASSUME NEW u \in Threads, SpuriousWake(u) \/ Expire(u)
        PROVE  pc'[t] = pc[t]
    BY <2>3 DEF SpuriousWake, Expire
  <2>4. CASE UNCHANGED vars
    BY <2>4 DEF vars
  <2> QED
    BY <2>1, <2>2, <2>3, <2>4 DEF Next
<1> QED
  BY <1>2, <1>3

\* Whoever holds the mutex lets go of it.
LEMMA HolderLetsGo ==
    ASSUME NEW t \in Threads
    PROVE  Live => (m_pMutex = t => <>Free)
<1> DEFINE Step == Inv /\ [Next]_vars
           Point(p) == HeldAt(t, p)
<1>1. Step /\ Point("waitConsume") =>
        /\ Point("waitConsume")' \/ Free'
        /\ <<Operation(t)>>_vars => Free'
  BY HolderSuccessors DEF HeldAt
<1>2. Step /\ Point("setHeld") =>
        /\ Point("setHeld")' \/ Free'
        /\ <<Operation(t)>>_vars => Free'
  BY HolderSuccessors DEF HeldAt
<1>3. Step /\ Point("resetHeld") =>
        /\ Point("resetHeld")' \/ Free'
        /\ <<Operation(t)>>_vars => Free'
  BY HolderSuccessors DEF HeldAt
<1>4. Step /\ Point("waitHeld") =>
        /\ Point("waitHeld")' \/ Point("waitConsume")' \/ Free'
        /\ <<Operation(t)>>_vars => Point("waitConsume")' \/ Free'
  BY HolderSuccessors DEF HeldAt, Holding
<1>5. /\ GuardsSuffice /\ Point("waitConsume") => ENABLED <<Operation(t)>>_vars
      /\ GuardsSuffice /\ Point("setHeld") => ENABLED <<Operation(t)>>_vars
      /\ GuardsSuffice /\ Point("resetHeld") => ENABLED <<Operation(t)>>_vars
      /\ GuardsSuffice /\ Point("waitHeld") => ENABLED <<Operation(t)>>_vars
  <2>1. \A p \in Holding : GuardsSuffice /\ Point(p) => Able(t)
    BY AbleEach DEF HeldAt
  <2>2. /\ GuardsSuffice /\ Point("waitConsume") => Able(t)
        /\ GuardsSuffice /\ Point("setHeld") => Able(t)
        /\ GuardsSuffice /\ Point("resetHeld") => Able(t)
        /\ GuardsSuffice /\ Point("waitHeld") => Able(t)
    BY <2>1 DEF Holding
  <2> QED
    BY <2>2, PTL DEF Able
<1>6. Inv /\ m_pMutex = t =>
        Point("waitConsume") \/ Point("setHeld") \/ Point("resetHeld") \/ Point("waitHeld")
  BY DEF Inv, MutexHeldInside, Holding, HeldAt
<1> HIDE DEF Point
<1>7. Live => (Point("waitConsume") ~> Free)
  BY <1>1, <1>5, FairEach, PTL DEF Live
<1>8. Live => (Point("setHeld") ~> Free)
  BY <1>2, <1>5, FairEach, PTL DEF Live
<1>9. Live => (Point("resetHeld") ~> Free)
  BY <1>3, <1>5, FairEach, PTL DEF Live
<1>10. Live => (Point("waitHeld") ~> Free)
  BY <1>4, <1>5, <1>7, FairEach, PTL DEF Live
<1> QED
  BY <1>6, <1>7, <1>8, <1>9, <1>10, PTL DEF Live

\* So the mutex is to be had again and again, for whoever waits for it.
LEMMA MutexComesFree == Live => []<>Free
<1>1. Live => \A t \in Threads : (m_pMutex = t => <>Free)
  <2>1. \A t \in Threads : Live => (m_pMutex = t => <>Free)
    BY HolderLetsGo
  <2> QED
    BY <2>1
<1>2. (\A t \in Threads : (m_pMutex = t => <>Free)) =>
        ((\E t \in Threads : m_pMutex = t) => <>Free)
  OBVIOUS
<1>3. Inv => Free \/ \E t \in Threads : m_pMutex = t
  BY DEF Inv, TypeOK, Free
<1> QED
  BY <1>1, <1>2, <1>3, PTL DEF Live

\* The way of a waiter under a raised flag.
Out(t) == ~m_bState \/ ~Waiting(t)
UpAt(t, point) == m_bState /\ pc[t] = point

LEMMA WaiterSuccessors ==
    ASSUME Inv, [Next]_vars, NEW t \in Threads, m_bState, Waiting(t), ~Out(t)'
    PROVE  /\ pc[t] = "waitLock" => pc'[t] \in {"waitLock", "waitHeld"}
           /\ pc[t] = "waitLock" /\ Operation(t) => pc'[t] = "waitHeld"
           /\ pc[t] = "waitHeld" => pc'[t] \in {"waitHeld", "waitConsume"}
           /\ pc[t] = "waitHeld" /\ Operation(t) => pc'[t] = "waitConsume"
           /\ pc[t] = "waitConsume" => pc'[t] = "waitConsume" /\ ~Operation(t)
<1> USE DEF Waiting, Out
<1>1. pc[t] # "asleep"
  BY DEF Inv, NobodySleepsThroughASignal
<1>2. \/ pc'[t] = pc[t]
      \/ pc[t] = "waitLock" /\ pc'[t] = "waitHeld"
      \/ pc[t] = "waitHeld" /\ pc'[t] = "waitConsume"
  BY <1>1, WaiterMoves
<1>3. Operation(t) => pc'[t] # pc[t]
  BY <1>1, EventAssumption DEF Inv, TypeOK, Points, Goto, Operation, Lock, SetBroadcast, SetSignal,
     ResetState, WaitSleep, WaitSeen, WaitConsume, ExpiredReturn
<1> QED
  BY <1>2, <1>3

LEMMA WaiterLeaves ==
    ASSUME NEW t \in Threads
    PROVE  Live => ((m_bState /\ Waiting(t)) ~> (~m_bState \/ ~Waiting(t)))
<1> DEFINE Step == Inv /\ [Next]_vars
           Point(p) == UpAt(t, p)
           Over == Out(t)
           Began == m_bState /\ Waiting(t)
<1>1. Step /\ Point("waitConsume") =>
        /\ Point("waitConsume")' \/ Over'
        /\ <<Operation(t)>>_vars => Over'
  BY WaiterSuccessors DEF UpAt, Out, Waiting
<1>2. Step /\ Point("waitHeld") =>
        /\ Point("waitHeld")' \/ Point("waitConsume")' \/ Over'
        /\ <<Operation(t)>>_vars => Point("waitConsume")' \/ Over'
  BY WaiterSuccessors DEF UpAt, Out, Waiting
<1>3. Step /\ Point("waitLock") =>
        /\ Point("waitLock")' \/ Point("waitHeld")' \/ Over'
        /\ <<Operation(t)>>_vars => Point("waitHeld")' \/ Over'
  BY WaiterSuccessors DEF UpAt, Out, Waiting
<1>4. Inv /\ Began => Point("waitLock") \/ Point("waitHeld") \/ Point("waitConsume")
  BY DEF Inv, NobodySleepsThroughASignal, UpAt, Waiting
<1>5. /\ GuardsSuffice /\ Point("waitConsume") => ENABLED <<Operation(t)>>_vars
      /\ GuardsSuffice /\ Point("waitHeld") => ENABLED <<Operation(t)>>_vars
      /\ GuardsSuffice /\ Point("waitLock") /\ Free => ENABLED <<Operation(t)>>_vars
  <2>1. /\ GuardsSuffice /\ Point("waitConsume") => Able(t)
        /\ GuardsSuffice /\ Point("waitHeld") => Able(t)
        /\ GuardsSuffice /\ Point("waitLock") /\ Free => Able(t)
    BY AbleEach DEF UpAt, Holding, Free
  <2> QED
    BY <2>1, PTL DEF Able
<1>6. (~m_bState \/ ~Waiting(t)) <=> Over
  BY DEF Out
<1> HIDE DEF Point, Over, Began
<1>7. Live => (Point("waitConsume") ~> Over)
  BY <1>1, <1>5, FairEach, PTL DEF Live
<1>8. Live => (Point("waitHeld") ~> Over)
  BY <1>2, <1>5, <1>7, FairEach, PTL DEF Live
<1>9. Live => (Point("waitLock") ~> Over)
  BY <1>3, <1>5, <1>8, FairEach, MutexComesFree, PTL DEF Live
<1>10. Live => (Began ~> Over)
  BY <1>4, <1>7, <1>8, <1>9, PTL DEF Live
<1> QED
  BY <1>10 DEF Began, Over, Out

\* A raised flag does not stay up over a thread that waits for it, for any
\* threads: whoever holds the mutex lets go of it, and the waiter that gets it
\* takes the flag or finds it taken.
THEOREM SignalGetsThrough ==
    Spec /\ [](\A u \in Threads : Fair(u)) /\ []GuardsSuffice => SignalReleases
<1>1. \A t \in Threads : Live => ((m_bState /\ Waiting(t)) ~> (~m_bState \/ ~Waiting(t)))
  BY WaiterLeaves
<1>2. Live => SignalReleases
  BY <1>1 DEF SignalReleases
<1> QED
  BY <1>2, Invariance, PTL DEF Live, Spec
=============================================================================
