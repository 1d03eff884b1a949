------------------------ MODULE ConsoleQueue_proofs ------------------------
(***************************************************************************)
(* The console queue keeps its promises for any producers, any commands    *)
(* and any number of additions: it is a FIFO channel, its consumer is      *)
(* never woken over an empty queue, the gaps around its event do not show, *)
(* and it treats the event as the atomic one it is.                        *)
(***************************************************************************)
EXTENDS ConsoleQueue, SequenceTheorems, FiniteSetTheorems, TLAPS

----------------------------------------------------------------------------
\* Facts about sequences.

\* Moving the head of the second sequence to the end of the first one leaves
\* their concatenation as it was: what popConsoleCmdWait does to "got" and the
\* queue.
LEMMA ConcatMoveHead ==
    ASSUME NEW S, NEW s \in Seq(S), NEW t \in Seq(S), t # <<>>
    PROVE  Append(s, Head(t)) \o Tail(t) = s \o t
<1> DEFINE u == Append(s, Head(t))
           v == Tail(t)
           left == u \o v
           right == s \o t
<1>1. Len(t) \in Nat /\ Len(t) > 0 /\ Len(s) \in Nat
  BY LenProperties, EmptySeq
<1>2. /\ Head(t) \in S /\ Head(t) = t[1]
      /\ v \in Seq(S) /\ Len(v) = Len(t) - 1
      /\ \A i \in 1 .. Len(v) : v[i] = t[i + 1]
  BY HeadTailProperties
<1>3. /\ u \in Seq(S) /\ Len(u) = Len(s) + 1
      /\ \A i \in 1 .. Len(s) : u[i] = s[i]
      /\ u[Len(s) + 1] = Head(t)
  BY <1>2, AppendProperties
<1> HIDE DEF u, v
<1>4. /\ left \in Seq(S) /\ Len(left) = Len(s) + Len(t)
      /\ \A i \in 1 .. Len(s) + Len(t) :
           left[i] = IF i <= Len(s) + 1 THEN u[i] ELSE v[i - (Len(s) + 1)]
  <2>1. /\ u \o v \in Seq(S) /\ Len(u \o v) = Len(u) + Len(v)
        /\ \A i \in 1 .. Len(u) + Len(v) :
             (u \o v)[i] = IF i <= Len(u) THEN u[i] ELSE v[i - Len(u)]
    BY <1>2, <1>3, ConcatProperties
  <2>2. Len(u) + Len(v) = Len(s) + Len(t)
    BY <1>1, <1>2, <1>3
  <2> QED
    BY <2>1, <2>2, <1>3
<1>5. /\ right \in Seq(S) /\ Len(right) = Len(s) + Len(t)
      /\ \A i \in 1 .. Len(s) + Len(t) :
           right[i] = IF i <= Len(s) THEN s[i] ELSE t[i - Len(s)]
  BY ConcatProperties
<1> HIDE DEF left, right
<1>6. ASSUME NEW i \in 1 .. Len(left) PROVE left[i] = right[i]
  <2>1. i \in 1 .. Len(s) + Len(t) /\ i \in Int
    BY <1>4, <1>1
  <2>2. CASE i <= Len(s)
    <3>1. i \in 1 .. Len(s) /\ i <= Len(s) + 1
      BY <2>1, <2>2, <1>1
    <3>2. u[i] = s[i]
      BY <3>1, <1>3
    <3>3. left[i] = u[i] /\ right[i] = s[i]
      BY <3>1, <2>1, <2>2, <1>4, <1>5
    <3> QED
      BY <3>2, <3>3
  <2>3. CASE i = Len(s) + 1
    <3>1. left[i] = u[i]
      BY <2>1, <2>3, <1>1, <1>4
    <3>2. u[i] = t[1]
      BY <2>3, <1>2, <1>3
    <3>3. right[i] = t[i - Len(s)]
      BY <2>1, <2>3, <1>1, <1>5
    <3>4. i - Len(s) = 1
      BY <2>3, <1>1
    <3> QED
      BY <3>1, <3>2, <3>3, <3>4
  <2>4. CASE i > Len(s) + 1
    <3>1. i - (Len(s) + 1) \in 1 .. Len(v)
      BY <2>1, <2>4, <1>1, <1>2
    <3>2. v[i - (Len(s) + 1)] = t[i - Len(s)]
      BY <3>1, <1>1, <1>2, <2>1
    <3>3. left[i] = v[i - (Len(s) + 1)]
      BY <2>1, <2>4, <1>1, <1>4
    <3>4. right[i] = t[i - Len(s)]
      BY <2>1, <2>4, <1>1, <1>5
    <3> QED
      BY <3>2, <3>3, <3>4
  <2> QED
    BY <2>1, <2>2, <2>3, <2>4, <1>1
<1>7. left = right
  BY <1>4, <1>5, <1>6, SeqEqual
<1> QED
  BY <1>7 DEF left, right, u, v

\* The element behind the first sequence of a concatenation is the head of
\* the second one.
LEMMA ConcatNext ==
    ASSUME NEW S, NEW s \in Seq(S), NEW t \in Seq(S), t # <<>>
    PROVE  /\ Len(s) < Len(s \o t)
           /\ (s \o t)[Len(s) + 1] = Head(t)
<1>1. Len(s) \in Nat /\ Len(t) \in Nat /\ Len(t) > 0
  BY LenProperties, EmptySeq
<1> QED
  BY <1>1, ConcatProperties, HeadTailProperties

----------------------------------------------------------------------------
\* Type correctness.

\* Every reachable state of the queue has the types declared for it.
THEOREM TypeCorrect == Spec => []TypeOK
<1>1. Init => TypeOK
  BY EmptySeq DEF Init, TypeOK
<1>2. TypeOK /\ [Next]_vars => TypeOK'
  <2> SUFFICES ASSUME TypeOK, [Next]_vars PROVE TypeOK'
    OBVIOUS
  <2>1. ASSUME NEW p \in Producers, NEW c \in Commands, Push(p, c) PROVE TypeOK'
    BY <2>1, AppendProperties DEF TypeOK, Push
  <2>2. ASSUME NEW p \in Producers, SetEvent(p) PROVE TypeOK'
    BY <2>2 DEF TypeOK, SetEvent
  <2>3. CASE Ask
    BY <2>3 DEF TypeOK, Ask
  <2>4. CASE Wake
    BY <2>4 DEF TypeOK, Wake
  <2>5. CASE PopOrWaitAgain
    <3>1. CASE m_consoleCmdQueue # <<>>
      <4>1. Head(m_consoleCmdQueue) \in Commands /\ Tail(m_consoleCmdQueue) \in Seq(Commands)
        BY <3>1, HeadTailProperties DEF TypeOK
      <4>2. Append(got, Head(m_consoleCmdQueue)) \in Seq(Commands)
        BY <4>1, AppendProperties DEF TypeOK
      <4> QED
        BY <2>5, <3>1, <4>1, <4>2 DEF TypeOK, PopOrWaitAgain
    <3>2. CASE m_consoleCmdQueue = <<>>
      BY <2>5, <3>2 DEF TypeOK, PopOrWaitAgain
    <3> QED
      BY <3>1, <3>2
  <2>6. CASE UNCHANGED vars
    BY <2>6 DEF TypeOK, vars
  <2> QED
    BY <2>1, <2>2, <2>3, <2>4, <2>5, <2>6 DEF Next, Producer, Consumer, Answer
<1> QED
  BY <1>1, <1>2, PTL DEF Spec

----------------------------------------------------------------------------
\* Order.

\* What was added is what was popped followed by what is queued, in order.
THEOREM OrderKept == Spec => []InOrder
<1>1. Init => InOrder
  BY ConcatEmptySeq, EmptySeq DEF Init, InOrder
<1>2. TypeOK /\ InOrder /\ [Next]_vars => InOrder'
  <2> SUFFICES ASSUME TypeOK, InOrder, [Next]_vars PROVE InOrder'
    OBVIOUS
  <2>1. ASSUME NEW p \in Producers, NEW c \in Commands, Push(p, c) PROVE InOrder'
    <3>1. <<c>> \in Seq(Commands)
      OBVIOUS
    <3>2. /\ Append(m_consoleCmdQueue, c) = m_consoleCmdQueue \o <<c>>
          /\ Append(added, c) = added \o <<c>>
      BY AppendIsConcat DEF TypeOK
    <3>3. got \o (m_consoleCmdQueue \o <<c>>) = (got \o m_consoleCmdQueue) \o <<c>>
      BY <3>1, ConcatAssociative DEF TypeOK
    <3> QED
      BY <2>1, <3>2, <3>3 DEF InOrder, Push
  <2>2. CASE PopOrWaitAgain
    <3>1. CASE m_consoleCmdQueue # <<>>
      BY <2>2, <3>1, ConcatMoveHead DEF TypeOK, InOrder, PopOrWaitAgain
    <3>2. CASE m_consoleCmdQueue = <<>>
      BY <2>2, <3>2 DEF InOrder, PopOrWaitAgain
    <3> QED
      BY <3>1, <3>2
  <2>3. CASE (\E p \in Producers : SetEvent(p)) \/ Ask \/ Wake \/ UNCHANGED vars
    BY <2>3 DEF InOrder, SetEvent, Ask, Wake, vars
  <2> QED
    BY <2>1, <2>2, <2>3 DEF Next, Producer, Consumer, Answer
<1> QED
  BY <1>1, <1>2, TypeCorrect, PTL DEF Spec

----------------------------------------------------------------------------
\* Wake-ups.  "Woken implies non-empty" is not inductive by itself: it has to
\* count what could wake the consumer next.

\* Every event that is up or about to be raised, and a wake-up that has not
\* popped yet, stand for different queued commands.
THEOREM WakeBudgetKept == Spec => []WakeBudget
<1>1. Init => WakeBudget
  BY FS_EmptySet DEF Init, WakeBudget, One
<1>2. TypeOK /\ WakeBudget /\ [Next]_vars => WakeBudget'
  <2> SUFFICES ASSUME TypeOK, WakeBudget, [Next]_vars PROVE WakeBudget'
    OBVIOUS
  <2>1. IsFiniteSet(toSet) /\ Cardinality(toSet) \in Nat /\ Len(m_consoleCmdQueue) \in Nat
    BY QueueAssumption, FS_Subset, FS_CardinalityType, LenProperties DEF TypeOK
  <2>2. ASSUME NEW p \in Producers, NEW c \in Commands, Push(p, c) PROVE WakeBudget'
    <3>1. Cardinality(toSet') = Cardinality(toSet) + 1
      BY <2>1, <2>2, FS_AddElement DEF Push
    <3>2. Len(m_consoleCmdQueue') = Len(m_consoleCmdQueue) + 1
      BY <2>2, AppendProperties DEF Push, TypeOK
    <3> QED
      BY <2>1, <2>2, <3>1, <3>2 DEF WakeBudget, One, Push
  <2>3. ASSUME NEW p \in Producers, SetEvent(p) PROVE WakeBudget'
    <3>1. Cardinality(toSet') = Cardinality(toSet) - 1
      BY <2>1, <2>3, FS_RemoveElement DEF SetEvent
    <3> QED
      BY <2>1, <2>3, <3>1 DEF WakeBudget, One, SetEvent
  <2>4. CASE Ask
    BY <2>1, <2>4 DEF WakeBudget, One, Ask
  <2>5. CASE Wake
    BY <2>1, <2>5 DEF WakeBudget, One, Wake
  <2>6. CASE PopOrWaitAgain
    <3>1. CASE m_consoleCmdQueue # <<>>
      <4>1. Len(m_consoleCmdQueue') = Len(m_consoleCmdQueue) - 1
        BY <2>6, <3>1, HeadTailProperties DEF PopOrWaitAgain, TypeOK
      <4> QED
        BY <2>1, <2>6, <3>1, <4>1 DEF WakeBudget, One, PopOrWaitAgain
    <3>2. CASE m_consoleCmdQueue = <<>>
      BY <2>1, <2>6, <3>2 DEF WakeBudget, One, PopOrWaitAgain
    <3> QED
      BY <3>1, <3>2
  <2>7. CASE UNCHANGED vars
    BY <2>7 DEF WakeBudget, vars
  <2> QED
    BY <2>2, <2>3, <2>4, <2>5, <2>6, <2>7 DEF Next, Producer, Consumer, Answer
<1> QED
  BY <1>1, <1>2, TypeCorrect, PTL DEF Spec

\* The consumer is never woken over an empty queue: the "Spurious wake"
\* branch of popConsoleCmdWait is never taken.
THEOREM NoSpuriousWake == Spec => []WakeFindsCommand
<1>1. TypeOK /\ WakeBudget => WakeFindsCommand
  <2> SUFFICES ASSUME TypeOK, WakeBudget, consumer = "woken", m_consoleCmdQueue = <<>>
               PROVE  FALSE
    BY DEF WakeFindsCommand
  <2>1. Cardinality(toSet) \in Nat
    BY QueueAssumption, FS_Subset, FS_CardinalityType DEF TypeOK
  <2>2. Len(m_consoleCmdQueue) = 0
    OBVIOUS
  <2> QED
    BY <2>1, <2>2 DEF WakeBudget, One, TypeOK
<1> QED
  BY <1>1, TypeCorrect, WakeBudgetKept, PTL

----------------------------------------------------------------------------
\* Refinement.

\* The queue implements a FIFO channel: a push sends, a pop receives, every
\* other step stutters.
THEOREM QueueImplementsChannel == Spec => ImplementsChannel
<1>1. Init => Channel!Init
  BY DEF Init, Channel!Init
<1>2. TypeOK /\ InOrder /\ [Next]_vars => [Channel!Next]_(Channel!cvars)
  <2> SUFFICES ASSUME TypeOK, InOrder, [Next]_vars
               PROVE  [Channel!Next]_(Channel!cvars)
    OBVIOUS
  <2>1. ASSUME NEW p \in Producers, NEW c \in Commands, Push(p, c)
        PROVE  Channel!Next
    BY <2>1 DEF Push, Channel!Next, Channel!Send
  <2>2. CASE PopOrWaitAgain
    <3>1. CASE m_consoleCmdQueue # <<>>
      <4>1. Len(got) < Len(added) /\ added[Len(got) + 1] = Head(m_consoleCmdQueue)
        BY <3>1, ConcatNext DEF TypeOK, InOrder
      <4> QED
        BY <2>2, <3>1, <4>1 DEF PopOrWaitAgain, Channel!Next, Channel!Receive
    <3>2. CASE m_consoleCmdQueue = <<>>
      BY <2>2, <3>2 DEF PopOrWaitAgain, Channel!cvars
    <3> QED
      BY <3>1, <3>2
  <2>3. CASE (\E p \in Producers : SetEvent(p)) \/ Ask \/ Wake \/ UNCHANGED vars
    BY <2>3 DEF SetEvent, Ask, Wake, vars, Channel!cvars
  <2> QED
    BY <2>1, <2>2, <2>3 DEF Next, Producer, Consumer, Answer
<1> QED
  BY <1>1, <1>2, TypeCorrect, OrderKept, PTL DEF Spec, ImplementsChannel, Channel!Spec

----------------------------------------------------------------------------
\* The two gaps thought away.

\* Cutting a queue at its ends: what the steps of addCmdToQueue and
\* popConsoleCmdWait do to the commands that have been heard of.
LEMMA CutFacts ==
    ASSUME NEW S, NEW q \in Seq(S), NEW a \in {1, 2}, NEW n \in a - 1 .. Len(q)
    PROVE  /\ \A c \in S : SubSeq(Append(q, c), a, n) = SubSeq(q, a, n)
           /\ n < Len(q) =>
                q[n + 1] \in S /\ SubSeq(q, a, n + 1) = Append(SubSeq(q, a, n), q[n + 1])
           /\ a = 1 /\ n >= 1 =>
                SubSeq(q, 1, n) # <<>> /\ SubSeq(q, 2, n) = Tail(SubSeq(q, 1, n))
           /\ a = 2 => SubSeq(Tail(q), 1, n - 1) = SubSeq(q, 2, n)
<1>1. Len(q) \in Nat /\ n \in Int /\ a \in Int /\ n - a + 1 \in Nat
  BY LenProperties
<1>2. \A i \in 1 .. Len(q) : q[i] \in S
  BY ElementOfSeq
<1> DEFINE s == SubSeq(q, a, n)
<1>3. /\ s \in Seq(S) /\ Len(s) = n - a + 1
      /\ \A i \in 1 .. n - a + 1 : s[i] = q[a + i - 1]
  <2>1. \A i \in a .. n : q[i] \in S
    BY <1>1, <1>2
  <2> QED
    BY <1>1, <2>1, SubSeqProperties
<1> HIDE DEF s
<1>4. ASSUME NEW c \in S PROVE SubSeq(Append(q, c), a, n) = s
  <2> DEFINE r == Append(q, c)
             t == SubSeq(r, a, n)
  <2>1. \A i \in 1 .. Len(q) : r[i] = q[i]
    BY AppendProperties
  <2> HIDE DEF r
  <2>2. \A i \in a .. n : i \in 1 .. Len(q) /\ r[i] = q[i]
    BY <1>1, <2>1
  <2>3. /\ t \in Seq(S) /\ Len(t) = n - a + 1
        /\ \A i \in 1 .. n - a + 1 : t[i] = r[a + i - 1]
    BY <1>1, <1>2, <2>2, SubSeqProperties
  <2> HIDE DEF t
  <2>4. \A i \in 1 .. n - a + 1 : a + i - 1 \in a .. n
    BY <1>1
  <2>5. \A i \in 1 .. Len(t) : t[i] = s[i]
    BY <1>3, <2>2, <2>3, <2>4
  <2>6. t = s
    BY <1>3, <2>3, <2>5, SeqEqual
  <2> QED
    BY <2>6 DEF t, r
<1>5. ASSUME n < Len(q) PROVE q[n + 1] \in S /\ SubSeq(q, a, n + 1) = Append(s, q[n + 1])
  <2>1. q[n + 1] \in S
    BY <1>1, <1>2, <1>5
  <2> DEFINE t == SubSeq(q, a, n + 1)
             r == Append(s, q[n + 1])
  <2>2. /\ r \in Seq(S) /\ Len(r) = n - a + 2
        /\ \A i \in 1 .. n - a + 1 : r[i] = s[i]
        /\ r[n - a + 2] = q[n + 1]
    BY <1>1, <1>3, <2>1, AppendProperties
  <2>3. /\ t \in Seq(S) /\ Len(t) = n - a + 2
        /\ \A i \in 1 .. n - a + 2 : t[i] = q[a + i - 1]
    <3>1. \A i \in a .. n + 1 : q[i] \in S
      BY <1>1, <1>2, <1>5
    <3> QED
      BY <1>1, <3>1, SubSeqProperties
  <2> HIDE DEF r, t
  <2>4. ASSUME NEW i \in 1 .. n - a + 2 PROVE t[i] = r[i]
    <3>1. CASE i = n - a + 2
      <4>1. a + i - 1 = n + 1
        BY <1>1, <3>1
      <4> QED
        BY <2>2, <2>3, <3>1, <4>1
    <3>2. CASE i # n - a + 2
      <4>1. i \in 1 .. n - a + 1
        BY <1>1, <3>2
      <4> QED
        BY <1>3, <2>2, <2>3, <4>1
    <3> QED
      BY <3>1, <3>2
  <2>5. t = r
    BY <2>2, <2>3, <2>4, SeqEqual
  <2> QED
    BY <2>1, <2>5 DEF t, r
<1>6. ASSUME a = 1, n >= 1 PROVE s # <<>> /\ SubSeq(q, 2, n) = Tail(s)
  <2>1. 1 \in 1 .. Len(q) /\ n \in 1 .. Len(q) /\ s = SubSeq(q, 1, n)
    BY <1>1, <1>6 DEF s
  <2>2. s # <<>>
    BY <1>1, <1>3, <1>6, EmptySeq
  <2> QED
    BY <2>1, <2>2, HeadTailOfSubSeq
<1>7. ASSUME a = 2 PROVE SubSeq(Tail(q), 1, n - 1) = s
  <2> DEFINE r == Tail(q)
             t == SubSeq(r, 1, n - 1)
  <2>1. Len(r) = Len(q) - 1 /\ \A i \in 1 .. Len(r) : r[i] = q[i + 1]
    <3>1. q # <<>>
      BY <1>1, <1>7, EmptySeq
    <3> QED
      BY <3>1, HeadTailProperties
  <2> HIDE DEF r
  <2>2. \A i \in 1 .. n - 1 : r[i] = q[i + 1] /\ i + 1 \in 1 .. Len(q)
    BY <1>1, <2>1
  <2>3. /\ t \in Seq(S) /\ Len(t) = n - 1
        /\ \A i \in 1 .. n - 1 : t[i] = r[i]
    <3>1. \A i \in 1 .. n - 1 : r[i] \in S
      BY <1>2, <2>2
    <3>2. /\ t \in Seq(S) /\ Len(t) = (IF 1 <= n - 1 THEN n - 1 - 1 + 1 ELSE 0)
          /\ \A i \in 1 .. n - 1 - 1 + 1 : t[i] = r[1 + i - 1]
      BY <1>1, <3>1, SubSeqProperties
    <3>3. n - 1 \in Nat /\ \A i \in 1 .. n - 1 : 1 + i - 1 = i /\ i \in 1 .. n - 1 - 1 + 1
      BY <1>1, <1>7
    <3> HIDE DEF t
    <3> QED
      BY <1>1, <3>2, <3>3
  <2> HIDE DEF t
  <2>4. \A i \in 1 .. n - 1 : a + i - 1 = i + 1 /\ i \in 1 .. n - a + 1
    BY <1>1, <1>7
  <2>5. Len(t) = Len(s) /\ \A i \in 1 .. Len(t) : t[i] = s[i]
    BY <1>1, <1>3, <1>7, <2>2, <2>3, <2>4
  <2>6. t = s
    BY <1>3, <2>3, <2>5, SeqEqual
  <2> QED
    BY <2>6 DEF t, r
<1> QED
  BY <1>4, <1>5, <1>6, <1>7 DEF s

\* The console queue implements the atomic console that the debugging session
\* is modelled with: a raised event adds, a wake-up takes, and a push or a pop
\* changes nothing that has been heard of.
THEOREM QueueImplementsAtomicConsole == Spec => ImplementsAtomicConsole
<1> DEFINE a == IF consumer = "woken" THEN 2 ELSE 1
           n == Len(m_consoleCmdQueue) - Cardinality(toSet)
<1>1. Init => Console!Init
  <2> SUFFICES ASSUME Init PROVE Console!Init
    OBVIOUS
  <2>1. Len(m_consoleCmdQueue) = 0 /\ Cardinality(toSet) = 0 /\ consumer # "woken"
    BY FS_EmptySet DEF Init
  <2>2. heard = SubSeq(m_consoleCmdQueue, 1, 0)
    BY <2>1 DEF heard
  <2> QED
    BY <2>2, SubSeqEmpty DEF Init, Console!Init
<1>2. TypeOK /\ WakeBudget /\ [Next]_vars => [Console!Next]_(Console!avars)
  <2> SUFFICES ASSUME TypeOK, WakeBudget, [Next]_vars
               PROVE  Console!Next \/ UNCHANGED <<heard, m_bState>>
    BY DEF Console!avars
  <2>1. /\ m_consoleCmdQueue \in Seq(Commands) /\ Len(m_consoleCmdQueue) \in Nat
        /\ IsFiniteSet(toSet) /\ Cardinality(toSet) \in Nat
    BY QueueAssumption, FS_Subset, FS_CardinalityType, LenProperties DEF TypeOK
  <2>2. a \in {1, 2} /\ n \in a - 1 .. Len(m_consoleCmdQueue) /\ (m_bState => n >= a)
    BY <2>1 DEF WakeBudget, One, TypeOK
  <2>3. heard = SubSeq(m_consoleCmdQueue, a, n)
    BY DEF heard
  <2>4. ASSUME NEW p \in Producers, NEW c \in Commands, Push(p, c)
        PROVE  UNCHANGED <<heard, m_bState>>
    <3>1. Cardinality(toSet') = Cardinality(toSet) + 1
      BY <2>1, <2>4, FS_AddElement DEF Push
    <3>2. Len(m_consoleCmdQueue') = Len(m_consoleCmdQueue) + 1
      BY <2>1, <2>4, AppendProperties DEF Push
    <3>3. n' = n /\ a' = a
      BY <2>1, <2>4, <3>1, <3>2 DEF Push
    <3>4. heard' = SubSeq(Append(m_consoleCmdQueue, c), a, n)
      BY <2>4, <3>3 DEF heard, Push
    <3> HIDE DEF a, n
    <3> QED
      BY <2>1, <2>2, <2>3, <2>4, <3>4, CutFacts DEF Push
  <2>5. ASSUME NEW p \in Producers, SetEvent(p) PROVE Console!Next
    <3>1. Cardinality(toSet') = Cardinality(toSet) - 1 /\ Cardinality(toSet) >= 1
      <4>1. Cardinality(toSet \ {p}) = Cardinality(toSet) - 1 /\ Cardinality(toSet \ {p}) \in Nat
        BY <2>1, <2>5, FS_RemoveElement, FS_CardinalityType DEF SetEvent
      <4> QED
        BY <2>1, <2>5, <4>1 DEF SetEvent
    <3>2. n' = n + 1 /\ a' = a /\ n < Len(m_consoleCmdQueue)
      BY <2>1, <2>5, <3>1 DEF SetEvent
    <3>3. heard' = SubSeq(m_consoleCmdQueue, a, n + 1)
      BY <2>5, <3>2 DEF heard, SetEvent
    <3> HIDE DEF a, n
    <3>4. /\ m_consoleCmdQueue[n + 1] \in Commands
          /\ heard' = Append(heard, m_consoleCmdQueue[n + 1])
      BY <2>1, <2>2, <2>3, <3>2, <3>3, CutFacts
    <3> QED
      BY <2>5, <3>4 DEF SetEvent, Console!Next, Console!Add
  <2>6. CASE Wake
    <3>1. a = 1 /\ n >= 1 /\ a' = 2 /\ n' = n
      BY <2>1, <2>2, <2>6 DEF Wake
    <3>2. heard' = SubSeq(m_consoleCmdQueue, 2, n)
      BY <2>6, <3>1 DEF heard, Wake
    <3> HIDE DEF a, n
    <3>3. heard # <<>> /\ heard' = Tail(heard)
      BY <2>1, <2>2, <2>3, <3>1, <3>2, CutFacts
    <3> QED
      BY <2>6, <3>3 DEF Wake, Console!Next, Console!Take
  <2>7. CASE PopOrWaitAgain
    <3>1. a = 2 /\ m_consoleCmdQueue # <<>>
      <4>1. a = 2
        BY <2>7 DEF PopOrWaitAgain
      <4>2. Len(m_consoleCmdQueue) >= 1
        BY <2>1, <2>2, <4>1
      <4> QED
        BY <4>1, <4>2, EmptySeq
    <3>2. Len(m_consoleCmdQueue') = Len(m_consoleCmdQueue) - 1
      BY <2>1, <2>7, <3>1, HeadTailProperties DEF PopOrWaitAgain
    <3>3. a' = 1 /\ n' = n - 1
      BY <2>1, <2>7, <3>1, <3>2 DEF PopOrWaitAgain
    <3>4. heard' = SubSeq(Tail(m_consoleCmdQueue), 1, n - 1)
      BY <2>7, <3>1, <3>3 DEF heard, PopOrWaitAgain
    <3> HIDE DEF a, n
    <3> QED
      BY <2>1, <2>2, <2>3, <2>7, <3>1, <3>4, CutFacts DEF PopOrWaitAgain
  <2>8. CASE Ask \/ UNCHANGED vars
    BY <2>8 DEF Ask, vars, heard, TypeOK
  <2> QED
    BY <2>4, <2>5, <2>6, <2>7, <2>8 DEF Next, Producer, Consumer, Answer
<1> QED
  BY <1>1, <1>2, TypeCorrect, WakeBudgetKept, PTL DEF Spec, ImplementsAtomicConsole, Console!Spec

----------------------------------------------------------------------------
\* The event under the queue.

\* The thread that waits.  As the producer it is while it drains operations it
\* counts as a user of its own.
EmulatorThread == CHOOSE t : t \notin Producers

\* The call of the event each user is inside of.
eventCall ==
    [t \in Producers \cup {EmulatorThread} |->
        IF t = EmulatorThread
        THEN (IF consumer = "wait" THEN "wait" ELSE "none")
        ELSE (IF t \in toSet THEN "set" ELSE "none")]

Event == INSTANCE AtomicEvent
         WITH Threads <- Producers \cup {EmulatorThread}, AutoReset <- TRUE,
              signaled <- m_bState, call <- eventCall

\* The queue uses its event as ThreadEvent was shown to behave: a push enters
\* set(), raising the flag leaves it, a question enters wait(), a wake-up
\* leaves it with the flag down, and nothing else touches the flag.
THEOREM QueueKeepsToEvent == Spec => Event!Spec
<1> EmulatorThread \notin Producers
  BY NoSetContainsEverything DEF EmulatorThread
<1> HIDE DEF EmulatorThread
<1>1. Init => Event!Init
  BY DEF Init, Event!Init, eventCall
<1>2. TypeOK /\ WakeFindsCommand /\ [Next]_vars => [Event!Next]_(Event!avars)
  <2> SUFFICES ASSUME TypeOK, WakeFindsCommand, [Next]_vars
               PROVE  Event!Next \/ UNCHANGED <<m_bState, eventCall>>
    BY DEF Event!avars
  <2> USE DEF TypeOK, Event!Calls
  <2>1. ASSUME NEW p \in Producers, NEW c \in Commands, Push(p, c)
        PROVE  Event!Invoke(p, "set")
    BY <2>1 DEF Push, Event!Invoke, eventCall
  <2>2. ASSUME NEW p \in Producers, SetEvent(p) PROVE Event!Raise(p)
    <3>1. eventCall' = [eventCall EXCEPT ![p] = "none"]
      BY <2>2 DEF SetEvent, eventCall
    <3> QED
      BY <2>2, <3>1 DEF SetEvent, Event!Raise, eventCall
  <2>3. CASE Ask
    <3>1. Event!Invoke(EmulatorThread, "wait")
      BY <2>3 DEF Ask, Event!Invoke, eventCall
    <3> QED
      BY <3>1 DEF Event!Next
  <2>4. CASE Wake
    <3>1. Event!Pass(EmulatorThread)
      BY <2>4 DEF Wake, Event!Pass, eventCall
    <3> QED
      BY <3>1 DEF Event!Next
  <2>5. CASE PopOrWaitAgain
    BY <2>5 DEF PopOrWaitAgain, WakeFindsCommand, eventCall
  <2>6. CASE UNCHANGED vars
    BY <2>6 DEF vars, eventCall
  <2> QED
    BY <2>1, <2>2, <2>3, <2>4, <2>5, <2>6 DEF Next, Producer, Consumer, Answer, Event!Next
<1> QED
  BY <1>1, <1>2, TypeCorrect, NoSpuriousWake, PTL DEF Spec, Event!Spec
----------------------------------------------------------------------------
\* A raised event delivers.

\* Where the emulator thread has a step to take in popConsoleCmdWait: everywhere
\* but in wait() with the event down.
CanAnswer ==
    \/ consumer = "woken"
    \/ consumer = "wait" /\ m_bState

\* The three stations of a command that has an event, n commands popped.
Raised(n) == consumer = "elsewhere" /\ m_bState /\ Len(got) = n
Asked(n)  == consumer = "wait" /\ m_bState /\ Len(got) = n
Woken(n)  == consumer = "woken" /\ Len(got) = n

\* A producer neither takes an event down nor touches the consumer.
LEMMA ProducerLeaves ==
    ASSUME [Next]_vars, ~Consumer
    PROVE  UNCHANGED <<consumer, got>> /\ (m_bState => m_bState')
BY DEF Next, Producer, SetEvent, Push, vars

\* From station to station: the first is left only by asking, the others by
\* the steps inside popConsoleCmdWait.
LEMMA StationSteps ==
    ASSUME NEW n, TypeOK, WakeFindsCommand, [Next]_vars
    PROVE  /\ Raised(n) => Raised(n)' \/ Asked(n)'
           /\ Asked(n) => IF Answer THEN Woken(n)' ELSE Asked(n)'
           /\ Woken(n) => IF Answer THEN Len(got') = n + 1 ELSE Woken(n)'
<1>1. CASE ~Consumer
  BY <1>1, ProducerLeaves DEF Raised, Asked, Woken, Consumer
<1>2. CASE Ask
  BY <1>2 DEF Ask, Answer, Wake, PopOrWaitAgain, Raised, Asked, Woken
<1>3. CASE Answer
  <2>1. ~Raised(n)
    BY <1>3 DEF Answer, Wake, PopOrWaitAgain, Raised
  <2>2. Asked(n) => Woken(n)'
    BY <1>3 DEF Answer, Wake, PopOrWaitAgain, Asked, Woken
  <2>3. ASSUME Woken(n) PROVE Len(got') = n + 1
    <3>1. m_consoleCmdQueue # <<>> /\ PopOrWaitAgain
      BY <1>3, <2>3 DEF Answer, Wake, WakeFindsCommand, Woken
    <3>2. Head(m_consoleCmdQueue) \in Commands
      BY <3>1, HeadTailProperties DEF TypeOK
    <3> QED
      BY <2>3, <3>1, <3>2, AppendProperties DEF PopOrWaitAgain, TypeOK, Woken
  <2> QED
    BY <1>3, <2>1, <2>2, <2>3
<1> QED
  BY <1>1, <1>2, <1>3 DEF Consumer

\* For one number of popped commands.
LEMMA NextDelivered ==
    ASSUME NEW n \in 0 .. MaxAdds
    PROVE  FairSpec /\ [](CanAnswer => ENABLED <<Answer>>_vars)
             => ((m_bState /\ Len(got) = n) ~> (Len(got) > n \/ [](consumer = "elsewhere")))
<1> DEFINE Delivered == Len(got) > n
           Away == consumer = "elsewhere"
<1>1. TypeOK /\ m_bState /\ Len(got) = n => Raised(n) \/ Asked(n) \/ Woken(n)
  BY DEF TypeOK, Raised, Asked, Woken
<1>2. (Asked(n) \/ Woken(n) => CanAnswer) /\ (Raised(n) => Away)
  BY DEF Raised, Asked, Woken, CanAnswer
<1>3. /\ TypeOK /\ WakeFindsCommand /\ [Next]_vars /\ Raised(n) => Raised(n)' \/ Asked(n)'
      /\ TypeOK /\ WakeFindsCommand /\ [Next]_vars /\ Asked(n) => Asked(n)' \/ Woken(n)'
      /\ TypeOK /\ WakeFindsCommand /\ [Next]_vars /\ <<Answer>>_vars /\ Asked(n) => Woken(n)'
  BY StationSteps
<1>4. /\ TypeOK /\ WakeFindsCommand /\ [Next]_vars /\ Woken(n) => Woken(n)' \/ Delivered'
      /\ TypeOK /\ WakeFindsCommand /\ [Next]_vars /\ <<Answer>>_vars /\ Woken(n) => Delivered'
  BY StationSteps
<1> HIDE DEF Delivered, Away
<1>5. FairSpec /\ [](CanAnswer => ENABLED <<Answer>>_vars)
        => ((m_bState /\ Len(got) = n) ~> (Delivered \/ []Away))
  BY <1>1, <1>2, <1>3, <1>4, TypeCorrect, NoSpuriousWake, PTL DEF FairSpec, Spec
<1> QED
  BY <1>5 DEF Delivered, Away

\* An event that is up delivers a command as soon as the emulator thread asks
\* for one, however long it stays away before, and while producers may push
\* and raise without end: the fairness used is that of popConsoleCmdWait alone.
\* (That its steps are possible where it is not asleep is the theorem's
\* hypothesis, for ENABLED has no rules here; it is what the guards of Wake and
\* PopOrWaitAgain say.)
THEOREM RaisedEventDelivers ==
    FairSpec /\ [](CanAnswer => ENABLED <<Answer>>_vars) => EventDelivers
<1>1. \A n \in 0 .. MaxAdds :
        FairSpec /\ [](CanAnswer => ENABLED <<Answer>>_vars)
          => ((m_bState /\ Len(got) = n) ~> (Len(got) > n \/ [](consumer = "elsewhere")))
  BY NextDelivered
<1> QED
  BY <1>1 DEF EventDelivers
=============================================================================
