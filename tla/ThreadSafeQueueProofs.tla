------------------------- MODULE ThreadSafeQueueProofs -------------------------
(***************************************************************************)
(* For any sets of items and threads: the queue is type correct, loses no  *)
(* wake-up, and implements the FIFO queue.                                 *)
(***************************************************************************)
EXTENDS ThreadSafeQueue, FiniteSetTheorems, SequenceTheorems, TLAPS

\* The part of the assumptions that tells the threads apart.
LEMMA ThreadsApart ==
    /\ Nothing \notin Items
    /\ Pushers \subseteq Threads /\ Waiters \subseteq Threads /\ Pollers \subseteq Threads
    /\ Owner \in Threads
    /\ Readers \subseteq Threads
    /\ \A t \in Pushers : t \notin Waiters /\ t \notin Pollers /\ t # Owner
    /\ \A t \in Waiters : t \notin Pollers /\ t # Owner
    /\ \A t \in Pollers : t # Owner
    /\ \A t \in Threads : t \in Pushers \/ t \in Waiters \/ t \in Pollers \/ t = Owner
  BY QueueAssumption DEF QueueAssumption, Threads, Readers

\* A pop leaves a queue of items behind and gives the reader an item or nothing.
LEMMA PopFrontType ==
  ASSUME TypeOK, NEW r \in Readers, PopFront(r)
  PROVE  /\ queue' \in Seq(Items)
         /\ got' \in [Readers -> Items \cup {Nothing}]
<1>1. CASE queue = <<>>
  BY <1>1 DEF PopFront, TypeOK
<1>2. CASE queue # <<>>
  <2>1. Head(queue) \in Items /\ Tail(queue) \in Seq(Items)
    BY <1>2 DEF TypeOK
  <2>. QED BY <1>2, <2>1 DEF PopFront, TypeOK
<1>. QED BY <1>1, <1>2

\* The queue is well typed in every reachable state of any instance.
THEOREM TypeCorrect == Spec => []TypeOK
<1>1. Init => TypeOK
  <2> SUFFICES ASSUME Init PROVE TypeOK
    OBVIOUS
  <2>1. pc \in [Threads -> Places]
    BY DEF Init, Places
  <2>2. \A t \in Threads : pc[t] = "idle"
    BY DEF Init
  <2>3. queue \in Seq(Items)
    BY DEF Init
  <2>4. stopped \in BOOLEAN
    BY DEF Init
  <2>5. got \in [Readers -> Items \cup {Nothing}]
    BY DEF Init
  <2>. QED BY <2>1, <2>2, <2>3, <2>4, <2>5, ThreadsApart DEF TypeOK
<1>2. TypeOK /\ [Next]_vars => TypeOK'
  <2> SUFFICES ASSUME TypeOK, [Next]_vars PROVE TypeOK'
    OBVIOUS
  <2> USE ThreadsApart DEF TypeOK, Places
  <2>1. ASSUME NEW t \in Pushers, NEW i \in Items, Push(t, i) PROVE TypeOK'
    BY <2>1 DEF Push, Goto
  <2>2. ASSUME NEW t \in Pushers, NotifyOne(t) PROVE TypeOK'
    <3>1. CASE Goto(t, "idle")
      BY <2>2, <3>1 DEF NotifyOne, Goto
    <3>2. ASSUME NEW w \in Asleep, pc' = [pc EXCEPT ![t] = "idle", ![w] = "woken"]
          PROVE  TypeOK'
      <4>1. w \in Waiters /\ w \in Threads
        BY DEF Asleep
      <4>. QED BY <2>2, <3>2, <4>1 DEF NotifyOne
    <3>. QED BY <2>2, <3>1, <3>2 DEF NotifyOne
  <2>3. ASSUME NEW t \in Pollers, TryPop(t) PROVE TypeOK'
    BY <2>3, PopFrontType DEF TryPop, Readers
  <2>4. ASSUME NEW w \in Waiters, Wait(w) PROVE TypeOK'
    <3>1. CASE Sleep(w) \/ SpuriousWakeup(w) \/ TimeOut(w)
      BY <3>1 DEF Sleep, SpuriousWakeup, TimeOut, Goto
    <3>2. CASE WaitPop(w)
      BY <3>2, PopFrontType DEF WaitPop, Goto, Readers
    <3>. QED BY <2>4, <3>1, <3>2 DEF Wait
  <2>5. CASE Stop
    BY <2>5 DEF Stop, Goto
  <2>6. CASE NotifyAll
    BY <2>6 DEF NotifyAll
  <2>7. CASE Reset
    <3>1. queue' \in Seq(Items)
      BY <2>7 DEF Reset
    <3>2. stopped' \in BOOLEAN
      BY <2>7 DEF Reset
    <3>. QED BY <2>7, <3>1, <3>2 DEF Reset
  <2>8. CASE UNCHANGED vars
    BY <2>8 DEF vars
  <2>. QED BY <2>1, <2>2, <2>3, <2>4, <2>5, <2>6, <2>7, <2>8 DEF Next
<1>. QED BY <1>1, <1>2, PTL DEF Spec

-----------------------------------------------------------------------------
(* No lost wake-up                                                         *)

\* The threads the invariant counts are finitely many.
LEMMA FiniteCrowd ==
  ASSUME NEW S \in SUBSET (Pushers \cup Waiters)
  PROVE  IsFiniteSet(S) /\ Cardinality(S) \in Nat
<1>1. IsFiniteSet(Pushers \cup Waiters)
  BY QueueAssumption, FS_Union DEF QueueAssumption
<1>2. IsFiniteSet(S)
  BY <1>1, FS_Subset
<1>. QED BY <1>2, FS_CardinalityType

\* A pop shortens the queue by one item unless the queue is empty.
LEMMA PopFrontLength ==
  ASSUME TypeOK, NEW r \in Readers, PopFront(r)
  PROVE  \/ Len(queue) = 0 /\ Len(queue') = 0
         \/ Len(queue) \in Nat /\ Len(queue) > 0 /\ Len(queue') = Len(queue) - 1
<1>1. CASE queue = <<>>
  BY <1>1 DEF PopFront
<1>2. CASE queue # <<>>
  BY <1>2 DEF PopFront, TypeOK
<1>. QED BY <1>1, <1>2

\* As long as somebody sleeps, every queued item has a thread that attends to it.
THEOREM NoWakeupLost == Spec => []NoLostWakeup
<1>1. Init => NoLostWakeup
  <2> SUFFICES ASSUME Init PROVE Asleep = {}
    BY DEF NoLostWakeup
  <2>. QED BY DEF Init, Asleep
<1>2. TypeOK /\ TypeOK' /\ NoLostWakeup /\ [Next]_vars => NoLostWakeup'
  <2> SUFFICES ASSUME TypeOK, TypeOK', NoLostWakeup, [Next]_vars, Asleep' # {}
               PROVE  /\ Len(queue') <= Cardinality(Attending')
                      /\ stopped' => pc'[Owner] = "notify_all"
    BY DEF NoLostWakeup
  <2>0. /\ IsFiniteSet(Attending) /\ Cardinality(Attending) \in Nat
        /\ Len(queue) \in Nat
        /\ Asleep # {} => /\ Len(queue) <= Cardinality(Attending)
                          /\ stopped => pc[Owner] = "notify_all"
    <3>1. Attending \in SUBSET (Pushers \cup Waiters)
      BY ThreadsApart DEF TypeOK, Attending
    <3>. QED BY <3>1, FiniteCrowd DEF NoLostWakeup, TypeOK
  <2>a. Cardinality(Attending') \in Nat
    <3>1. Attending' \in SUBSET (Pushers \cup Waiters)
      BY ThreadsApart DEF TypeOK, Attending
    <3>. QED BY <3>1, FiniteCrowd
  <2>1. ASSUME NEW t \in Pushers, NEW i \in Items, Push(t, i)
        PROVE  /\ Len(queue') <= Cardinality(Attending')
               /\ stopped' => pc'[Owner] = "notify_all"
    <3>1. Asleep # {} /\ pc'[Owner] = pc[Owner] /\ stopped' = stopped
      BY <2>1, ThreadsApart DEF Push, Goto, Asleep, TypeOK
    <3>2. Attending' = Attending \cup {t} /\ t \notin Attending
      BY <2>1, ThreadsApart DEF Push, Goto, Attending, TypeOK
    <3>3. Cardinality(Attending') = Cardinality(Attending) + 1
      BY <2>0, <3>2, FS_AddElement
    <3>4. Len(queue') = Len(queue) + 1
      BY <2>1 DEF Push, TypeOK
    <3>. QED BY <2>0, <3>1, <3>3, <3>4
  <2>2. ASSUME NEW t \in Pushers, NotifyOne(t)
        PROVE  /\ Len(queue') <= Cardinality(Attending')
               /\ stopped' => pc'[Owner] = "notify_all"
    <3>1. Asleep # {}
      BY <2>2, ThreadsApart DEF NotifyOne, Goto, Asleep, TypeOK
    <3>2. PICK w \in Asleep : pc' = [pc EXCEPT ![t] = "idle", ![w] = "woken"]
      BY <2>2, <3>1 DEF NotifyOne
    <3>3. w \in Waiters /\ w # t /\ w # Owner /\ w \in Threads
      BY ThreadsApart DEF Asleep, TypeOK
    <3>4. Attending' = (Attending \ {t}) \cup {w} /\ t \in Attending /\ w \notin Attending
      BY <2>2, <3>2, <3>3, ThreadsApart DEF NotifyOne, Attending, Asleep, TypeOK
    <3>5. /\ IsFiniteSet(Attending \ {t})
          /\ Cardinality(Attending \ {t}) = Cardinality(Attending) - 1
      BY <2>0, <3>4, FS_RemoveElement
    <3>6. Cardinality(Attending') = Cardinality(Attending)
      <4>1. w \notin Attending \ {t}
        BY <3>4
      <4>2. Cardinality((Attending \ {t}) \cup {w}) = Cardinality(Attending \ {t}) + 1
        BY <3>5, <4>1, FS_AddElement, Zenon
      <4>. QED BY <2>0, <3>4, <3>5, <4>2
    <3>7. pc'[Owner] = pc[Owner] /\ queue' = queue /\ stopped' = stopped
      BY <2>2, <3>2, <3>3, ThreadsApart DEF NotifyOne, TypeOK
    <3>. QED BY <2>0, <3>1, <3>6, <3>7
  <2>3. ASSUME NEW t \in Pollers, TryPop(t)
        PROVE  /\ Len(queue') <= Cardinality(Attending')
               /\ stopped' => pc'[Owner] = "notify_all"
    <3>1. Asleep' = Asleep /\ Attending' = Attending /\ stopped' = stopped /\ pc' = pc
      BY <2>3 DEF TryPop, Asleep, Attending
    <3>2. Len(queue') <= Len(queue)
      BY <2>0, <2>3, PopFrontLength DEF TryPop, Readers
    <3>. QED BY <2>0, <3>1, <3>2 DEF TypeOK
  <2>4. ASSUME NEW w \in Waiters, Wait(w)
        PROVE  /\ Len(queue') <= Cardinality(Attending')
               /\ stopped' => pc'[Owner] = "notify_all"
    <3>0. w \in Threads /\ w # Owner /\ w \in Readers
      BY ThreadsApart DEF Readers
    <3>1. CASE Sleep(w)
      <4>1. Len(queue') = 0 /\ ~stopped'
        BY <3>1 DEF Sleep, MayReturn
      <4>. QED BY <2>a, <4>1
    <3>2. CASE SpuriousWakeup(w) \/ TimeOut(w)
      <4>1. /\ Asleep # {} /\ queue' = queue /\ stopped' = stopped
            /\ pc'[Owner] = pc[Owner]
        BY <3>0, <3>2, ThreadsApart DEF SpuriousWakeup, TimeOut, Goto, Asleep, TypeOK
      <4>2. Attending' = Attending \cup {w}
        BY <3>0, <3>2 DEF SpuriousWakeup, TimeOut, Goto, Attending, TypeOK
      <4>3. Cardinality(Attending \cup {w}) = IF w \in Attending
                                              THEN Cardinality(Attending)
                                              ELSE Cardinality(Attending) + 1
        BY <2>0, FS_AddElement, Zenon
      <4>. QED BY <2>0, <2>a, <4>1, <4>2, <4>3
    <3>3. CASE WaitPop(w)
      <4>1. PopFront(w) /\ Goto(w, "idle") /\ stopped' = stopped
        BY <3>3 DEF WaitPop
      <4>2. Asleep # {} /\ pc'[Owner] = pc[Owner]
        BY <3>0, <4>1, ThreadsApart DEF Goto, Asleep, TypeOK
      <4>3. Attending' = Attending \ {w}
        BY <3>0, <4>1 DEF Goto, Attending, TypeOK
      <4>4. Cardinality(Attending') >= Cardinality(Attending) - 1
        <5>1. Cardinality(Attending \ {w}) = IF w \in Attending
                                             THEN Cardinality(Attending) - 1
                                             ELSE Cardinality(Attending)
          BY <2>0, FS_RemoveElement, Zenon
        <5>. QED BY <2>0, <4>3, <5>1
      <4>5. \/ Len(queue') = 0
            \/ Len(queue') = Len(queue) - 1
        BY <3>0, <4>1, PopFrontLength
      <4>. QED BY <2>0, <2>a, <4>1, <4>2, <4>4, <4>5
    <3>. QED BY <2>4, <3>1, <3>2, <3>3 DEF Wait
  <2>5. CASE Stop
    <3>1. Asleep # {} /\ queue' = queue /\ pc'[Owner] = "notify_all"
      BY <2>5, ThreadsApart DEF Stop, Goto, Asleep, TypeOK
    <3>2. Attending' = Attending
      BY <2>5, ThreadsApart DEF Stop, Goto, Attending, TypeOK
    <3>. QED BY <2>0, <3>1, <3>2
  <2>6. CASE NotifyAll
    BY <2>6, ThreadsApart DEF NotifyAll, Asleep, TypeOK
  <2>7. CASE Reset
    BY <2>7, ThreadsApart DEF Reset, Asleep, TypeOK
  <2>8. CASE UNCHANGED vars
    BY <2>0, <2>8 DEF vars, Asleep, Attending
  <2>. QED BY <2>1, <2>2, <2>3, <2>4, <2>5, <2>6, <2>7, <2>8 DEF Next
<1>. QED BY <1>1, <1>2, TypeCorrect, PTL DEF Spec

-----------------------------------------------------------------------------
(* Refinement                                                              *)

\* The tail of a pop is a Take or a TakeNothing of the FIFO queue.
LEMMA PopFrontImplements ==
  ASSUME NEW r \in Readers, PopFront(r), stopped' = stopped
  PROVE  Fifo!FifoNext
<1>1. CASE queue = <<>>
  <2>1. Fifo!TakeNothing(r)
    BY <1>1 DEF PopFront, Fifo!TakeNothing
  <2>. QED BY <2>1 DEF Fifo!FifoNext
<1>2. CASE queue # <<>>
  <2>1. Fifo!Take(r)
    BY <1>2 DEF PopFront, Fifo!Take
  <2>. QED BY <2>1 DEF Fifo!FifoNext
<1>. QED BY <1>1, <1>2

\* Every step of the queue is a step of the FIFO queue or leaves it unchanged.
THEOREM FifoRefinement == Spec => ImplementsFifo
<1>1. Init => Fifo!FifoInit
  BY DEF Init, Fifo!FifoInit
<1>2. [Next]_vars => [Fifo!FifoNext]_Fifo!fifoVars
  <2> SUFFICES ASSUME [Next]_vars PROVE [Fifo!FifoNext]_Fifo!fifoVars
    OBVIOUS
  <2> USE DEF Fifo!fifoVars
  <2>1. ASSUME NEW t \in Pushers, NEW i \in Items, Push(t, i) PROVE Fifo!FifoNext
    BY <2>1 DEF Push, Fifo!Put, Fifo!FifoNext
  <2>2. ASSUME NEW t \in Pushers, NotifyOne(t) PROVE UNCHANGED Fifo!fifoVars
    BY <2>2 DEF NotifyOne
  <2>3. ASSUME NEW t \in Pollers, TryPop(t) PROVE Fifo!FifoNext
    BY <2>3, PopFrontImplements DEF TryPop, Readers
  <2>4. ASSUME NEW w \in Waiters, Wait(w) PROVE [Fifo!FifoNext]_Fifo!fifoVars
    <3>1. CASE Sleep(w) \/ SpuriousWakeup(w) \/ TimeOut(w)
      BY <3>1 DEF Sleep, SpuriousWakeup, TimeOut
    <3>2. CASE WaitPop(w)
      BY <3>2, PopFrontImplements DEF WaitPop, Readers
    <3>. QED BY <2>4, <3>1, <3>2 DEF Wait
  <2>5. CASE Stop
    BY <2>5 DEF Stop, Fifo!Close, Fifo!FifoNext
  <2>6. CASE NotifyAll
    BY <2>6 DEF NotifyAll
  <2>7. CASE Reset
    BY <2>7 DEF Reset, Fifo!Reopen, Fifo!FifoNext
  <2>8. CASE UNCHANGED vars
    BY <2>8 DEF vars
  <2>. QED BY <2>1, <2>2, <2>3, <2>4, <2>5, <2>6, <2>7, <2>8 DEF Next
<1>. QED BY <1>1, <1>2, PTL DEF Spec, ImplementsFifo, Fifo!FifoSpec
=============================================================================
