--------------------------- MODULE ThreadSafeQueue ---------------------------
(***************************************************************************)
(* The queue between Godot's main thread and the worker thread             *)
(* (threading/thread_safe_queue.h), at the granularity of its critical     *)
(* sections.  Every access to `queue' and `stopped' holds the mutex, so one*)
(* critical section is one action; a notification is sent after the mutex  *)
(* is released and is an action of its own.  A thread inside wait_pop has  *)
(* given the mutex up and sleeps on the condition variable, or has been    *)
(* woken and has not got the mutex back yet.                               *)
(***************************************************************************)
EXTENDS Naturals, Sequences, FiniteSets

CONSTANTS Items,      \* what can be queued
          Pushers,    \* threads that call push
          Waiters,    \* threads that call wait_pop
          Timed,      \* the waiters whose wait_pop has a time-out
          Pollers,    \* threads that call try_pop
          Owner,      \* the thread that calls stop and reset
          Nothing,    \* std::nullopt
          MaxLen      \* bound of the model: pushes stop at this length

Readers == Waiters \cup Pollers
Threads == Pushers \cup Readers \cup {Owner}

ASSUME QueueAssumption ==
    /\ Nothing \notin Items
    /\ IsFiniteSet(Pushers) /\ IsFiniteSet(Waiters)
    /\ Timed \subseteq Waiters
    /\ Pushers \cap Readers = {} /\ Waiters \cap Pollers = {}
    /\ Owner \notin Pushers \cup Readers
    /\ MaxLen \in Nat

VARIABLES queue,      \* std::queue<T>
          stopped,    \* the flag wait_pop's predicate looks at
          pc,         \* where each thread is in the operation it executes
          got         \* got[r]: what the last pop of reader r returned

vars == <<queue, stopped, pc, got>>

Init == /\ queue = <<>>
        /\ stopped = FALSE
        /\ pc = [t \in Threads |-> "idle"]
        /\ got = [r \in Readers |-> Nothing]

Asleep == {t \in Threads : pc[t] = "asleep"}

\* The threads that are about to do something for a queued item: pushed and about
\* to call notify_one, woken (by it or spuriously) or timed out, not running yet.
Attending == {t \in Threads : pc[t] \in {"notify_one", "woken", "timed_out"}}

Goto(t, place) == pc' = [pc EXCEPT ![t] = place]

\* Mutant: front() of an empty std::queue, which is no item at all.
PopUnchecked(r) ==
    /\ got' = [got EXCEPT ![r] = IF queue = <<>> THEN "indeterminate" ELSE Head(queue)]
    /\ queue' = IF queue = <<>> THEN queue ELSE Tail(queue)

\* The tail of both pops: std::nullopt from an empty queue, or its front.
PopFront(r) ==
    \/ /\ queue = <<>>
       /\ got' = [got EXCEPT ![r] = Nothing]
       /\ UNCHANGED queue
    \/ /\ queue # <<>>
       /\ got' = [got EXCEPT ![r] = Head(queue)]
       /\ queue' = Tail(queue)

-----------------------------------------------------------------------------
(* push: append under the mutex, then notify one sleeper outside it.       *)

\* Mutant: notify only when the queue was empty, a usual "optimisation".
PushNotifyFirst(t, i) ==
    /\ pc[t] = "idle" /\ Len(queue) < MaxLen
    /\ queue' = Append(queue, i)
    /\ Goto(t, IF queue = <<>> THEN "notify_one" ELSE "idle")
    /\ UNCHANGED <<stopped, got>>

Push(t, i) == /\ pc[t] = "idle"
              /\ Len(queue) < MaxLen
              /\ queue' = Append(queue, i)
              /\ Goto(t, "notify_one")
              /\ UNCHANGED <<stopped, got>>

NotifyOne(t) == /\ pc[t] = "notify_one"
                /\ \/ /\ Asleep = {}
                      /\ Goto(t, "idle")
                   \/ \E w \in Asleep :
                        pc' = [pc EXCEPT ![t] = "idle", ![w] = "woken"]
                /\ UNCHANGED <<queue, stopped, got>>

TryPop(t) == /\ pc[t] = "idle"
             /\ PopFront(t)
             /\ UNCHANGED <<stopped, pc>>

-----------------------------------------------------------------------------
(* wait_pop: the predicate is evaluated on entry and after every wake-up.  *)

MayReturn == queue # <<>> \/ stopped

Sleep(w) == /\ pc[w] \in {"idle", "woken"}
            /\ ~MayReturn
            /\ Goto(w, "asleep")
            /\ UNCHANGED <<queue, stopped, got>>

\* The condition variable may wake its sleeper for no reason at all.
SpuriousWakeup(w) == /\ pc[w] = "asleep"
                     /\ Goto(w, "woken")
                     /\ UNCHANGED <<queue, stopped, got>>

TimeOut(w) == /\ w \in Timed
              /\ pc[w] = "asleep"
              /\ Goto(w, "timed_out")
              /\ UNCHANGED <<queue, stopped, got>>

\* Mutant: a time-out returns std::nullopt without looking at the queue.
WaitPopTimeOutIsEmpty(w) ==
    /\ \/ pc[w] \in {"idle", "woken"} /\ MayReturn /\ PopFront(w)
       \/ pc[w] = "timed_out" /\ got' = [got EXCEPT ![w] = Nothing] /\ UNCHANGED queue
    /\ Goto(w, "idle")
    /\ UNCHANGED stopped

\* After the time-out the queue is looked at once more, whatever the predicate.
WaitPop(w) == /\ \/ pc[w] \in {"idle", "woken"} /\ MayReturn
                 \/ pc[w] = "timed_out"
              /\ PopFront(w)
              /\ Goto(w, "idle")
              /\ UNCHANGED stopped

-----------------------------------------------------------------------------
(* stop and reset, called by the thread that owns the worker.              *)

\* Mutant: the flag is set and nobody is notified.
StopSilently == /\ pc[Owner] = "idle"
                /\ stopped' = TRUE
                /\ UNCHANGED <<queue, pc, got>>

Stop == /\ pc[Owner] = "idle"
        /\ stopped' = TRUE
        /\ Goto(Owner, "notify_all")
        /\ UNCHANGED <<queue, got>>

NotifyAll == /\ pc[Owner] = "notify_all"
             /\ pc' = [t \in Threads |-> IF t = Owner THEN "idle"
                                         ELSE IF pc[t] = "asleep" THEN "woken"
                                         ELSE pc[t]]
             /\ UNCHANGED <<queue, stopped, got>>

\* WorkerThread::start resets the queues only when no worker thread exists,
\* that is with nobody inside wait_pop.
Reset == /\ pc[Owner] = "idle"
         /\ \A w \in Waiters : pc[w] = "idle"
         /\ stopped' = FALSE
         /\ queue' = <<>>
         /\ UNCHANGED <<pc, got>>

-----------------------------------------------------------------------------
Wait(w) == Sleep(w) \/ SpuriousWakeup(w) \/ TimeOut(w) \/ WaitPop(w)

Next == \/ \E t \in Pushers : NotifyOne(t) \/ \E i \in Items : Push(t, i)
        \/ \E t \in Pollers : TryPop(t)
        \/ \E w \in Waiters : Wait(w)
        \/ Stop
        \/ NotifyAll
        \/ Reset

\* A thread that is running keeps running; nobody has to call an operation,
\* no time-out has to strike and no spurious wake-up has to happen.
Fairness == /\ \A t \in Pushers : WF_vars(NotifyOne(t))
            /\ \A w \in Waiters : WF_vars(pc[w] # "idle" /\ (Sleep(w) \/ WaitPop(w)))
            /\ WF_vars(NotifyAll)

Spec == Init /\ [][Next]_vars

FairSpec == Spec /\ Fairness

-----------------------------------------------------------------------------
Places == {"idle", "notify_one", "asleep", "woken", "timed_out", "notify_all"}

\* The queue holds items, a pop returns an item or std::nullopt (never what
\* front() of an empty std::queue would give), every thread is somewhere in its
\* own operations.
TypeOK == /\ queue \in Seq(Items)
          /\ stopped \in BOOLEAN
          /\ pc \in [Threads -> Places]
          /\ \A t \in Pushers : pc[t] \in {"idle", "notify_one"}
          /\ \A w \in Waiters : pc[w] \in {"idle", "asleep", "woken", "timed_out"}
          /\ \A p \in Pollers : pc[p] = "idle"
          /\ pc[Owner] \in {"idle", "notify_all"}
          /\ got \in [Readers -> Items \cup {Nothing}]

\* No wake-up is lost: as long as a thread sleeps in wait_pop, every queued item
\* has a notification still to be sent or a thread already awake to fetch it, and
\* a stop that could release the sleeper is about to notify.  This is what lets
\* push and stop notify after they have released the mutex, and what try_pop, a
\* second waiter or a time-out taking the item first must not upset.
NoLostWakeup ==
    Asleep # {} =>
      /\ Len(queue) <= Cardinality(Attending)
      /\ stopped => pc[Owner] = "notify_all"

\* stop() releases every thread that sleeps in wait_pop, without the help of a
\* time-out: WorkerThread::stop joins the worker right after it.
StopReleases == \A w \in Waiters : (stopped /\ pc[w] = "asleep") ~> pc[w] # "asleep"

\* The queue implements FifoQueue: items come out in the order they went in, each
\* to one reader, and a pop returns nothing only if the queue is empty then.
Fifo == INSTANCE FifoQueue WITH items <- queue, closed <- stopped

ImplementsFifo == Fifo!FifoSpec
=============================================================================
