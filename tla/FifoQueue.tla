------------------------------ MODULE FifoQueue ------------------------------
(***************************************************************************)
(* What ThreadSafeQueue<T> promises the threads that share it: a first-in  *)
(* first-out queue whose operations take effect at one point each.  Mutex, *)
(* condition variable, time-outs and wake-ups are the business of the      *)
(* module ThreadSafeQueue, which implements this one.                      *)
(***************************************************************************)
EXTENDS Sequences

CONSTANTS Items,      \* what can be queued
          Readers,    \* the threads that pop
          Nothing     \* no item: what a pop of an empty queue returns

VARIABLES items,      \* the queued items, oldest first
          closed,     \* stop() was called and reset() was not called since
          got         \* got[r]: what the last pop of reader r returned

fifoVars == <<items, closed, got>>

FifoInit == /\ items = <<>>
            /\ closed = FALSE
            /\ got = [r \in Readers |-> Nothing]

Put(i) == /\ items' = Append(items, i)
          /\ UNCHANGED <<closed, got>>

\* The oldest item leaves the queue and goes to exactly one reader.
Take(r) == /\ items # <<>>
           /\ items' = Tail(items)
           /\ got' = [got EXCEPT ![r] = Head(items)]
           /\ UNCHANGED closed

\* A pop comes back empty-handed only from an empty queue, closed or not.
TakeNothing(r) == /\ items = <<>>
                  /\ got' = [got EXCEPT ![r] = Nothing]
                  /\ UNCHANGED <<items, closed>>

\* Closing keeps what is queued; reopening drops it.
Close == closed' = TRUE /\ UNCHANGED <<items, got>>

Reopen == items' = <<>> /\ closed' = FALSE /\ UNCHANGED got

FifoNext == \/ \E i \in Items : Put(i)
            \/ \E r \in Readers : Take(r) \/ TakeNothing(r)
            \/ Close
            \/ Reopen

FifoSpec == FifoInit /\ [][FifoNext]_fifoVars
=============================================================================
