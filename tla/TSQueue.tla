-------------------------------- MODULE TSQueue --------------------------------
(***************************************************************************)
(* The thread-safe queue of Pthread/NTHU-OS-Pthreads/ts_queue.hpp: a       *)
(* circular buffer under one mutex with two condition variables, one step  *)
(* per statement that another thread can see.  The mutex and condition     *)
(* variables are those of POSIX: wait releases the mutex and sleeps in one *)
(* step, signal wakes one sleeper of any choice, a sleeper may also wake   *)
(* spuriously, and a woken thread competes for the mutex with newcomers.   *)
(***************************************************************************)
EXTENDS Naturals, FiniteSets

CONSTANTS
  Enqueuer,  \* the threads that call enqueue
  Dequeuer,  \* the threads that call dequeue
  Item,      \* what they exchange (pointers, in the program)
  NoItem,    \* an unset item
  NoThread,  \* the owner of a free mutex
  Capacity   \* buffer_size

ASSUME CapacityAssumption == Capacity \in Nat \ {0}
ASSUME NamesAssumption ==
  /\ Enqueuer \cap Dequeuer = {} /\ IsFiniteSet(Enqueuer \cup Dequeuer)
  /\ NoThread \notin Enqueuer \cup Dequeuer
  /\ NoItem \notin Item

VARIABLES
  buffer,  \* the array, indexed from 0
  size,    \* number of items, read without the mutex by get_size
  head,    \* index of the first item
  tail,    \* index the next item goes to
  mutex,   \* the thread that holds the mutex
  pc,      \* the next statement of each thread
  item     \* the local or parameter item of each thread

shared == <<buffer, size, head, tail>>
vars   == <<shared, mutex, pc, item>>

Thread == Enqueuer \cup Dequeuer
PC == {"out",     \* not in a call
       "lock",    \* wants the mutex, at pthread_mutex_lock or back from a wait
       "test",    \* at the condition of the while loop
       "wait",    \* asleep in pthread_cond_wait
       "count",   \* item copied and index moved, size not yet updated
       "signal",  \* at pthread_cond_signal
       "unlock"}  \* at pthread_mutex_unlock

Init ==
  /\ buffer = [i \in 0 .. Capacity - 1 |-> NoItem]
  /\ size = 0
  /\ head = 0
  /\ tail = 0
  /\ mutex = NoThread
  /\ pc = [t \in Thread |-> "out"]
  /\ item = [t \in Thread |-> NoItem]

-------------------------------------------------------------------------------
\* The condition of the while loop: t has to wait.
MustWait(t) == IF t \in Enqueuer THEN size = Capacity ELSE size = 0

\* Those asleep on cond_enqueue, on cond_dequeue.
EnqueueWaiters == {t \in Enqueuer : pc[t] = "wait"}
DequeueWaiters == {t \in Dequeuer : pc[t] = "wait"}

\* Variants used as mutants of Signalled: the condition variables are swapped;
\* a signal is sent only when the queue ceases to be empty, or full.
SignalledSwapped(t) == IF t \in Enqueuer THEN EnqueueWaiters ELSE DequeueWaiters

SignalledOnEdge(t) ==
  IF t \in Enqueuer THEN IF size = 1 THEN DequeueWaiters ELSE {}
                    ELSE IF size = Capacity - 1 THEN EnqueueWaiters ELSE {}

\* The sleepers t's signal may wake.
Signalled(t) == IF t \in Enqueuer THEN DequeueWaiters ELSE EnqueueWaiters

Call(t) ==
  /\ pc[t] = "out"
  /\ \E i \in IF t \in Enqueuer THEN Item ELSE {NoItem} :
       item' = [item EXCEPT ![t] = i]
  /\ pc' = [pc EXCEPT ![t] = "lock"]
  /\ UNCHANGED <<shared, mutex>>

\* A variant used as a mutant of Lock: the mutex excludes nobody.
LockAnyway(t) ==
  /\ pc[t] = "lock"
  /\ mutex' = t
  /\ pc' = [pc EXCEPT ![t] = "test"]
  /\ UNCHANGED <<shared, item>>

Lock(t) ==
  /\ pc[t] = "lock"
  /\ mutex = NoThread
  /\ mutex' = t
  /\ pc' = [pc EXCEPT ![t] = "test"]
  /\ UNCHANGED <<shared, item>>

\* pthread_cond_wait releases the mutex and sleeps.
Wait(t) ==
  /\ pc[t] = "test"
  /\ MustWait(t)
  /\ mutex' = NoThread
  /\ pc' = [pc EXCEPT ![t] = "wait"]
  /\ UNCHANGED <<shared, item>>

SpuriousWakeup(t) ==
  /\ pc[t] = "wait"
  /\ pc' = [pc EXCEPT ![t] = "lock"]
  /\ UNCHANGED <<shared, mutex, item>>

\* buffer[tail] = item, tail = (tail+1)%buffer_size
Store(t) ==
  /\ t \in Enqueuer
  /\ pc[t] = "test"
  /\ ~MustWait(t)
  /\ buffer' = [buffer EXCEPT ![tail] = item[t]]
  /\ tail' = (tail + 1) % Capacity
  /\ pc' = [pc EXCEPT ![t] = "count"]
  /\ UNCHANGED <<size, head, mutex, item>>

\* item = buffer[head], head = (head+1)%buffer_size
Fetch(t) ==
  /\ t \in Dequeuer
  /\ pc[t] = "test"
  /\ ~MustWait(t)
  /\ item' = [item EXCEPT ![t] = buffer[head]]
  /\ head' = (head + 1) % Capacity
  /\ pc' = [pc EXCEPT ![t] = "count"]
  /\ UNCHANGED <<buffer, size, tail, mutex>>

\* size++, size--
Count(t) ==
  /\ pc[t] = "count"
  /\ size' = IF t \in Enqueuer THEN size + 1 ELSE size - 1
  /\ pc' = [pc EXCEPT ![t] = "signal"]
  /\ UNCHANGED <<buffer, head, tail, mutex, item>>

Signal(t) ==
  /\ pc[t] = "signal"
  /\ IF Signalled(t) = {}
     THEN pc' = [pc EXCEPT ![t] = "unlock"]
     ELSE \E u \in Signalled(t) : pc' = [pc EXCEPT ![t] = "unlock", ![u] = "lock"]
  /\ UNCHANGED <<shared, mutex, item>>

Unlock(t) ==
  /\ pc[t] = "unlock"
  /\ mutex' = NoThread
  /\ pc' = [pc EXCEPT ![t] = "out"]
  /\ item' = [item EXCEPT ![t] = NoItem]
  /\ UNCHANGED shared

\* What t does while it holds the mutex.
Step(t) ==
  Wait(t) \/ Store(t) \/ Fetch(t) \/ Count(t) \/ Signal(t) \/ Unlock(t)

Next == \E t \in Thread : Call(t) \/ Lock(t) \/ SpuriousWakeup(t) \/ Step(t)

Spec == Init /\ [][Next]_vars

(***************************************************************************)
(* The holder of the mutex, the only thread that can take a Step, executes;*)
(* a thread that finds the mutex free again and again gets it.  No thread  *)
(* has to call, or to wake spuriously.                                     *)
(***************************************************************************)
FairSpec ==
  /\ Spec
  /\ WF_vars(\E t \in Thread : Step(t))
  /\ \A t \in Thread : SF_vars(Lock(t))

-------------------------------------------------------------------------------
TypeOK ==
  /\ buffer \in [0 .. Capacity - 1 -> Item \cup {NoItem}]
  /\ size \in 0 .. Capacity
  /\ head \in 0 .. Capacity - 1
  /\ tail \in 0 .. Capacity - 1
  /\ mutex \in Thread \cup {NoThread}
  /\ pc \in [Thread -> PC]
  /\ item \in [Thread -> Item \cup {NoItem}]

(***************************************************************************)
(* The items in the buffer, size counting what a thread in "count" did to  *)
(* the indices but not yet to size.                                        *)
(***************************************************************************)
Filled ==
  LET counting(S) == \E t \in S : pc[t] = "count"
  IN  IF counting(Enqueuer) THEN size + 1
      ELSE IF counting(Dequeuer) THEN size - 1 ELSE size

Contents == [i \in 1 .. Filled |-> buffer[(head + i - 1) % Capacity]]

(***************************************************************************)
(* Only the holder of the mutex is between lock and unlock, and head, tail *)
(* and the number of items agree, the ambiguous head = tail included.      *)
(***************************************************************************)
IndicesAgree ==
  /\ \A t \in Thread :
       pc[t] \in {"test", "count", "signal", "unlock"} <=> mutex = t
  /\ tail = (head + Filled) % Capacity
  /\ \A i \in DOMAIN Contents : Contents[i] # NoItem

(***************************************************************************)
(* No wakeup is lost: while some dequeue call sleeps, every item in the    *)
(* queue has a dequeue call of its own that is awake to take it, and the   *)
(* same for free places and enqueue calls.  One signal per operation, sent *)
(* to one sleeper of the other kind only, is thus enough, whatever wakes   *)
(* spuriously and whoever overtakes the thread that was signalled.         *)
(***************************************************************************)
Awake(S) == Cardinality({t \in S : pc[t] \in {"lock", "test"}})

NoLostWakeup ==
  mutex = NoThread =>
    /\ DequeueWaiters # {} => size <= Awake(Dequeuer)
    /\ EnqueueWaiters # {} => Capacity - size <= Awake(Enqueuer)

-------------------------------------------------------------------------------
\* The call each thread is in, as BoundedQueue sees it: it takes effect when
\* the item enters or leaves the buffer.
callOf ==
  [t \in Thread |->
    [state |-> CASE pc[t] = "out" -> "idle"
                 [] pc[t] \in {"lock", "test", "wait"} -> "pending"
                 [] OTHER -> "done",
     item  |-> item[t]]]

Abstract == INSTANCE BoundedQueue WITH queue <- Contents, call <- callOf

\* The queue is a bounded FIFO queue: no item is lost, duplicated or overtaken,
\* and calls do not sleep while they could proceed.
ImplementsBoundedQueue == Abstract!FairSpec
===============================================================================
