----------------------------- MODULE BoundedQueue -----------------------------
(***************************************************************************)
(* What TSQueue promises its callers (Pthread/NTHU-OS-Pthreads/ts_queue.hpp,*)
(* the comments of the class): enqueue adds an item to the end of a queue  *)
(* of bounded capacity, dequeue removes and returns the first one, each    *)
(* call takes effect at one instant between its call and its return, and a *)
(* call waits only while the queue is full, or empty.                      *)
(***************************************************************************)
EXTENDS Naturals, Sequences

CONSTANTS
  Enqueuer,  \* the threads that call enqueue
  Dequeuer,  \* the threads that call dequeue
  Item,      \* what they exchange
  NoItem,    \* no item: a call not made, or not answered
  Capacity   \* buffer_size

VARIABLES
  queue,  \* the items in the queue, first one first
  call    \* the call each thread is in: its argument or result, its effect

Thread == Enqueuer \cup Dequeuer
vars   == <<queue, call>>

Idle == [state |-> "idle", item |-> NoItem]

Init ==
  /\ queue = <<>>
  /\ call = [t \in Thread |-> Idle]

\* t calls enqueue(i), or dequeue().
Call(t) ==
  /\ call[t] = Idle
  /\ \E i \in IF t \in Enqueuer THEN Item ELSE {NoItem} :
       call' = [call EXCEPT ![t] = [state |-> "pending", item |-> i]]
  /\ UNCHANGED queue

Put(t) ==
  /\ t \in Enqueuer
  /\ call[t].state = "pending"
  /\ Len(queue) < Capacity
  /\ queue' = Append(queue, call[t].item)
  /\ call' = [call EXCEPT ![t].state = "done"]

Take(t) ==
  /\ t \in Dequeuer
  /\ call[t].state = "pending"
  /\ queue # <<>>
  /\ queue' = Tail(queue)
  /\ call' = [call EXCEPT ![t] = [state |-> "done", item |-> Head(queue)]]

\* The call returns: the value is the caller's.
Return(t) ==
  /\ call[t].state = "done"
  /\ call' = [call EXCEPT ![t] = Idle]
  /\ UNCHANGED queue

Next == \E t \in Thread : Call(t) \/ Put(t) \/ Take(t) \/ Return(t)

Spec == Init /\ [][Next]_vars

(***************************************************************************)
(* While there is room, some pending enqueue takes effect; while there is  *)
(* an item, some pending dequeue does.  Nothing is promised to one caller  *)
(* among others: the mutex and pthread_cond_signal choose freely.          *)
(***************************************************************************)
FairSpec ==
  /\ Spec
  /\ WF_vars(\E t \in Thread : Put(t))
  /\ WF_vars(\E t \in Thread : Take(t))
  /\ \A t \in Thread : WF_vars(Return(t))
===============================================================================
