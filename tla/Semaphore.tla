------------------------------- MODULE Semaphore -------------------------------
(***************************************************************************)
(* Semaphores and locks of NachOS, threads/synch.cc, as operators on their *)
(* state.  P and V run with interrupts disabled, so each is a step, except *)
(* that a P that finds value 0 sleeps: the caller stays where it is, and,  *)
(* once it is not Asleep any more, goes through the loop of P again.       *)
(***************************************************************************)
EXTENDS Naturals, Sequences

CONSTANT Nobody  \* the lockHolder of a free lock

NewSemaphore(v) == [value |-> v, queue |-> <<>>]

Asleep(s, t) == \E i \in DOMAIN s.queue : s.queue[i] = t

\* The caller of P goes on.
Passes(s) == s.value # 0

\* A variant used as a mutant of P: the value is not consumed.
PKeepsValue(s, t) ==
  IF Passes(s) THEN s ELSE [s EXCEPT !.queue = Append(@, t)]

P(s, t) ==
  IF Passes(s) THEN [s EXCEPT !.value = @ - 1] ELSE [s EXCEPT !.queue = Append(@, t)]

\* The waiter at the front is made ready.
FrontWoken(s) == IF s.queue = <<>> THEN s ELSE [s EXCEPT !.queue = Tail(@)]

\* Variants used as mutants of V: the waiter is woken and the value not
\* incremented, as if it were handed over; nobody is woken.
VHandsOver(s) ==
  IF s.queue = <<>> THEN [s EXCEPT !.value = @ + 1] ELSE FrontWoken(s)

VWakesNobody(s) == [s EXCEPT !.value = @ + 1]

V(s) == [FrontWoken(s) EXCEPT !.value = @ + 1]

-------------------------------------------------------------------------------
\* A lock is a semaphore of value 1 and its lockHolder.
NewLock == [value |-> 1, queue |-> <<>>, holder |-> Nobody]

\* Acquire is P, and then this, with interrupts enabled again.
HeldBy(l, t) == [l EXCEPT !.holder = t]

Release(l) == V(HeldBy(l, Nobody))
===============================================================================
