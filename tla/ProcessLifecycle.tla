--------------------------- MODULE ProcessLifecycle ---------------------------
(***************************************************************************)
(* What the thread system promises, whatever the scheduling policy: the    *)
(* life of a thread (new, ready, running, waiting, terminated) on one CPU. *)
(* At most one thread runs; a thread leaves the CPU only when another one  *)
(* takes it or when no thread is ready; a terminated thread stays so.      *)
(* The states are those of enum ThreadStatus (threads/thread.h), with      *)
(* "terminated" for a thread that called Finish.                           *)
(***************************************************************************)
CONSTANTS Thread, Main

VARIABLE proc

State == {"new", "ready", "running", "waiting", "terminated"}

TypeOK == proc \in [Thread -> State]

Running == {t \in Thread : proc[t] = "running"}
Ready   == {t \in Thread : proc[t] = "ready"}

Init == proc = [t \in Thread |-> IF t = Main THEN "running" ELSE "new"]

-------------------------------------------------------------------------------
\* A running thread creates t.
Admit(t) ==
  /\ Running # {}
  /\ proc[t] = "new"
  /\ proc' = [proc EXCEPT ![t] = "ready"]

\* An interrupt handler or the running thread ends the wait of t.
Wakeup(t) ==
  /\ proc[t] = "waiting"
  /\ proc' = [proc EXCEPT ![t] = "ready"]

\* t leaves the CPU for state s and the ready thread n takes it.
Handover(t, n, s) ==
  /\ proc[t] = "running"
  /\ proc[n] = "ready"
  /\ proc' = [proc EXCEPT ![t] = s, ![n] = "running"]

\* t leaves the CPU and nobody is ready to take it.
Stall(t, s) ==
  /\ proc[t] = "running"
  /\ Ready = {}
  /\ proc' = [proc EXCEPT ![t] = s]

\* The idle CPU is given to a ready thread.
Dispatch(n) ==
  /\ Running = {}
  /\ proc[n] = "ready"
  /\ proc' = [proc EXCEPT ![n] = "running"]

Next ==
  \E t \in Thread :
    \/ Admit(t)
    \/ Wakeup(t)
    \/ \E n \in Thread, s \in {"ready", "waiting", "terminated"} : Handover(t, n, s)
    \/ \E s \in {"waiting", "terminated"} : Stall(t, s)
    \/ Dispatch(t)

Spec == Init /\ [][Next]_proc

-------------------------------------------------------------------------------
\* The CPU runs one thread at a time.
OneRunning == \A t, u \in Running : t = u
===============================================================================
