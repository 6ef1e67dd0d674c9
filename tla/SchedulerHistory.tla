--------------------------- MODULE SchedulerHistory ---------------------------
(***************************************************************************)
(* Scheduler with two history variables, to state what the scheduler's     *)
(* own variables cannot: how long a lower queue kept the CPU from a higher *)
(* one, and how long a thread really executed since it last slept.         *)
(***************************************************************************)
EXTENDS Scheduler

VARIABLES
  inverted,  \* ticks the running thread has kept a better queue waiting
  executed   \* ticks each thread executed since it last slept

historyVars == <<inverted, executed>>

\* Somebody waits in a better queue than the running thread's.
Inversion ==
  /\ phase \in {"run", "enable", "handlers"}
  /\ \E t \in Queued(ready) : Level(priority[t]) < Level(priority[current])

HInit ==
  /\ Init
  /\ inverted = 0
  /\ executed = [t \in Thread |-> 0]

\* The ticks a step takes while a thread is on the CPU.
Elapsed == IF phase' # "handlers" THEN 0
           ELSE IF phase = "run" THEN UserTick
           ELSE IF phase = "enable" THEN SystemTick ELSE 0

HNext ==
  /\ Next
  /\ inverted' = IF Inversion' THEN inverted + Elapsed ELSE 0
  /\ executed' = IF phase \in {"run", "again"} /\ phase' \in {"idle", "switch"}
                 THEN [executed EXCEPT ![current] = 0]
                 ELSE [executed EXCEPT ![current] = MinOf(BurstCap, @ + Elapsed)]

HSpec == HInit /\ [][HNext]_<<vars, historyVars>>

-------------------------------------------------------------------------------
(***************************************************************************)
(* Preemption: with fixed time slices a better queue waits for less than   *)
(* one slice, counting the tick that overshoots it.  A thread may enter    *)
(* the better queue at any point of the slice, by V or by ageing, and      *)
(* after the timer's handler decided that nobody had to yield.             *)
(***************************************************************************)
InversionBounded == inverted < TimerTicks + SystemTick

(***************************************************************************)
(* The burst accounting never misses a tick a thread executed: what        *)
(* totalBurst and the current slice add up to is at least the truth.  (It  *)
(* may exceed it: a thread that yields to itself keeps its startTick.)     *)
(***************************************************************************)
BurstNeverUndercounted ==
  /\ phase \in {"run", "enable", "handlers"} => executed[current] <= BurstNow
  /\ \A t \in Queued(ready) : executed[t] <= totalBurst[t]
===============================================================================
