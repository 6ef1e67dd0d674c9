------------------------------- MODULE Scheduler -------------------------------
(***************************************************************************)
(* The MP3 multilevel feedback queue of NachOS: threads/scheduler.cc,      *)
(* thread.cc, alarm.cc with the interrupt machinery that drives them,      *)
(* machine/interrupt.cc and timer.cc.                                      *)
(*                                                                         *)
(* There is one simulated CPU.  Kernel code runs with interrupts disabled, *)
(* so an action is a stretch of code between two points where time can     *)
(* pass or where another thread's stack takes over:                        *)
(*                                                                         *)
(*   "run"       the current thread executes with interrupts enabled       *)
(*   "enable"    a kernel routine is about to re-enable them (SetLevel),   *)
(*               which advances the clock                                  *)
(*   "handlers"  OneTick called CheckIfDue, due handlers are being called  *)
(*   "switch"    Run has chosen a thread, SWITCH is about to return in it  *)
(*   "again"     it returned into a P whose semaphore is 0 again           *)
(*   "idle"      the current thread sleeps, Sleep loops on Idle            *)
(***************************************************************************)
EXTENDS Naturals

CONSTANTS
  Thread,       \* the thread control blocks
  Main,         \* the thread Kernel::Initialize makes of the running program
  NoThread,     \* the NULL pointer
  InitialPriority,  \* the priorities "-ep" may give a program
  MaxPriority,  \* 149
  L1Floor,      \* 100: lowest priority of queue L1
  L2Floor,      \* 50:  lowest priority of queue L2
  AgeStep,      \* 10:  what ageing adds to a priority
  AgeThreshold, \* 1500: ticks of waiting that earn one AgeStep
  TimerTicks,   \* 100: ticks between two timer interrupts
  UserTick,     \* 1:  duration of a user instruction
  SystemTick,   \* 10: duration of re-enabling interrupts in the kernel
  RandomSlice,  \* "-rs": the timer period is random
  AgeCap,       \* bound: ages saturate here
  BurstCap      \* bound: burst times saturate here

ASSUME ThreadAssumption == Main \in Thread /\ NoThread \notin Thread

ASSUME PriorityAssumption ==
  /\ {MaxPriority, L1Floor, L2Floor, AgeStep} \subseteq Nat
  /\ L2Floor + AgeStep <= L1Floor   \* one step never skips queue L2
  /\ L1Floor <= MaxPriority
  /\ InitialPriority \subseteq 0 .. MaxPriority

ASSUME TickAssumption ==
  /\ {TimerTicks, UserTick, SystemTick, AgeThreshold} \subseteq Nat \ {0}
  /\ {AgeCap, BurstCap} \subseteq Nat
  /\ AgeThreshold <= AgeCap
  /\ RandomSlice \in BOOLEAN

VARIABLES
  status,         \* Thread::status, and "NULL"/"DELETED" outside its lifetime
  priority,       \* Thread::priority
  approxBurst,    \* Thread::approximateBurstTime
  totalBurst,     \* Thread::totalBurstTime
  remainingBurst, \* Thread::remainingBurstTime
  age,            \* totalAgeTick + (totalTicks - startAgeTick), while queued
  inP,            \* the threads that are in the loop of Semaphore::P
  ready,          \* the lists L1, L2, L3 of the Scheduler
  current,        \* kernel->currentThread
  ran,            \* totalTicks - startTick of the current thread
  toBeDestroyed,  \* Scheduler::toBeDestroyed
  phase,          \* where the CPU is, see above
  finishing,      \* the argument of Sleep, while "idle"
  yieldOnReturn,  \* Interrupt::yieldOnReturn
  toTimer         \* ticks until the pending timer interrupt is due

threadVars == <<status, priority, approxBurst, totalBurst, remainingBurst, age, inP>>
cpuVars    == <<current, ran, toBeDestroyed, phase, finishing>>
irqVars    == <<yieldOnReturn, toTimer>>
vars       == <<threadVars, ready, cpuVars, irqVars>>

Status == {"NULL", "RUNNING", "READY", "BLOCKED", "DELETED"}
Phase  == {"run", "enable", "handlers", "switch", "again", "idle"}
Levels == 1 .. 3

MinOf(a, b) == IF a < b THEN a ELSE b
Minus(a, b) == IF a > b THEN a - b ELSE 0

-------------------------------------------------------------------------------
(***************************************************************************)
(* The ready lists.  A list is the set of its members and the order in     *)
(* which they were appended: <<t, u>> \in q.before says t stands before u. *)
(***************************************************************************)
Lists == [list : [Levels -> SUBSET Thread], before : SUBSET (Thread \X Thread)]

Queued(q) == q.list[1] \cup q.list[2] \cup q.list[3]

Appended(q, k, t) ==
  [list   |-> [q.list EXCEPT ![k] = @ \cup {t}],
   before |-> q.before \cup (q.list[k] \X {t})]

Removed(q, t) ==
  [list   |-> [k \in Levels |-> q.list[k] \ {t}],
   before |-> {p \in q.before : p[1] # t /\ p[2] # t}]

\* Thread::getLevel
Level(p) == IF p >= L1Floor THEN 1 ELSE IF p >= L2Floor THEN 2 ELSE 3

\* Scheduler::ReadyToRun: the queue a thread made ready is put on.
ReadyToRun(q, t) == Appended(q, Level(priority[t]), t)

\* Scheduler::FindNextToRun returns t: shortest remaining burst in L1, highest
\* priority in L2, first in L3; the scans keep the first of equals.
FindNextToRun(q, rem, t) ==
  \/ /\ t \in q.list[1]
     /\ \A u \in q.list[1] \ {t} :
          rem[t] < rem[u] \/ (rem[t] = rem[u] /\ <<t, u>> \in q.before)
  \/ /\ q.list[1] = {}
     /\ t \in q.list[2]
     /\ \A u \in q.list[2] \ {t} :
          \/ priority[t] > priority[u]
          \/ priority[t] = priority[u] /\ <<t, u>> \in q.before
  \/ /\ q.list[1] = {} /\ q.list[2] = {}
     /\ t \in q.list[3]
     /\ \A u \in q.list[3] \ {t} : <<t, u>> \in q.before

-------------------------------------------------------------------------------
(***************************************************************************)
(* Ageing.  UpdateAgeTick and setStartAgeTick together leave age alone: it *)
(* is their sum.  UpdatePriority spends one AgeThreshold at most per call. *)
(***************************************************************************)
Promoted(t) == priority[t] # MaxPriority /\ age[t] >= AgeThreshold

AgedPriority(t) ==
  IF Promoted(t) THEN MinOf(MaxPriority, priority[t] + AgeStep) ELSE priority[t]

\* A variant used as a mutant: the whole wait is dropped at every timer interrupt.
AgedAgeReset(t) == 0

AgedAge(t) == IF Promoted(t) THEN age[t] - AgeThreshold ELSE age[t]

\* Variants used as mutants of AgedLists: a promoted thread stays on its list,
\* is appended without being removed, or is removed without being appended.
AgedListsStay == ready

AgedListsKeep ==
  LET up == {t \in ready.list[3] : AgedPriority(t) >= L2Floor}
  IN  [list   |-> [ready.list EXCEPT ![2] = @ \cup up],
       before |-> ready.before \cup (ready.list[2] \X up)]

AgedListsDrop ==
  [ready EXCEPT !.list[3] = {t \in @ : AgedPriority(t) < L2Floor}]

\* The lists after UpdateAging(L1), UpdateAging(L2), UpdateAging(L3).
AgedLists ==
  LET up2 == {t \in ready.list[2] : AgedPriority(t) >= L1Floor}
      up3 == {t \in ready.list[3] : AgedPriority(t) >= L2Floor}
      list == [k \in Levels |->
                CASE k = 1 -> ready.list[1] \cup up2
                  [] k = 2 -> (ready.list[2] \ up2) \cup up3
                  [] k = 3 -> ready.list[3] \ up3]
  IN  [list   |-> list,
       before |-> {p \in ready.before :
                     \E k \in Levels : p[1] \in list[k] /\ p[2] \in list[k]}
                  \cup (ready.list[1] \X up2)
                  \cup ((ready.list[2] \ up2) \X up3)]

UpdateAging ==
  /\ ready' = AgedLists
  /\ priority' = [t \in Thread |->
                   IF t \in Queued(ready) THEN AgedPriority(t) ELSE priority[t]]
  /\ age' = [t \in Thread |-> IF t \in Queued(ready) THEN AgedAge(t) ELSE age[t]]

-------------------------------------------------------------------------------
(***************************************************************************)
(* Burst accounting of the current thread, Thread::UpdateBurstTime.        *)
(* Burst times are doubles in the code; here they are rounded down.        *)
(***************************************************************************)
BurstNow == MinOf(BurstCap, totalBurst[current] + ran)

\* A variant used as a mutant of BurstToReady: only the last slice is kept.
BurstToReadyForgets ==
  /\ totalBurst' = [totalBurst EXCEPT ![current] = ran]
  /\ remainingBurst' = [remainingBurst EXCEPT ![current] =
                          Minus(approxBurst[current], ran)]
  /\ UNCHANGED approxBurst

\* running -> ready
BurstToReady ==
  /\ totalBurst' = [totalBurst EXCEPT ![current] = BurstNow]
  /\ remainingBurst' = [remainingBurst EXCEPT ![current] =
                          Minus(approxBurst[current], BurstNow)]
  /\ UNCHANGED approxBurst

\* running -> waiting
BurstToWaiting ==
  LET estimate == (BurstNow + approxBurst[current]) \div 2
  IN  /\ approxBurst' = [approxBurst EXCEPT ![current] = estimate]
      /\ remainingBurst' = [remainingBurst EXCEPT ![current] = estimate]
      /\ totalBurst' = [totalBurst EXCEPT ![current] = 0]

-------------------------------------------------------------------------------
\* Scheduler::Run up to SWITCH: the CPU is handed to n, which is then running;
\* st are the statuses with the old thread's already changed.
Run(n, q, st, fin) ==
  /\ ready' = Removed(q, n)
  /\ current' = n
  /\ status' = [st EXCEPT ![n] = "RUNNING"]
  /\ ran' = 0
  /\ toBeDestroyed' = IF fin THEN current ELSE toBeDestroyed
  /\ phase' = "switch"

\* Interrupt::OneTick, Idle: d ticks pass.
AdvanceClock(d) ==
  /\ toTimer' = Minus(toTimer, d)
  /\ age' = [t \in Thread |-> IF t \in Queued(ready) THEN MinOf(AgeCap, age[t] + d)
                                                     ELSE age[t]]

\* Timer::SetInterrupt: when the next timer interrupt is due.
Slice == IF RandomSlice THEN 1 .. 2 * TimerTicks ELSE {TimerTicks}

Init ==
  /\ status = [t \in Thread |-> IF t = Main THEN "RUNNING" ELSE "NULL"]
  /\ priority = [t \in Thread |-> 0]
  /\ approxBurst = [t \in Thread |-> 0]
  /\ totalBurst = [t \in Thread |-> 0]
  /\ remainingBurst = [t \in Thread |-> 0]
  /\ age = [t \in Thread |-> 0]
  /\ inP = {}
  /\ ready = [list |-> [k \in Levels |-> {}], before |-> {}]
  /\ current = Main
  /\ ran = 0
  /\ toBeDestroyed = NoThread
  /\ phase = "run"
  /\ finishing = FALSE
  /\ yieldOnReturn = FALSE
  /\ toTimer \in Slice

-------------------------------------------------------------------------------
\* Kernel::Exec from ExecAll: main creates a thread, sets its priority and
\* forks it; Fork re-enables interrupts.
Exec(t, p) ==
  /\ phase = "run" /\ current = Main
  /\ status[t] = "NULL"
  /\ status' = [status EXCEPT ![t] = "READY"]
  /\ priority' = [priority EXCEPT ![t] = p]
  /\ ready' = Appended(ready, Level(p), t)
  /\ age' = [age EXCEPT ![t] = 0]
  /\ phase' = "enable"
  /\ UNCHANGED <<approxBurst, totalBurst, remainingBurst, inP,
                 current, ran, toBeDestroyed, finishing, irqVars>>

\* A thread asleep on a semaphore, not one that called Finish.
Waiting(t) ==
  /\ status[t] = "BLOCKED"
  /\ t # toBeDestroyed
  /\ ~(finishing /\ t = current)

\* Semaphore::V by t's waker: t goes back to the ready lists.
Awaken(t) ==
  /\ Waiting(t)
  /\ status' = [status EXCEPT ![t] = "READY"]
  /\ ready' = ReadyToRun(ready, t)
  /\ age' = [age EXCEPT ![t] = 0]
  /\ UNCHANGED <<priority, approxBurst, totalBurst, remainingBurst, inP,
                 current, ran, toBeDestroyed, finishing, irqVars>>

\* The running thread calls V.
Wake(t) == phase = "run" /\ Awaken(t) /\ phase' = "enable"

\* A device's interrupt handler calls V.
DeviceHandler(t) == phase \in {"handlers", "idle"} /\ Awaken(t) /\ UNCHANGED phase

\* A variant used as a mutant of Sleep: it idles while L3 is not empty.
SleepIgnoringL3(fin) ==
  /\ phase = "run"
  /\ inP' = IF fin THEN inP ELSE inP \cup {current}
  /\ BurstToWaiting
  /\ ready.list[1] = {} /\ ready.list[2] = {}
  /\ phase' = "idle"
  /\ status' = [status EXCEPT ![current] = "BLOCKED"]
  /\ finishing' = fin
  /\ UNCHANGED <<ready, age, current, ran, toBeDestroyed, priority, irqVars>>

\* Thread::Finish, or Thread::Sleep in the loop of P, once more if the value was
\* taken by another thread: the current thread gives up the CPU.
Sleep(fin) ==
  LET st == [status EXCEPT ![current] = "BLOCKED"]
  IN  /\ phase = "run" \/ (phase = "again" /\ ~fin)
      /\ inP' = IF fin THEN inP ELSE inP \cup {current}
      /\ BurstToWaiting
      /\ \/ \E n \in Thread :
              /\ FindNextToRun(ready, remainingBurst', n)
              /\ Run(n, ready, st, fin)
              /\ age' = [age EXCEPT ![n] = 0]
              /\ UNCHANGED finishing
         \/ /\ Queued(ready) = {}
            /\ phase' = "idle"
            /\ status' = st
            /\ finishing' = fin
            /\ UNCHANGED <<ready, age, current, ran, toBeDestroyed>>
      /\ UNCHANGED <<priority, irqVars>>

\* Thread::Yield, called by OneTick when a handler asked for it.  A thread that
\* finds itself again returns at once: Run is not called.
Yield ==
  LET q == ReadyToRun(ready, current)
      st == [status EXCEPT ![current] = "READY"]
  IN  /\ BurstToReady
      /\ \E n \in Thread :
           /\ FindNextToRun(q, remainingBurst', n)
           /\ age' = [age EXCEPT ![current] = 0, ![n] = 0]
           /\ IF n = current
              THEN /\ ready' = Removed(q, n)
                   /\ status' = st
                   /\ phase' = "enable"
                   /\ UNCHANGED <<current, ran, toBeDestroyed>>
              ELSE Run(n, q, st, FALSE)
      /\ UNCHANGED <<priority, inP, finishing>>

\* A variant used as a mutant of CheckToBeDestroyed: it is forgotten.
LeaveToBeDestroyed == UNCHANGED <<status, toBeDestroyed>>

\* The thread that finished is deleted.
CheckToBeDestroyed ==
  /\ status' = [t \in Thread |-> IF t = toBeDestroyed THEN "DELETED" ELSE status[t]]
  /\ toBeDestroyed' = NoThread

\* The thread SWITCH returns in: Run's last part, or Begin for a new thread.  It
\* enables interrupts, unless it is in P and the value is 0 again.
Resume ==
  /\ phase = "switch"
  /\ CheckToBeDestroyed
  /\ ran' = 0
  /\ \/ phase' = "enable" /\ inP' = inP \ {current}
     \/ current \in inP /\ phase' = "again" /\ UNCHANGED inP
  /\ UNCHANGED <<priority, approxBurst, totalBurst, remainingBurst, age, ready,
                 current, finishing, irqVars>>

-------------------------------------------------------------------------------
\* Interrupt::OneTick up to CheckIfDue: a user instruction was executed, or
\* SetLevel re-enabled interrupts in the kernel.
OneTick ==
  LET d == IF phase = "run" THEN UserTick ELSE SystemTick
  IN  /\ phase \in {"run", "enable"}
      /\ AdvanceClock(d)
      /\ ran' = MinOf(BurstCap, ran + d)
      /\ phase' = "handlers"
      /\ UNCHANGED <<status, priority, approxBurst, totalBurst, remainingBurst,
                     inP, ready, current, toBeDestroyed, finishing, yieldOnReturn>>

\* A variant used as a mutant of MustYield: a thread of L2 is never preempted.
MustYieldNotL2 == Level(priority[current]) # 2

\* Alarm::CallBack: the running thread is to yield.
MustYield ==
  LET level == Level(priority[current])
  IN  level = 1 \/ (level = 2 /\ AgedLists.list[1] # {}) \/ level = 3

\* Timer::CallBack: Alarm::CallBack, then the next timer interrupt.
TimerHandler ==
  /\ phase \in {"handlers", "idle"}
  /\ toTimer = 0
  /\ UpdateAging
  /\ yieldOnReturn' = IF phase # "idle" /\ MustYield THEN TRUE ELSE yieldOnReturn
  /\ toTimer' \in Slice
  /\ UNCHANGED <<status, approxBurst, totalBurst, remainingBurst, inP, cpuVars>>

\* The rest of OneTick, once no interrupt is due.
ReturnFromHandlers ==
  /\ phase = "handlers"
  /\ toTimer # 0
  /\ yieldOnReturn' = FALSE
  /\ UNCHANGED toTimer
  /\ IF yieldOnReturn
     THEN Yield
     ELSE /\ phase' = "run"
          /\ UNCHANGED <<threadVars, ready, current, ran, toBeDestroyed, finishing>>

\* Interrupt::Idle: nothing is ready, the clock moves on towards the next
\* interrupt.
IdleTick ==
  /\ phase = "idle"
  /\ Queued(ready) = {}
  /\ toTimer # 0
  /\ AdvanceClock(1)
  /\ UNCHANGED <<status, priority, approxBurst, totalBurst, remainingBurst, inP, ready,
                 cpuVars, yieldOnReturn>>

\* Idle returned to the loop of Sleep and a thread is ready.
IdleDispatch ==
  /\ phase = "idle"
  /\ toTimer # 0
  /\ \E n \in Thread :
       /\ FindNextToRun(ready, remainingBurst, n)
       /\ Run(n, ready, status, finishing)
       /\ age' = [age EXCEPT ![n] = 0]
  /\ finishing' = FALSE
  /\ UNCHANGED <<priority, approxBurst, totalBurst, remainingBurst, inP, irqVars>>

Next ==
  \/ \E t \in Thread : \/ \E p \in InitialPriority : Exec(t, p)
                       \/ Wake(t)
                       \/ DeviceHandler(t)
  \/ \E fin \in BOOLEAN : Sleep(fin)
  \/ Resume
  \/ OneTick
  \/ TimerHandler
  \/ ReturnFromHandlers
  \/ IdleTick
  \/ IdleDispatch

Spec == Init /\ [][Next]_vars

\* The simulated machine never stops executing.
FairSpec == Spec /\ WF_vars(Next)

-------------------------------------------------------------------------------
TypeOK ==
  /\ status \in [Thread -> Status]
  /\ priority \in [Thread -> 0 .. MaxPriority]
  /\ approxBurst \in [Thread -> 0 .. BurstCap]
  /\ totalBurst \in [Thread -> 0 .. BurstCap]
  /\ remainingBurst \in [Thread -> 0 .. BurstCap]
  /\ age \in [Thread -> 0 .. AgeCap]
  /\ inP \subseteq Thread
  /\ ready \in Lists
  /\ current \in Thread
  /\ ran \in 0 .. BurstCap
  /\ toBeDestroyed \in Thread \cup {NoThread}
  /\ phase \in Phase
  /\ finishing \in BOOLEAN
  /\ yieldOnReturn \in BOOLEAN
  /\ toTimer \in 0 .. 2 * TimerTicks

(***************************************************************************)
(* What makes q three lists without a common member.                       *)
(***************************************************************************)
Ordered(q) ==
  /\ \A j, k \in Levels : \A t \in q.list[j] : t \in q.list[k] => j = k
  /\ \A p \in q.before : \E k \in Levels : {p[1], p[2]} \subseteq q.list[k]
  /\ \A k \in Levels : \A t, u \in q.list[k] :
       /\ <<t, t>> \notin q.before
       /\ t = u \/ <<t, u>> \in q.before \/ <<u, t>> \in q.before
  /\ \A k \in Levels : \A t, u, v \in q.list[k] :
       <<t, u>> \in q.before /\ <<u, v>> \in q.before => <<t, v>> \in q.before

(***************************************************************************)
(* Every thread on a ready list is ready, is not the one that runs, and is *)
(* on the list its priority calls for: ageing moves threads between lists  *)
(* while ReadyToRun chooses the list anew, and no thread is ever left on a *)
(* list that its priority has outgrown, or on two lists.                   *)
(***************************************************************************)
QueuedAtItsLevel ==
  \A k \in Levels : \A t \in ready.list[k] :
    /\ status[t] = "READY"
    /\ Level(priority[t]) = k
    /\ t = current => phase = "idle"

(***************************************************************************)
(* The lists stay lists: no thread is on two of them, and "stands before"  *)
(* orders the members of each totally and relates nobody else, through     *)
(* appends, removals from the middle and the promotion of several threads  *)
(* by one timer interrupt.                                                 *)
(***************************************************************************)
ListsOrdered == Ordered(ready)

(***************************************************************************)
(* No thread is lost: one that is ready is on a list, or it is the current *)
(* thread that yielded to itself; the running one is the current thread;   *)
(* the current thread can execute unless the CPU idles in its Sleep.       *)
(***************************************************************************)
NoThreadLost ==
  /\ \A t \in Thread :
       /\ status[t] = "READY" =>
            t \in Queued(ready) \/ (t = current /\ phase \notin {"idle", "switch"})
       /\ status[t] = "RUNNING" => t = current /\ phase # "idle"
  /\ phase # "idle" => status[current] \in {"RUNNING", "READY"}
  /\ phase = "idle" => status[current] \in {"BLOCKED", "READY"}

(***************************************************************************)
(* A finished thread is deleted once, by the next thread to run, and never *)
(* scheduled again: the ASSERT of Run (one carcass at a time) and that of  *)
(* ~Thread (never the current thread) hold, and no list keeps a pointer to *)
(* a thread that is being or has been deleted.                             *)
(***************************************************************************)
CarcassSafe ==
  /\ toBeDestroyed # NoThread =>
       /\ phase = "switch"
       /\ toBeDestroyed # current
       /\ status[toBeDestroyed] = "BLOCKED"
  /\ status[current] # "DELETED"
  /\ finishing => phase = "idle" /\ status[current] = "BLOCKED"

(***************************************************************************)
(* The estimate FindNextToRun compares is what is left of the predicted    *)
(* burst, whatever mix of yields and sleeps led here.                      *)
(***************************************************************************)
RemainingIsWhatIsLeft ==
  \A t \in Thread : remainingBurst[t] = Minus(approxBurst[t], totalBurst[t])

-------------------------------------------------------------------------------
\* The life of each thread, as ProcessLifecycle sees it.
proc ==
  [t \in Thread |->
    CASE status[t] = "NULL" -> "new"
      [] status[t] = "DELETED" \/ t = toBeDestroyed \/ (finishing /\ t = current)
           -> "terminated"
      [] t = current /\ phase # "idle" -> "running"
      [] status[t] = "READY" /\ (t # current \/ phase = "idle") -> "ready"
      [] OTHER -> "waiting"]

Lifecycle == INSTANCE ProcessLifecycle

\* The scheduler implements the thread life cycle: in particular the CPU idles
\* only when no thread is ready, and a finished thread never comes back.
LifecycleSpec == Lifecycle!Spec

\* Ageing: a thread waiting in L2 or L3 runs or reaches L1, however busy the
\* higher queues are (UpdatePriority, UpdateAging).
AgingReachesL1 ==
  \A t \in Thread :
    t \in ready.list[2] \cup ready.list[3] ~> t = current \/ t \in ready.list[1]

\* Thread::Yield (thread.cc:194) puts the thread on the ready list "so that it
\* will eventually be re-scheduled".
EventuallyRescheduled ==
  \A t \in Thread : t \in Queued(ready) ~> t = current
===============================================================================
