------------------------------ MODULE UserPrograms ------------------------------
(***************************************************************************)
(* User programs on the kernel of MP1, whose scheduler is a FIFO list: the *)
(* system calls of userprog/exception.cc, the simulated clock and the      *)
(* interrupts of machine/interrupt.cc, the time slices of threads/alarm.cc *)
(* and the display of userprog/synchconsole.cc and machine/console.cc.     *)
(*                                                                         *)
(* Interrupts come in OneTick only: after each user instruction and where  *)
(* the kernel enables interrupts.  An action is the code of the current    *)
(* thread from one such point to the next (phase "code"), one OneTick up   *)
(* to the end of the Yield a handler asked for, or to the switch in it     *)
(* ("tick"), or one round of Idle ("idle").                                *)
(***************************************************************************)
EXTENDS OpenFileTable, Semaphore

CONSTANTS
  execfile,    \* the programs in the order of the command line
  Digits,      \* characters of a printed number and its newline
  UserTick, SystemTick, ConsoleTime,
  TimerDelay,  \* what the timer waits: TimerTicks, or 1 .. 2 * TimerTicks (-rs)
  CallMax      \* bound: calls that are made, all programs together

ASSUME ClockAssumption ==
  /\ {Digits, UserTick, SystemTick, ConsoleTime} \cup TimerDelay \subseteq Nat \ {0}
  /\ TimerDelay # {} /\ execfile \in Seq(Program) \ {<<>>}
  /\ CallMax \in Nat

\* A program is a thread: what stands for it on the command line, once.
ASSUME ExecfileAssumption ==
  \A t \in Program : \E i \in DOMAIN execfile :
    \A j \in DOMAIN execfile : execfile[j] = t <=> j = i

VARIABLES
  currentThread,
  readyList,
  at,          \* where the code of each thread goes on
  interrupted, \* the oldStatus of each thread that is in the Yield of OneTick
  phase,
  status,      \* UserMode or SystemMode; IdleMode does not outlast Idle
  pending,     \* the scheduled interrupts: what for, and in how many ticks
  lock, waitFor,  \* of the display
  putBusy,
  idx,         \* how many characters of its number each thread has put
  line,        \* who wrote the characters after the last newline
  calls        \* how many calls were made

kernelVars == <<currentThread, readyList, at, interrupted, phase, status, pending>>
displayVars == <<lock, waitFor, putBusy, idx, line>>
vars == <<kernelVars, displayVars, calls, fileVars>>

NoMode == "none"

\* A variant used as a mutant of Insert: the list is not sorted.
InsertAtEnd(p, x) == Append(p, x)

\* How many interrupts at the front of p come within n ticks: the loops look no
\* further than the first that does not.
Leading(p, n) ==
  CHOOSE k \in 0 .. Len(p) :
    (\A i \in 1 .. k : p[i].in <= n) /\ (k < Len(p) => p[k + 1].in > n)

\* SortedList::Insert: after those that come at the same time.
Insert(p, x) ==
  LET before == Leading(p, x.in)
  IN  SubSeq(p, 1, before) \o <<x>> \o SubSeq(p, before + 1, Len(p))

\* Interrupt::Schedule
Scheduled(p, what, fromNow) == Insert(p, [for |-> what, in |-> fromNow])

\* ExecAll has forked the programs and main has finished.
Init ==
  /\ FileInit
  /\ currentThread = Head(execfile)
  /\ readyList = Tail(execfile)
  /\ at = [t \in Program |-> "begin"]
  /\ interrupted = [t \in Program |-> NoMode]
  /\ phase = "code"
  /\ status = "SystemMode"
  /\ \E d \in TimerDelay : pending = Scheduled(<<>>, "timer", d)
  /\ lock = NewLock
  /\ waitFor = NewSemaphore(0)
  /\ putBusy = FALSE
  /\ idx = [t \in Program |-> 0]
  /\ line = <<>>
  /\ calls = 0

-------------------------------------------------------------------------------
(* The thread system *)

\* Scheduler::Run up to SWITCH, and on in n: back to the Yield of OneTick, which
\* enables interrupts, to the P it slept in, or to its beginning.
Run(n) ==
  /\ currentThread' = n
  /\ phase' = IF interrupted'[n] = NoMode THEN "code" ELSE "tick"

\* Thread::Sleep, with this ready list.
Sleep(ready) ==
  /\ UNCHANGED interrupted
  /\ IF ready = <<>> THEN phase' = "idle" /\ readyList' = ready /\ UNCHANGED currentThread
     ELSE readyList' = Tail(ready) /\ Run(Head(ready))

\* The current thread enables interrupts, or has executed an instruction, and
\* goes on at pc when OneTick is over.
EnableAt(pc) ==
  /\ phase' = "tick"
  /\ at' = [at EXCEPT ![currentThread] = pc]
  /\ UNCHANGED <<currentThread, readyList, interrupted>>

\* Semaphore::P on s: past it, or asleep at pc, the loop in it.
GoOnOrSleep(s, past, pc) ==
  IF Passes(s) THEN EnableAt(past)
  ELSE Sleep(readyList) /\ at' = [at EXCEPT ![currentThread] = pc]

\* A variant used as a mutant of WokenBy: the thread is not made ready.
WokenByNothing(s, ready) == ready

\* The ready list after V on s.
WokenBy(s, ready) == IF s.queue = <<>> THEN ready ELSE Append(ready, Head(s.queue))

-------------------------------------------------------------------------------
(* Interrupts *)

Due(p) == SubSeq(p, 1, Leading(p, 0))
NotDue(p) == SubSeq(p, Leading(p, 0) + 1, Len(p))
Fires(p, what) == \E i \in DOMAIN Due(p) : Due(p)[i].for = what

\* The handlers of the interrupts due in p, without interrupts.  Alarm::CallBack
\* asks for a Yield, see OneTick, and Timer::CallBack sets the timer again;
\* ConsoleOutput::CallBack and SynchConsoleOutput::CallBack signal waitFor.
Handled(p) ==
  /\ IF Fires(p, "timer")
     THEN \E d \in TimerDelay : pending' = Scheduled(NotDue(p), "timer", d)
     ELSE pending' = NotDue(p)
  /\ IF Fires(p, "display")
     THEN putBusy' = FALSE /\ waitFor' = V(waitFor)
     ELSE UNCHANGED <<putBusy, waitFor>>

ReadyAfter(p) == IF Fires(p, "display") THEN WokenBy(waitFor, readyList) ELSE readyList

Later(n) == [i \in DOMAIN pending |-> [pending[i] EXCEPT !.in = @ - n]]

\* Interrupt::Idle, once more around the loop of Sleep: the clock goes on to the
\* next interrupt, and the alarm asks for nothing.
Idle ==
  LET p == Later(Head(pending).in)
  IN  /\ phase = "idle"
      /\ Handled(p)
      /\ status' = "SystemMode"
      /\ Sleep(ReadyAfter(p))
      /\ UNCHANGED <<at, lock, idx, line, calls, fileVars>>

\* A variant used as a mutant of YieldTo: without ReadyToRun(this).
YieldAndForget(ready) ==
  /\ interrupted' = [interrupted EXCEPT ![currentThread] = IF @ = NoMode THEN status ELSE @]
  /\ status' = "SystemMode"
  /\ IF ready = <<>> THEN phase' = "tick" /\ UNCHANGED <<currentThread, readyList>>
     ELSE Run(Head(ready)) /\ readyList' = Tail(ready)

\* The Yield at the end of OneTick.  It enables interrupts when it returns, so
\* another OneTick follows before the status is what it was.
YieldTo(ready) ==
  /\ interrupted' = [interrupted EXCEPT ![currentThread] = IF @ = NoMode THEN status ELSE @]
  /\ status' = "SystemMode"
  /\ IF ready = <<>> THEN phase' = "tick" /\ UNCHANGED <<currentThread, readyList>>
     ELSE Run(Head(ready)) /\ readyList' = Append(Tail(ready), currentThread)

\* A variant used as a mutant of ResumeTo: status = oldStatus is missing.
ResumeInSystemMode(ready) ==
  /\ interrupted' = [interrupted EXCEPT ![currentThread] = NoMode]
  /\ readyList' = ready
  /\ phase' = "code"
  /\ UNCHANGED <<currentThread, status>>

\* OneTick returns, and so does each OneTick and Yield it was nested in.
ResumeTo(ready) ==
  /\ status' = IF interrupted[currentThread] = NoMode THEN status
               ELSE interrupted[currentThread]
  /\ interrupted' = [interrupted EXCEPT ![currentThread] = NoMode]
  /\ readyList' = ready
  /\ phase' = "code"
  /\ UNCHANGED currentThread

\* Interrupt::OneTick
OneTick ==
  LET p == Later(IF status = "SystemMode" THEN SystemTick ELSE UserTick)
  IN  /\ phase = "tick"
      /\ Handled(p)
      /\ IF Fires(p, "timer") THEN YieldTo(ReadyAfter(p)) ELSE ResumeTo(ReadyAfter(p))
      /\ UNCHANGED <<at, lock, idx, line, calls, fileVars>>

-------------------------------------------------------------------------------
(* The code of the current thread *)

Executes(pc) == phase = "code" /\ at[currentThread] = pc

\* Thread::Begin enables interrupts; ForkExecute loads the program, which takes no
\* time, and enters Machine::Run.
Begin ==
  /\ Executes("begin")
  /\ EnableAt("run")
  /\ UNCHANGED <<status, pending, displayVars, calls, fileVars>>

MachineRun ==
  /\ Executes("run")
  /\ status' = "UserMode"
  /\ at' = [at EXCEPT ![currentThread] = "user"]
  /\ UNCHANGED <<currentThread, readyList, interrupted, phase, pending, displayVars,
                 calls, fileVars>>

\* An instruction, or a system call that returns -1, FALSE or a sum.
Instruction ==
  /\ Executes("user")
  /\ EnableAt("user")
  /\ UNCHANGED <<status, pending, displayVars, calls, fileVars>>

Calls == calls < CallMax /\ calls' = calls + 1

\* A file system call: RaiseException sets SystemMode and UserMode again.
FileSystemCall ==
  /\ Executes("user") /\ Calls
  /\ FileCall(currentThread)
  /\ EnableAt("user")
  /\ UNCHANGED <<status, pending, displayVars>>

\* Finish, which leaves the files open: SC_Exit, or ForkExecute returns because
\* Load did not find the executable.
Exit ==
  /\ Executes("user") \/ Executes("run")
  /\ status' = "SystemMode"
  /\ at' = [at EXCEPT ![currentThread] = "finished"]
  /\ Sleep(readyList)
  /\ UNCHANGED <<pending, displayVars, calls, fileVars>>

\* SC_Halt and SC_MSG end the machine for every program.
Halt ==
  /\ Executes("user") /\ Calls
  /\ status' = "SystemMode" /\ phase' = "halted"
  /\ UNCHANGED <<currentThread, readyList, at, interrupted, pending, displayVars, fileVars>>

Halted == phase = "halted" /\ UNCHANGED vars

\* A variant used as a mutant of PrintInt: the lock is not taken.
PrintIntUnlocked ==
  /\ Executes("user") /\ Calls
  /\ status' = "SystemMode"
  /\ EnableAt("put")
  /\ UNCHANGED <<pending, displayVars, fileVars>>

\* SC_PrintInt, SynchConsoleOutput::PutInt: lock->Acquire().
PrintInt ==
  /\ Executes("user") /\ Calls
  /\ status' = "SystemMode"
  /\ lock' = P(lock, currentThread)
  /\ GoOnOrSleep(lock, "put", "acquire")
  /\ UNCHANGED <<pending, waitFor, putBusy, idx, line, fileVars>>

Acquire ==
  /\ Executes("acquire")
  /\ lock' = P(lock, currentThread)
  /\ GoOnOrSleep(lock, "put", "acquire")
  /\ UNCHANGED <<status, pending, waitFor, putBusy, idx, line, calls, fileVars>>

\* lockHolder = currentThread in Acquire, the first time; then
\* consoleOutput->PutChar(str[idx]); idx++; waitFor->P().
PutChar ==
  LET i == idx[currentThread]
  IN  /\ Executes("put") /\ i < Digits
      /\ lock' = HeldBy(lock, currentThread)
      /\ line' = IF i + 1 = Digits THEN <<>> ELSE Append(line, currentThread)
      /\ idx' = [idx EXCEPT ![currentThread] = i + 1]
      /\ putBusy' = TRUE
      /\ pending' = Scheduled(pending, "display", ConsoleTime)
      /\ waitFor' = P(waitFor, currentThread)
      /\ GoOnOrSleep(waitFor, "put", "wait")
      /\ UNCHANGED <<status, calls, fileVars>>

\* The loop of waitFor->P() after a wakeup.
Wait ==
  /\ Executes("wait")
  /\ waitFor' = P(waitFor, currentThread)
  /\ GoOnOrSleep(waitFor, "put", "wait")
  /\ UNCHANGED <<status, pending, lock, putBusy, idx, line, calls, fileVars>>

\* str[idx] is 0: lock->Release().
ReleaseDisplay ==
  /\ Executes("put") /\ idx[currentThread] = Digits
  /\ lock' = Release(lock)
  /\ idx' = [idx EXCEPT ![currentThread] = 0]
  /\ readyList' = WokenBy(lock, readyList)
  /\ at' = [at EXCEPT ![currentThread] = "return"]
  /\ phase' = "tick"
  /\ UNCHANGED <<currentThread, interrupted, status, pending, waitFor, putBusy, line, calls,
                 fileVars>>

\* RaiseException sets UserMode; the instruction is over.
ReturnFromPrintInt ==
  /\ Executes("return")
  /\ status' = "UserMode"
  /\ EnableAt("user")
  /\ UNCHANGED <<pending, displayVars, calls, fileVars>>

Next ==
  \/ OneTick \/ Idle
  \/ Begin \/ MachineRun \/ Instruction
  \/ FileSystemCall \/ Exit \/ Halt \/ Halted
  \/ PrintInt \/ Acquire \/ PutChar \/ Wait \/ ReleaseDisplay \/ ReturnFromPrintInt

Spec == Init /\ [][Next]_vars

\* The simulated machine goes on executing.
FairSpec == Spec /\ WF_vars(Next)

-------------------------------------------------------------------------------
PC == {"begin", "run", "user", "acquire", "put", "wait", "return", "finished"}

TypeOK ==
  /\ FileTypeOK
  /\ currentThread \in Program /\ readyList \in Seq(Program)
  /\ at \in [Program -> PC]
  /\ interrupted \in [Program -> {NoMode, "UserMode", "SystemMode"}]
  /\ phase \in {"code", "tick", "idle", "halted"}
  /\ status \in {"UserMode", "SystemMode"}
  /\ pending \in Seq([for : {"timer", "display"}, in : Nat])
  /\ putBusy \in BOOLEAN /\ idx \in [Program -> 0 .. Digits]

(***************************************************************************)
(* User code is executed in UserMode and kernel code in SystemMode,        *)
(* although OneTick changes the status for a Yield, in which others change *)
(* it, and may be called again before it puts the old one back.            *)
(***************************************************************************)
ModeIsRight ==
  /\ phase = "code" => (status = "UserMode" <=> at[currentThread] = "user")
  /\ \A t \in Program :
       interrupted[t] # NoMode => (interrupted[t] = "UserMode" <=> at[t] = "user")

(***************************************************************************)
(* The timer always has one interrupt to come, which Idle relies on; the   *)
(* display has one while it is busy and is not sent another character      *)
(* then (the assertion in console.cc); none is overdue when code runs; and *)
(* the list is sorted, so that OneTick need only look at its front.        *)
(***************************************************************************)
InterruptsAgree ==
  LET of(x) == {i \in DOMAIN pending : pending[i].for = x}
  IN  /\ \E i \in DOMAIN pending : of("timer") = {i}
      /\ IF putBusy THEN \E i \in DOMAIN pending : of("display") = {i} ELSE of("display") = {}
      /\ \A i \in DOMAIN pending : pending[i].in > 0
      /\ \A i, j \in DOMAIN pending : i < j => pending[i].in <= pending[j].in
      /\ Executes("put") /\ idx[currentThread] < Digits => ~putBusy

(***************************************************************************)
(* The characters of two numbers are not mixed on the display, however the *)
(* programs that print them are interrupted, and a program releases the    *)
(* lock it holds (the assertion in Lock::Release).                         *)
(***************************************************************************)
NumbersAreWhole ==
  /\ \A i, j \in DOMAIN line : line[i] = line[j]
  /\ Executes("put") /\ idx[currentThread] = Digits => lock.holder = currentThread

(***************************************************************************)
(* A thread that is neither current nor finished is ready or asleep in the *)
(* display's lock or semaphore, in one of them and once.                   *)
(***************************************************************************)
NoProgramLost ==
  LET waiting == readyList \o lock.queue \o waitFor.queue
      current == IF phase = "idle" THEN {} ELSE {currentThread}
  IN  /\ \A i, j \in DOMAIN waiting : waiting[i] = waiting[j] => i = j
      /\ \A t \in Program :
           (\E i \in DOMAIN waiting : waiting[i] = t) <=>
             at[t] # "finished" /\ t \notin current

Printing(t) == at[t] \in {"acquire", "put", "wait", "return"}

(***************************************************************************)
(* A PrintInt returns, or the machine halts, whatever other programs do in *)
(* the CallMax calls that all of them make together.  (A lock wakes its    *)
(* waiter and does not hand itself over: programs that print without end   *)
(* could pass a waiter again and again.)                                   *)
(***************************************************************************)
PrintReturns == \A t \in Program : Printing(t) ~> (~Printing(t) \/ phase = "halted")
===============================================================================
