------------------------------ MODULE SynchDevice ------------------------------
(***************************************************************************)
(* Blocking requests to devices that serve one request at a time and call  *)
(* back when it is done: SynchDisk over Disk (filesys/synchdisk.cc,        *)
(* machine/disk.cc), SynchConsoleOutput over ConsoleOutput, and            *)
(* PostOfficeOutput over NetworkOutput have this one form:                 *)
(*                                                                         *)
(*   lock->Acquire(); device->Request(); semaphore->P(); lock->Release()   *)
(*                                                                         *)
(* Another thread, or an interrupt handler, can run where interrupts are   *)
(* enabled again, which is after each P that passed and each V: an action  *)
(* is the code from one such point to the next, or to a P that sleeps.     *)
(***************************************************************************)
EXTENDS Semaphore

CONSTANTS
  Device,  \* the disk, the display, the network
  Caller   \* the threads that make requests

ASSUME NobodyAssumption == Nobody \notin Caller

VARIABLES
  lock,  \* of each device
  done,  \* the semaphore its callback signals
  busy,  \* a request is under way, its interrupt is scheduled: Disk::active,
         \* ConsoleOutput::putBusy (nothing sets NetworkOutput::sendBusy)
  pc,    \* where each thread is in its call
  dev    \* the device it calls

deviceVars == <<lock, done, busy, pc, dev>>

PC == {"out",      \* not in a call
       "acquire",  \* in the P of lock->Acquire, which had to sleep
       "request",  \* past it
       "wait",     \* in semaphore->P, the request is made
       "release"}  \* past it

DeviceInit ==
  /\ lock = [d \in Device |-> NewLock]
  /\ done = [d \in Device |-> NewSemaphore(0)]
  /\ busy = [d \in Device |-> FALSE]
  /\ pc = [t \in Caller |-> "out"]
  /\ dev \in [Caller -> Device]

-------------------------------------------------------------------------------
\* A call, up to the end of the P in lock->Acquire() or to its sleep.
Call(t, d) ==
  /\ pc[t] = "out"
  /\ lock' = [lock EXCEPT ![d] = P(@, t)]
  /\ pc' = [pc EXCEPT ![t] = IF Passes(lock[d]) THEN "request" ELSE "acquire"]
  /\ dev' = [dev EXCEPT ![t] = d]
  /\ UNCHANGED <<done, busy>>

\* The loop of that P, after a wakeup.
Acquire(t) ==
  LET l == lock[dev[t]]
  IN  /\ pc[t] = "acquire"
      /\ ~Asleep(l, t)
      /\ lock' = [lock EXCEPT ![dev[t]] = P(l, t)]
      /\ pc' = [pc EXCEPT ![t] = IF Passes(l) THEN "request" ELSE "acquire"]
      /\ UNCHANGED <<done, busy, dev>>

\* semaphore->P()
AwaitDone(t) ==
  LET s == done[dev[t]]
  IN  /\ done' = [done EXCEPT ![dev[t]] = P(s, t)]
      /\ pc' = [pc EXCEPT ![t] = IF Passes(s) THEN "release" ELSE "wait"]

\* A variant used as a mutant of Request: the lock is released before the wait.
RequestUnlocked(t) ==
  /\ pc[t] = "request"
  /\ lock' = [lock EXCEPT ![dev[t]] = Release(@)]
  /\ busy' = [busy EXCEPT ![dev[t]] = TRUE]
  /\ AwaitDone(t)
  /\ UNCHANGED dev

\* lockHolder = currentThread, then Disk::ReadRequest or WriteRequest,
\* ConsoleOutput::PutChar, NetworkOutput::Send, and semaphore->P().
Request(t) ==
  /\ pc[t] = "request"
  /\ lock' = [lock EXCEPT ![dev[t]] = HeldBy(@, t)]
  /\ busy' = [busy EXCEPT ![dev[t]] = TRUE]
  /\ AwaitDone(t)
  /\ UNCHANGED dev

\* The loop of semaphore->P(), after a wakeup.
Resume(t) ==
  /\ pc[t] = "wait"
  /\ ~Asleep(done[dev[t]], t)
  /\ AwaitDone(t)
  /\ UNCHANGED <<lock, busy, dev>>

\* lock->Release()
Return(t) ==
  /\ pc[t] = "release"
  /\ lock' = [lock EXCEPT ![dev[t]] = Release(@)]
  /\ pc' = [pc EXCEPT ![t] = "out"]
  /\ UNCHANGED <<done, busy, dev>>

\* The interrupt of d: Disk::CallBack and SynchDisk::CallBack, and the like.
CallBack(d) ==
  /\ busy[d]
  /\ busy' = [busy EXCEPT ![d] = FALSE]
  /\ done' = [done EXCEPT ![d] = V(@)]
  /\ UNCHANGED <<lock, pc, dev>>

DeviceNext ==
  \/ \E t \in Caller :
       \/ \E d \in Device : Call(t, d)
       \/ Acquire(t) \/ Request(t) \/ Resume(t) \/ Return(t)
  \/ \E d \in Device : CallBack(d)

DeviceSpec == DeviceInit /\ [][DeviceNext]_deviceVars

-------------------------------------------------------------------------------
Semaphores == [value : Nat, queue : Seq(Caller)]
Locks == [value : Nat, queue : Seq(Caller), holder : Caller \cup {Nobody}]

DeviceTypeOK ==
  /\ lock \in [Device -> Locks]
  /\ done \in [Device -> Semaphores]
  /\ busy \in [Device -> BOOLEAN]
  /\ pc \in [Caller -> PC]
  /\ dev \in [Caller -> Device]

\* t is past the P of lock->Acquire and has not called lock->Release.
Inside(t, d) == dev[t] = d /\ pc[t] \in {"request", "wait", "release"}

(***************************************************************************)
(* The assertions of the devices and of the lock hold: no request is made  *)
(* to a device that is busy (disk.cc and console.cc; network.cc asserts it *)
(* of a flag it never sets), one thread at a time is inside, and it is the *)
(* lockHolder when it releases.                                            *)
(***************************************************************************)
OneRequestAtATime ==
  \A t \in Caller :
    /\ pc[t] = "request" => ~busy[dev[t]]
    /\ pc[t] = "release" => lock[dev[t]].holder = t
    /\ \A u \in Caller, d \in Device : Inside(t, d) /\ Inside(u, d) => t = u

(***************************************************************************)
(* A call returns when its own request is done, never on the callback of   *)
(* another's: the semaphore holds no signal while a request is under way,  *)
(* or when nobody is inside.                                               *)
(***************************************************************************)
CallBackAnswersItsRequest ==
  /\ \A t \in Caller : pc[t] = "release" => ~busy[dev[t]] /\ done[dev[t]].value = 0
  /\ \A d \in Device : busy[d] \/ (~\E t \in Caller : Inside(t, d)) => done[d].value = 0

(***************************************************************************)
(* V wakes one waiter and lets newcomers overtake it, so the woken thread  *)
(* may have to sleep again.  Still no thread is forgotten: while threads   *)
(* sleep for a lock that is free, another one is awake on its way to it,   *)
(* and nobody sleeps for a callback that has come.                         *)
(***************************************************************************)
NoSleeperForgotten ==
  \A d \in Device :
    /\ lock[d].value # 0 /\ lock[d].queue # <<>> =>
         \E t \in Caller : pc[t] = "acquire" /\ dev[t] = d /\ ~Asleep(lock[d], t)
    /\ done[d].queue # <<>> => busy[d] /\ done[d].value = 0
===============================================================================
