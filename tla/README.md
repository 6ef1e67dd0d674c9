# A verification development for NTHU-2021-Operating-Systems

The repository holds four NachOS 4.0 assignments (`src/MP1` .. `src/MP4`/`src/NachOS`)
and a pthread assignment (`src/Pthread`). The models here are translated from that code:
each definition that stands for code is listed with its lines under `map` in
`PROJECT.json`. The four NachOS trees are near-copies of one another; each assignment is
modelled in the tree that implements it:

| subject | tree |
|---|---|
| MP1, open-file system calls | `src/MP1/NachOS-4.0_MP1/code` |
| MP2, page tables | `src/MP2/NachOS-4.0_MP2/code` |
| MP3, multilevel feedback queue | `src/MP3/NachOS-4.0_MP3/code` |
| MP4 and bonus, file system | `src/NachOS` |
| pthread producer-consumer | `src/Pthread/NTHU-OS-Pthreads` |

## 1. Inventory

**Scheduler (MP3).** `Scheduler` keeps three ready lists L1, L2, L3 and the thread to be
destroyed; `Thread` keeps a status, a priority, three burst times and an age. Operations:
`ReadyToRun`, `FindNextToRun` (shortest remaining burst in L1, highest priority in L2,
first in L3), `Run`, `CheckToBeDestroyed`, `UpdateAging`, and `Yield`, `Sleep`, `Finish`,
`Fork` of the thread. `Alarm::CallBack` ages the threads and sets `yieldOnReturn` at each
timer interrupt; `Interrupt::OneTick` acts on it. Hard: an interrupt may come at every
tick; a thread moves between lists while others are appended; a decision taken in a
handler is acted upon later; a finished thread is deleted by the next one. Correct when no
thread is lost, on two lists, or deleted too early, when the burst estimates are what is
left of the predicted burst, when a better queue waits less than a slice, and when ageing
works however busy the machine is.

**Semaphores, locks, condition variables, synchronized devices (base code).**
`threads/synch.cc`, `filesys/synchdisk.cc`, `machine/disk.cc`, `userprog/synchconsole.cc`,
`network/post.cc`. Each device accepts one request at a time (an assertion) and calls back
when it is done; a lock and a semaphore around it turn that into a blocking call. Hard:
the callback comes at any tick after the request, while others want the lock; locks are handed
over by waking a waiter that competes with newcomers. Correct when the devices' assertions hold,
every request ends and is answered once, in order.

**Address spaces (MP2).** `kernel->usedPhysPage` and `numAvailPhysPage` say which frames
are free; `AddrSpace::Load` takes frames and fills them from an executable, `~AddrSpace`
gives them back, `Translate` turns virtual into physical addresses, `RestoreState` gives
the machine a page table at a context switch. Correct when no frame belongs to two address
spaces, the counter agrees with the array, and memory that is given back can be used.

**Open files and system calls (MP1).** A table of 20 open files over UNIX descriptors; an
identifier is an index of it. Programs that are interrupted at every tick call it, and
`PrintInt` puts a number on the display, one character per interrupt. Correct when an
identifier names one file and a position of its own from `Open` until some program calls
`Close` with it, no descriptor is lost, numbers are not mixed on the display, and every call returns.

**Simulated time and interrupts (base code, seen from MP1).** The clock moves at each user
instruction and where interrupts are enabled, by a step that depends on the machine's mode;
a sorted list holds the interrupts to come; a handler may ask for a `Yield`, which the
interrupted thread executes before it goes on. Hard: that `Yield` is nested in `OneTick`, is
left for other threads and ends in another `OneTick`. Correct when each thread finds its mode
again and the list has what the idle machine waits for.

**File system (MP4 and bonus).** On disk: the bitmap of sectors, file headers whose
entries are sectors of data or of sub-headers (up to four levels), directories whose
entries point to headers. Operations: format, `Create`, `CreateDirectory`, `Open`,
`Remove`, `RecursiveRemove`, `List`, and reads and writes of an open file by byte over a
disk of sectors. Hard: several structures must change together, each step may fail or be
the last before an exit, a disk may be full in the middle, the walk along a path may end
early, a write changes sectors in part. Correct when every sector has one owner, an
operation that fails leaves no trace, one that succeeds does what it says and keeps
everything else, and an exit harms only the file the operation was about.

**Pthread queue.** `TSQueue`: a circular buffer under one mutex with two condition
variables, one signal per operation. Hard: spurious wakeups, overtaking, lost wakeups,
`get_size` without the mutex. Correct when it is a bounded FIFO queue whose callers do not
sleep while they could proceed.

**Pthread program.** A reader, four producers, a changing number of consumers, a
controller that starts and cancels consumers, a writer, and main, over three such queues.
Hard: cancellation only sets a flag; a cancelled consumer deletes its own object; main
returns under running threads. Correct when each line is transformed once and written, and
the program ends.

**The rest** is listed in `PROJECT.json` with its status: the MIPS simulator, the
statistics, option parsing and the libraries. They carry none of the assignments' logic.

How the parts interact: user programs reach the kernel through system calls
(`exception.cc`, `ksyscall.h`), which call the file system and the thread system; both
sleep in the synchronized devices, whose callbacks run as interrupt handlers and make
threads ready; the scheduler decides who runs; the context switch restores the address
space of the thread that runs. The pthread program stands alone: `Pipeline` is composed of
threads over queues, `TSQueue` is what such a queue is.

## 2. Modules

| module | models | built on |
|---|---|---|
| `ProcessLifecycle` | abstract: the life of a thread on one CPU | |
| `Scheduler` | MP3 scheduler, thread, alarm, the interrupts that drive them | refines `ProcessLifecycle` |
| `SchedulerHistory` | `Scheduler` with two history variables | `Scheduler` |
| `MCSchedulerHistory` | symmetry and model values for TLC | `SchedulerHistory` |
| `SchedulerProofs` | theorems about `Scheduler` and its history | `SchedulerHistory` |
| `BoundedQueue` | abstract: a bounded FIFO queue with blocking calls | |
| `TSQueue` | `ts_queue.hpp`, statement by statement | refines `BoundedQueue` |
| `TSQueueProofs` | theorems about `TSQueue` | `TSQueue` |
| `Pipeline` | the pthread program over three bounded queues | the queue of `BoundedQueue` |
| `PipelineProofs` | theorems about `Pipeline` | `Pipeline` |
| `FileHeader` | nested file headers: allocate, deallocate, find a block | |
| `OpenFile` | reads and writes by byte over the sectors of a file | any `ByteToSector` |
| `FileSystem` | directories, paths, create, remove, open | `FileHeader`, `OpenFile` |
| `MCFileSystem` | names and paths for TLC | `FileSystem` |
| `FileHeaderProofs` | theorems about one file: `FileHeader`, `OpenFile` | `FileSystem` |
| `FileSystemProofs` | theorems about the tree of files | `FileHeaderProofs` |
| `Semaphore` | semaphores and locks as operators on their state | |
| `SynchDevice` | lock, request, callback, wait: disk, display, network output | `Semaphore` |
| `Mailboxes` | abstract: what the post office promises | |
| `PostOffice` | both sides of the post office over the network | composes `SynchDevice` with the input side, refines `Mailboxes` |
| `PostOfficeProofs` | theorems about `SynchDevice` and `PostOffice` | `PostOffice` |
| `PrivateMemory` | abstract: what an address space promises to a program | |
| `AddrSpace` | MP2 loading, frames, page tables, context switches, stores | refines `PrivateMemory` |
| `AddrSpaceProofs` | theorems about `AddrSpace`, and that it implements `PrivateMemory` | `AddrSpace` |
| `MCAddrSpace` | the programs' layouts for TLC | `AddrSpace` |
| `OpenFiles` | abstract: what the open-file calls promise to a program | |
| `OpenFileTable` | MP1's table, the stub `OpenFile`, the UNIX files under them | refines `OpenFiles` |
| `UserPrograms` | MP1: system calls, clock, interrupts, time slices, display | composes `OpenFileTable` with the kernel, `Semaphore` |
| `MCUserPrograms` | the programs for TLC | `UserPrograms` |
| `UserProgramsProofs` | theorems about `OpenFileTable` and `UserPrograms` | `UserPrograms` |

### Scheduler

Kernel code runs with interrupts disabled, so an action is the code between two points
where time passes or where `SWITCH` takes over; `phase` says which point it is. The user
code of the current thread is any sequence of instructions (`OneTick`), creations (`Exec`,
by main only, as `ExecAll` does), calls of V (`Wake`), calls of P that wait and of `Finish`
(`Sleep(FALSE)`, `Sleep(TRUE)`). `OneTick` advances the clock and leads to the handlers:
`TimerHandler` when the timer is due, `DeviceHandler(t)` for a device that wakes `t`, in
any order; `ReturnFromHandlers` yields if a handler asked for it. `Sleep` and `Yield` end
in `Run`, which leads to `switch`; `Resume` is what the next thread executes first, in
`Run` or in `Begin`. Then it enables interrupts, or, if it woke up in the loop of
`Semaphore::P` (`inP`) and the value is 0 again, it goes back to sleep with interrupts off and
no tick in between (phase `again`). `IdleTick` and `IdleDispatch` are the loop of `Sleep` on
`Interrupt::Idle`.

State that is a function of other state is not kept: `age` is `totalAgeTick` and the time
since `startAgeTick` together, `ran` is the time since `startTick`. A list is the set of
its members and the order "stands before", which lets the proofs go without induction over
sequences. Burst times are doubles in the code and rounded down here. `AgeCap` and
`BurstCap` bound the counters: ages and bursts saturate there.

### TSQueue and Pipeline

In `TSQueue` each statement another thread can see is a step; the mutex and the
condition variables are those of POSIX, with spurious wakeups and barging. `Filled`
corrects `size` for the statement between moving an index and updating the size.

In `Pipeline` a call of `enqueue` or `dequeue` is one action that is disabled while the
call has to wait, which is what `TSQueue` is shown to implement. `Check` reads the length
of the worker queue and `ScaleUp`, `ScaleDown` or `Keep` act on it later, when it may have
changed. The process stops when main returns (`Exited`).

### FileHeader, OpenFile and FileSystem

The routines of the file system read a bitmap, tables and headers from disk into memory,
change them there and write some of them back. `w` is a record of both: `map` is the bitmap in
memory, `onDisk` the one on disk, `content` the sectors, `aborted` whether an assertion ended
the kernel, `past` what the disk was after each write. Each operation of `FileSystem` is a
function of `w` that makes the same writes in the same order as the code; the action keeps
what reached the disk, so that an abort is followed by a restart with the disk as it was
written. The order matters: `RecursiveRemove` writes a table it read before the calls for the
subdirectories.

`ExitHarmsOnlyItsFile` is the crash model: it looks at every disk in `past`, of every
operation on every disk that can be reached. A write of one sector is atomic there; a table
or bitmap, which takes several sectors in the code, is one, so a table torn between two
sectors is not covered.

`OpenFile` has the bytes: `ReadAt` and `WriteAt` work on a buffer of whole sectors, into
which `WriteAt` first reads the sectors it changes in part (`Prepared`). The module knows the
headers only through `ByteToSector`, a constant that `FileSystem` replaces by the one of
`FileHeader`. `Laid` says what it needs of it: that it finds each block of the file, and that
each block is a sector of its own. The bytes are not a variable: `WritesChangeTheirBytes`
takes every open file on every disk that can be reached, looks whether it is `Laid` over its
blocks, gives each byte of the disk a value of its own, and compares each write with the
plain overwriting of a sequence (`BytesOf`), and each read with what was written.

The code's recursion is in three places, and has a bound in each. Headers are nested four
levels deep: `Allocate` and `Deallocate` are one operator per level (`Allocate3`,
`Allocate2`, `AllocateBlocks`), each with the same branch of the code (`AllocateOver`,
`DeallocateOver`) over its loop (`Turns4` with `NextSub4`, `Visits4` with `VisitSub4`), which
uses the level below; the calls of `ByteToSector` end where they return, so they are a walk
down (`Located`). A walk along a path is a function of how many names it went through (`Along`,
`OnPath`). `RecursiveRemove` calls itself for a path of one name more, and has room for
`PathMax` names: `Removal[d]` is a call with `d` levels left.

A sector holds a header, a directory's table or data, and keeps it when it is given back, until
something else is written there. So the window of `CreateDirectory` is in the model: it writes
header, parent and bitmap (`WrittenBack`) before the empty table, and after an exit in between
the new directory shows what a removed one left in that sector. The property says what is left
of "harms its own file only": entries may appear below the new directory, nowhere else. A
directory's table is its first sector. The bitmap's contents are the variable `map`; its file
has `FreeMapFileSize` bytes (262,144 in the code) and, as there, sub-headers. `Create` and `CreateDirectory`
of a path that goes on below a file are left out (`ThroughFile`): the code then reads the
file's bytes as a table.

### Semaphore, SynchDevice and PostOffice

`P` and `V` run with interrupts disabled, and interrupts come in again at the end of each,
in `SetLevel`. So an action is the code from one such point to the next: `Call` is
`lock->Acquire` up to the end of its `P`, `Request` is everything from there to the end of
the device semaphore's `P`, or to the sleep in it. A `P` that finds 0 leaves the caller on
the queue; `V` takes the front off the queue and increments the value, and the woken
thread goes through the loop of `P` again (`Acquire`, `Resume`), where a newcomer may have
been faster. `busy` is the request under way. `network.cc` asserts that `sendBusy` is
FALSE and never sets it, so there `busy` is the scheduled interrupt.

`PostOffice` has the actions of `SynchDevice` for the output side (`Send`, `Transmit`,
`LockAndWait`, `DeviceInterrupt`) and steps of its own for the input side.
`NetworkInterrupt` is the poll of the socket, which takes a packet only when `inHdr` is
empty; `TakePacket` is `NetworkInput::Receive`, which leaves the worker's buffer as it was
when there is none; a `SynchList` is a lock, a list and a condition variable whose
waiters sleep on semaphores of their own. A packet is a number and a mailbox.

### AddrSpace

An address is a word, the content of a word is the place in the file it was read from, or
`Stored(p)`, or `Zero`, which is enough to see any word that is somebody else's. The stub
file system of MP2 reads without letting time pass, so `Load` is one step, with the parts
`LoadData` reads: up to the end of the first page, whole pages, and one more. The segments
are contiguous from address 0 in the order code, read-only data, data, bss, as
`test/script` places them and `coff2noff` copies them. `Dispatch` is a context switch:
`RestoreState` runs at the end of `Scheduler::Run` in the thread that is switched to if
it ran before, and in `Execute` otherwise (part of `Load`). `MemoryLimit` and the faults
of `Store` end the kernel, as `exception.cc` does with every exception but system calls.
`Exit` gives no frame back: `~AddrSpace` would, and nobody calls it.

### OpenFileTable and UserPrograms

The stub file system of MP1 calls UNIX and lets no time pass, so each file system call is one
step. `OpenFileTable` has the state of the calls: the table, the descriptors UNIX gave out
(the lowest free one, as POSIX says) and the contents of the files, a byte being who wrote
it. A call that returns -1 changes nothing and is an `Instruction`. `OpenFiles` is what
`syscall.h:126-153` promises of `Open`, `Read`, `Write` and `Close`, with one table for all
programs: any of them may close what another opened. It leaves out the console identifiers 0
and 1 of `syscall.h:109-116`, which the code does not have (see the disagreements in section 4).

`UserPrograms` composes these calls with the kernel. Interrupts come in `OneTick` only, which
runs after each user instruction and where the kernel enables interrupts; an action is the
code of the current thread between two such points (`phase` "code"), one `OneTick` with the
handlers that are due and the `Yield` they ask for ("tick"), or one round of the idle loop
("idle"). When the timer's handler asks for a `Yield`, the thread keeps its old mode in
`interrupted` and the others run; when it is chosen again the `Yield` enables interrupts,
which is another `OneTick`, nested in the first; `ResumeTo` is the return from all of them.
`pending` holds the time to go of each interrupt in place of its absolute time. `Exit` is also the end of a program
whose `Load` fails. `PrintInt` takes the display's lock, sends a character, waits for its interrupt, and so on until the
number is out (`PutChar`, `Wait`, `ReleaseDisplay`).

## 3. Plan

Written, in this order: the scheduler, its abstract life cycle and its proofs; the thread-safe
queue and the pipeline over it; headers and the file system; the synchronized devices,
the post office above them and their proofs; the address spaces, their proofs and the
proof of their refinement; the open files of MP1 under interrupted user programs, with their
proofs; reads and writes of bytes and exits between writes in the file system; the proofs of
the queue and of its refinement, and of the scheduler's; the proofs of the pipeline, of the
input side of the post office and of the scheduler's history properties; the proofs of the
interrupts to come under user programs, of the refinement of `Mailboxes`, and of reads and
writes of bytes; the proofs that the file system keeps its disk sound, that a file is laid out
as it is read, and of what a `Remove` and a `Create` do to the tree.

What could come next: the tables of directories written sector by sector; as theorems, what
`RecursiveRemove`, and an operation that is cut short, promise of the tree (see the end of
section 5).

## 4. What the runs check

Every property is listed with a plausible bug in the code that breaks it under the same
configuration (`mutants` in `PROJECT.json`); the variants stand beside the definitions they
vary.

| run | question | bounds |
|---|---|---|
| `scheduler_safety` | Do lists, states, deletions and burst accounts stay right under every interleaving, and does the scheduler implement the life cycle? | main and two programs, one started in L3 and one in L1 if it so chooses |
| `scheduler_liveness` | Does ageing work however busy the machine is? | the same threads, a timer period of 2 ticks |
| `scheduler_starvation` | Does `Yield` put a thread where it "will eventually be re-scheduled"? No. | as above |
| `tsqueue` | Is the queue a bounded FIFO queue with calls that return, and is no wakeup lost? | two enqueuers, two dequeuers, two places, two items |
| `pipeline` | Is each line transformed once and written, and does the program end? | 4 lines, 2 producers, 2 consumers, thresholds of 2 |
| `pipeline_few_lines` | Does the program end when it has few lines? No. | 2 lines, thresholds of 2 |
| `file_system` | Do sectors have one owner, do failed operations leave no trace and removals free exactly theirs, does an exit harm one file only, do writes change their bytes only? | 16 sectors, files of one and two header levels, a bitmap file of two, directories of two entries, three levels of directories |
| `file_system_full_disk` | Does `Create` that returns TRUE give the file its size? No. | 17 sectors |
| `file_system_large_file` | Can each file that was created be removed? No. | 27 sectors, a file of three header levels |
| `post_office` | Are requests, callbacks, packets, signals and mails neither lost, doubled nor confused, and do calls return? | two senders, a worker, one box, two receivers, three mails |
| `address_spaces` | Do programs keep their own memory, and is the free-frame count right? | two programs, seven layouts and a missing file, 9 frames of 3 words |
| `user_programs` | Do modes, interrupts, descriptors and the display stay right under interruptions, do identifiers name files of their own, does every `PrintInt` return? | three programs, two files, a table of two entries, three descriptors, numbers of two characters, four calls |

Why the bounds are enough:

- *Scheduler.* Priorities keep the order of 0, 50, 100, 149 on the scale 0, 1, 2, and
  `AgeStep` is the distance from one queue to the next, so one step of ageing changes the
  queue; with three threads, two are on lists while one runs, and L1 can hold both. Main
  creates the others, as `ExecAll` does. Two timer periods and an ageing step fit under
  `AgeCap`, and a `BurstCap` of 3 lets the remaining burst reach 0 and the accounted burst exceed
  the estimate. Beyond the caps a value behaves as the cap does: ageing compares with the
  threshold only, SJF compares estimates.
- *TSQueue.* Two places let the indices wrap and let the buffer be full, half full and
  empty. One signal per operation goes wrong only when two threads wait on one condition
  while another overtakes them, which two threads on each side give.
- *Pipeline.* More lines than `HighThreshold`, so that the controller scales up; a worker
  queue one place longer than that, so that it is exceeded; the reader and the writer
  queue have one place, so that threads wait at both ends. `Consumer` has as many slots
  as the controller can have running at a time with these lengths.
- *File system.* `NumDirect` 2 and sectors of two bytes give a header level every factor of
  two (3 in the violation runs), a directory of two entries is full soon, 16 sectors hold the
  bitmap, the root, a file of two levels and a directory, and not another such file. In a sector
  of two bytes no write has both ends inside and off the border (the one-sector case of
  `openfile.cc:171`); `WritesAreExact` and `WritesStayInTheFile` hold for every size.
  `PathMax` stands for the 20 names `RecursiveRemove` has room for and is above the longest path
  here. The paths include one below a name that can be a file or a directory, and two siblings.
- *Post office.* Overtaking at a lock needs one thread asleep, one woken and a newcomer;
  two senders and the lock's release give it on the output side, worker and two receivers
  on the mailbox. Three mails keep one on the wire while one is in the device's buffer and
  one in the worker's hands. Mailboxes share nothing but the worker, which serves one at a
  time, so one box is checked; that a mail is received
  from its own box only follows for any number of boxes from `PostOfficeImplementsMailboxes`.
- *Address spaces.* With `PageSize` 3 the layouts have read-only data that is missing, ends
  on its first page, at the end of a page and after whole pages, and data that shares a page
  with it or begins a page. 9 frames hold some pairs and not others. `StoreCap` lets each
  program store once, or one of them twice; a store changes one word, and whose it is shows
  at once.

- *User programs.* Three programs are one that prints, one that waits for the lock and one
  that is in neither queue. A timer period of 4 with ticks of 1 and 2 and a display of 1 lets
  the two interrupts be due at one tick, in either order, or apart. Two entries make the
  table full, three descriptors are one more than that, which `Create` needs. `CallMax`
  counts the calls of all programs, instructions apart; four are enough for a file opened
  twice, written through one identifier and read through the other, for a table that is full,
  and for a lock with a holder, a sleeper and a newcomer. `LengthCap` lets a write extend a
  file.

A type invariant is run for the file system only. Those of the scheduler, the queue, the
devices, the address spaces and the open files are proved instead.

Deadlock is checked for the scheduler, the queue, the pipeline and the user programs, where
some thread or the clock can always go on (a pipeline that has ended stutters, and so does a
machine that was halted). It is not
checked for the file system (the checked operations may end in an abort), the post office
(no more mails and everybody waits: the system is idle) and the address spaces (programs
end, the kernel may be halted).

### Fairness

- *Scheduler*: `WF_vars(Next)`, the simulated machine goes on executing. Which program
  yields, sleeps or is woken is left open.
- *TSQueue*: the operating system runs some thread that is ready and gives a mutex that is
  free again and again to each thread that asks for it in the end (strong fairness of
  `Lock`). Condition variables have no fairness: a waiter may be overtaken.
- *Pipeline*: each thread goes on when it can, `usleep` ends. Calls of the queues are weakly
  fair per thread. When main has returned nothing is owed.
- *Post office*: NachOS threads that are ready are scheduled (a FIFO list with time
  slices), a request is followed by its interrupt, the network is polled again and again.
  Nobody has to call. The number of mails is finite (`MailCount`), and `EverySendReturns`
  needs that: a woken waiter finds the lock taken by a newcomer and goes to the end of the
  queue, so an endless supply of newcomers can keep it waiting.
- *User programs*: `WF_vars(Next)`, the simulated machine goes on executing; the FIFO ready
  list does the rest. The timer's delay is fixed there, as without `-rs`, and longer than
  `SystemTick`: with a delay within one `SystemTick` every `Yield` would end in a tick that
  asks for the next one. The number of calls is finite (`CallMax`), and `PrintReturns` needs
  that, as `EverySendReturns` does.
- *File system, address spaces*: none; only safety is checked.

### Disagreements found

`findings` in `PROJECT.json` quotes the lines. Each has a run whose counterexample shows it.

1. `scheduler_starvation`: `thread.cc:193-200` promises that a thread that yields is
   rescheduled in the end. In L1 the least remaining burst wins, and ageing has no effect
   there.
2. `pipeline_few_lines`: with no more lines than the high threshold the controller never
   creates a consumer, and the program never ends.
3. `file_system_full_disk`: `Allocate` counts data sectors and forgets the headers of the
   second level; `Create` returns TRUE for a file that lacks blocks.
4. `file_system_large_file`: `Deallocate` visits sub-headers that do not exist when a file
   has three levels or more, and aborts.

Known, and stated here and beside the property rather than in a run:

5. With a file `/a`, `Remove("/a/b")` removes `/a` and returns TRUE (`filesys.cc:392`), although
   `filesys.cc:353` promises "FALSE if the file wasn't in the file system". `RemoveFreesItsOwn`
   demands that what is removed is at the path given, and leaves out paths through a file.
6. `syscall.h:109-116` promises two open files when a program starts, `SysConsoleInput` (0) and
   `SysConsoleOutput` (1), which `Read` and `Write` can use, and `test/shell.c:7-23` relies on
   such a pair. In MP1 no identifier is 0, and 1 is what the first `Open` returns, so a program
   that writes to 1 writes to a file, or gets -1. `OpenFiles` has every identifier free at the
   start: that the table implements it says nothing of this promise, which the code breaks.

## 5. What is proved

The proofs hold for every value of the constants that satisfies the named assumptions.

**Scheduler** (`SchedulerProofs`), from `ThreadAssumption`, `PriorityAssumption` (the
thresholds are ordered and one step of ageing never skips a queue) and `TickAssumption`.
`Inv` is the conjunction of the type invariant and five properties; together they are
inductive and none of them is alone: a thread is taken from the list of its level only if
it is known to be on that list (`QueuedAtItsLevel`), `Run` puts a thread on the CPU that
is executable because the lists hold ready threads (`NoThreadLost`), the new carcass is
the thread that ran because no other carcass is left (`CarcassSafe`). The lists need lemmas
of their own: appending, removing and promoting several threads at once keep them disjoint
and totally ordered (`AppendedSound`, `RemovedSound`, `AgedListsSound`); then there is one
lemma per action. What follows is proved for every number of threads: types, that a
thread is on the list of its priority, that the lists are lists, that no ready thread is
lost, that a thread is destroyed once and by another one, and that the estimate SJF
compares is what is left of the burst. Under `Inv` each action maps to a step of
`ProcessLifecycle` or to a stutter (`SchedulerImplementsLifecycle`): it is `Inv` that says the
thread a step wakes or dispatches is in the state the life cycle wants.

A step with the history variables is a step of the scheduler by definition, so `Inv` holds with
them and two more invariants stand on it. `BurstInv` compares the truth with what the accounting knows:
`totalBurst` for a thread off the CPU, `totalBurst` and the current slice for the one on it;
a `Yield` to itself keeps the slice and only adds (`BurstsAreCovered`). `SliceInv` and
`InversionInv` say that an inversion began within the current slice, unless the timer's
handler has already asked for a yield: the handler asks for one whenever a better queue is not
empty after ageing (`TheTimerEndsInversions`), and a thread that `Yield` finds again has the
best queue (`AYieldEndsInversions`). `InversionsEndWithTheSlice` assumes fixed slices (no
`-rs`) and `UserTick <= SystemTick`; `stats.h` has 1 and 10.

**Thread-safe queue** (`TSQueueProofs`), from the named assumptions of `TSQueue`: any buffer
size, any finite sets of threads. `Inv` has the types and what the program counters say of
each other (`MutexInv`), where the items are while one is stored or fetched (`ItemInv`), and
that the indices differ by `size`, corrected for the statement that is under way
(`IndexInv`). Types and `IndicesStayTogether` follow. A second invariant, `WakeInv`, counts:
while threads sleep on a condition there are no more items (or places) than callers of that
side that are awake, and one more if a caller has taken its item and not counted it yet or
a signal is still to be sent. It needs the cardinality of the set of callers that are awake,
and it is what makes one signal per operation enough: `WakeupsAreNotLost`.
`QueueRefinesBoundedQueue` maps the moving of an index to `Put` and `Take`.

**Pipeline** (`PipelineProofs`), from `SizeAssumption`: any number of items, producers and
consumers, any sizes, a high threshold below the size of the worker queue. `PlaceInv` and
`OnceInv` say that the queues, the hands of the threads, the rest of the input and the output
hold each item exactly once; `StageInv` that an item is transformed as far as the place where
it is demands. From them follows `ItemsStayOnceInTheirStage`; `HandInv` ties a consumer's hand
to its program counter. `ListInv` is about the controller: its list has the consumers that are
not cancelled, each once, and is empty only before the first is created
(`ListHoldsTheRunning`, `AConsumerStays`). `NothingLeftAtExit` is a count: the writer returns
after as many items as there are, all different, so they are all of them, and no place is left
for another.

**User programs** (`UserProgramsProofs`), from `TableAssumption` and `ClockAssumption`.
`FileInv` (types, and an open descriptor of its own for each entry) is inductive for any call;
with it the table implements `OpenFiles` (`FilesImplementOpenFiles`), since a call on one
descriptor cannot change what another identifier stands for. `KernelInv` adds the kernel's
types; `ModeInv`, which says where each thread goes on for each value of the mode and of
`interrupted`; and the lock of the display: at most one thread is between its `P` and its
release, its value says whether there is one, and all characters after the last newline are
its own. The queues and the pending interrupts need not be exact for this; `PlacesInv` then
adds the queues: the ready list and those of the lock and the semaphore have no common member,
and together they hold the threads that have not finished, without the current one unless it
idles in its `Sleep`. It needs that the command line has each program once
(`ExecfileAssumption`). `ModesAreRight`, `NumbersStayWhole`, `ProgramsStayAround`,
`ProgramsDoNotLeak` and `ProgramsSeeOpenFiles` follow, for any number of programs, files,
entries and descriptors and any tick lengths.

`InterruptsInv` has the list of interrupts to come and the display. `PendingInv`: the list is
the timer's next interrupt alone, and the display's with it, in the order of their times,
exactly while the display is busy. `WaitForInv`: nobody waits and the display is idle; or
it is busy and one thread sleeps until it is done; or it is done and that thread is to find
the value 1. Each needs the other: a display that calls back wakes a sleeper because
`WaitForInv` has one, and a second request never finds the first under way because whoever
waits holds the lock. A handler that schedules while the list is looked through, and a tick
that reaches both interrupts at once, are the cases of the proof (`InterruptsStayRight`). All
these invariants together give the types (`UserProgramTypes`).

**Synchronized devices** (`PostOfficeProofs`), from `NobodyAssumption`. `DeviceInv` says

- of a lock: its value is 0 or 1, and 0 if a thread is inside; at most one is, and it is the
  holder while it waits for the callback and until it releases (`LockInv`);
- of a device's semaphore: value, queue and `busy` are determined by the thread inside: quiet
  before the request, then asleep or about to test while the request is under way, or rung
  and awake (`DoneInv`). Without this the semaphore might keep a signal for the next caller;
- of the lock's queue: its members are different threads in `Acquire`, and if the lock is
  free and the queue is not empty one thread in `Acquire` is awake (`QueueInv`). This is
  what is left of fairness when `V` wakes a thread and does not hand the value over.

From it: `OneRequestAtATime`, `CallBackAnswersItsRequest` and `NoSleeperForgotten`, for any
number of devices and callers.

**Post office** (`PostOfficeProofs`), from `PostAssumption`. Every step of the post office is
a step of its output device or leaves it alone, so `Spec => DeviceSpec`, and the three
properties hold there (`SendersAreServed`).

The input side has an invariant of its own, `InputInv`. `WorkerInv` relates the worker's
semaphore, the packet in the network and where the worker is (`TheWorkerFindsItsPacket`).
`MutexInv` is the mutual exclusion of a mailbox's lock. `WaitInv` says that a thread in the
queue of a mailbox's condition waits for that box, stands there once and has not been
signalled. `CountInv` counts: while that queue is not empty there are no more letters than
receivers in a call on the box that wait for no further signal. So a letter beside sleeping
waiters has a receiver that comes for it, although `Wait` joins the queue, releases the lock
and only then sleeps (`SignalsAreNotLost`). The count needs finitely many receivers.

`PostOfficeImplementsMailboxes`: every behaviour of the post office is one of `Mailboxes`
under its refinement mapping, in which a mailbox's queue is what lies in the box, then what
the worker holds, what is in the network's buffer and what is on the wire
(`OnTheWay`). Each transfer between two of these four places must leave the queue as it
is; only `Transmit` may lengthen it, and only `RemoveFront` shorten it. `MailsTo`, the mails
to one box in a list for all boxes, is a filtered sequence; it numbers the places that
qualify (`Nth`), so that its facts (`MailsToAppend`, `MailsToFront`) follow from
cardinalities (`RankOnto`, `NthAdded`, `NthMoved`) without induction. That a mail is sent
once needs one more invariant, `SendInv`: no two senders have the same one in hand. The
theorem is about `Abstract!Spec`; the fairness in `Abstract!FairSpec`, that a box with mail
and callers hands it out, is for TLC.

**Address spaces** (`AddrSpaceProofs`), from `SpaceAssumption`: a page is a positive number
of words, a layout is four segment sizes, and the stack is at least one page. The last is
needed: `LoadData` always reads on for one page after the whole pages of a segment, and
without a stack that page could lie beyond the table. `Inv` is `TypeOK`,
`FramesHaveOneOwner`, `LegalStoresSucceed` and `TablesInv`: a loaded program's table is as
long as the program needs, its read-only bits are exactly those of `ProtectedPages`, and the
machine translates through the table of the program that runs. `Load` numbers the free
frames, and this numbering is a bijection, so that no frame is taken twice or from another
program (`RankType`, `FrameOfIsFree`, `TakenFrames`); the pages it protects hold read-only
data and nothing else (`ProtectedPagesAreReadOnlyData`).

**Private memory** (in the same module): `AddrSpace` implements `PrivateMemory`, for any
number of programs, pages and frames. A virtual and a physical address determine each other as
long as frames have one owner (`PhysicalIsInjective`), so a store changes one word of one
program (`StoreIsPrivate`). `LoadData` cuts a segment into parts: each lies on one page
(`PartIsOnOnePage`) and together they are the segment (`PartsCoverSegment`), so what a program
sees after `Load` is its file and zeros elsewhere (`LoadIsPrivate`).

**Open file** (`FileHeaderProofs`): `WriteIsExact` for any sector size above 0, any file that
is `Laid` over some blocks, any bytes on the disk, any position and any bytes to write
(`WritesAreExact`, with `ReadReturnsTheBytes` for the reads). A byte of the file has one
place in the buffer of whole sectors (`PlaceIs`, from facts about division that the SMT solver
does not find, such as `DivUnique` and `SectorsApart`). A place gets a byte that is written
(`BufferTakes`), or keeps what `Prepared` read, which is needed in the first and the last sector
only and is right whether they are aligned, apart or one and the same (`PreparedIs`,
`BufferKeeps`). A sector is written from one index of the buffer because blocks differ
(`SectorIsBlock`), and sectors of other files have no index (`OthersUnchanged`).

That a file of `FileSystem` with all its blocks is `Laid` is `CompleteIsLaid`. A header in use has
sub-headers for exactly its shares (`Shares`), which the soundness below keeps. The call of
`ByteToSector` for a byte goes to the share that has it (`ShareOfByte`), and three calls arrive
(`ThreeCalls`). The sub-headers' blocks, joined in order (`Joined`), are the file's, because a
share is a number of whole sectors (`ShareInSectors`, `JoinedBlocks`); a level at a time
(`Level1Blocks` .. `Level4Blocks`). As many different sectors as there are blocks means each
block has its own. With the invariant below it follows that `WritesChangeTheirBytes` holds
(`WritesStayInTheFile`): what `FindPath` finds is a header in use (`FindPathIs`).

**File system** (`FileSystemProofs`), from `GeometryAssumption` and `TreeAssumption`: all sizes
are positive, a file has at most `NumDirect * Limit4` bytes (103,680,000; a longer one would
overflow the array of its header), a directory's file has at most `Limit2` bytes and so no
sub-headers, and the disk has room for the two files of a new one. `EachSectorOneOwner` and
`TypeOK` speak of the files found from the root; they follow from `Sound(c, M, H, D, Z)`, which
speaks of all headers in use at once: `H` are the sectors of these headers, `D` those of
directories, all in `M`, the sectors that are marked. No two places of headers in `H` name one
sector (`NoneShared`), a place names a header of `H` just when its own header has sub-headers
(`Names`), an entry leads to a header that no header names (`Top`) and no other entry leads to.
That files found from the root do not overlap follows, because a header that two files shared
would be named twice (`HeadersApart`, `OwnersApart`), and that a file is found once, because each
directory above it has one entry (`OneFilePerSector`).

`IInv` is `Consistent(content, map)`, that is, `Sound` for some `H` and `D`, unless a recursive
removal was cut short. The steps:

- `Level4Allocates` and `Level4Unmarks`, level by level: what `Allocate` takes was free, each
  sector once, even when sectors run out half-way; what `Deallocate` clears are blocks of the
  file, even when it visits the wrong number of sub-headers.
- `EntryRemoved` and `EntryAdded`: `Sound` is kept when an entry is taken away with its headers
  and any of its blocks, and when a file in sectors that were free gets an entry. `RemoveFile`,
  `Create` and `CreateDirectory` are one of these, or change nothing that is marked
  (`FileRemoved`, `MadeIsAdded`, `CreateIs`, `CreateDirectoryIs`).
- `WalkIs`, `ParentIs`: a walk follows a chain of directories from the root. No directory is on
  it twice, because the entry that leads back to it would be a second one.
- `RecursiveRemove` writes the table it read first after the calls for the directories in it, so
  a directory that is being emptied has entries of directories that are gone. `Z` are the
  directories that may have such entries (`Dangling`). `Going` relates the table in memory to
  the one on the disk after each turn of the loop: entries that are still to be looked at are on
  the disk as they were, the others are of directories that are gone or of ones that are still
  whole. What a call leaves alone (`Done`): the directories above it, but for its own
  entry. By induction on the levels that are left (`AllEmpty`). The same for a path that leads
  nowhere, for which the code empties the directory where the walk stops (`AllMiss`).

What one call promises of the whole tree is proved for `Remove` (`RemovalsFreeTheirOwn`) and
for `Create` (`CreatesAreAllOrNothing`).
That of `Remove` is for paths that do not go through a file. `EntriesIn` grows the files from the root, a level at a time, as often as there are tables;
`TreeIs` says what it finds: on a sound disk just the entries at the end of a way, a chain of
directories along the names of a path. No way is longer than there are tables, because no
directory is on it twice (`ChainIsShort`). `Remove` takes the entry at the end of one way; the
other ways are untouched unless they go through it (`AllElseFound`, `NothingElseFound`), so what
is left of the tree is what is not below the path (`TreeWithout`). A `Deallocate` that does not
abort gives back all data of its file (`DeallocateFrees`: of a file of more than `Limit3` bytes
it visits sub-headers the header has no room for, and aborts; of a smaller one it visits each),
and so `Remove` frees its header and its data, and that only (`FileGivesBack`): the sub-headers
stay marked.

`Create` adds the one entry of its file, at the path it was given (`TreeWith`), or changes
nothing that is marked. That the file then has all its blocks, if there was room for it, is
`AllocateFills`. It must be shown because `Allocate` looks at no result of the calls for its
sub-headers, so a file of which a sub-file found no sector would be created all the same.
`Needed` counts the sectors of a file, a level at a time, as the whole shares and the rest. After
each turn of the loop over the sub-headers, the clear sectors are fewer by what the
sub-files so far need, and the blocks so far are as many as their bytes fill (`Filling`,
`TurnFills`, `LoopFills`). A share is a number of whole sectors, so the blocks of the shares add
up to those of the file (`BlocksAdd`). Without room the theorem says nothing of the blocks: the
code may report success then, too.

Induction over numbers is had from well-founded sets of numbers (`LeastExists`, `Induction`),
without a lemma that takes an operator.

Only model-checked: liveness under fairness (ageing that reaches L1, calls that return, a
program that ends); and what the other operations of `FileSystem` promise of the whole tree:
`ExitHarmsOnlyItsFile`, `RecursiveRemoveFreesTheTree`.

## 6. What is not modelled

- *The open file of MP4*: the kernel keeps one pointer and a constant identifier
  (`kernel.cc:340-370`); a call after `Close` uses a deleted object, and nothing says what it
  should do.
- *Concurrent file operations*: `filesys.cc:33` excludes them. *Tables torn by an exit*
  between two of their sectors.
- *Paths below a file* (`ThroughFile`), except for `Remove`, where the outcome does not depend
  on the file's bytes. *`List`* changes nothing.
- *System calls of MP2*: the argument is used as an index of physical memory.
- *Console input*, the latency and the track buffer of the disk, statistics, option parsing,
  the MIPS instruction set, hash tables: no logic of the assignments.
- *Stacks, registers and `SWITCH`*: which thread runs next is modelled, how is not.
- *The rest of the tree.* Most of its lines are not logic of these programs: headers of the
  cross compiler (`bfd.h`, four copies), the instruction decoder of the simulator (four
  copies), self tests, and the base code of NachOS, which comes four times with few
  differences. Each part is modelled once, in the tree whose assignment is about it, and
  the map names those lines only.
- *The end of the pthread process*: `QuietAtExit` says that nothing is left in queues and hands
  when main returns; what the threads that still sleep or poll find in the dead objects on main's
  stack depends on the C library. *The data race of `get_size`*: an `int` is read in one access,
  and only the delay between reading it and acting on it is modelled.
- *Frames of finished programs* (MP2): `~Thread` does not delete the address space, so they stay
  taken; no property demands them back.
- *Transformations*: that an item went through one, not what it computes.
