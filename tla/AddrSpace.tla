------------------------------- MODULE AddrSpace -------------------------------
(***************************************************************************)
(* Address spaces of MP2: userprog/addrspace.cc, the frames the kernel     *)
(* keeps for them (threads/kernel.cc), and the machine that translates the *)
(* addresses of the current thread's program (machine/translate.cc).       *)
(*                                                                         *)
(* An address counts words; PageSize and UserStackSize are in words.  The  *)
(* stub file system reads without letting time pass, so Load is one step.  *)
(***************************************************************************)
EXTENDS Integers, FiniteSets

CONSTANTS
  Process,        \* a thread and the program it executes
  Main,           \* the main thread, which has no address space
  Layout,         \* the sizes of the segments a program may have
  NoFile,         \* the layout of a program whose file does not exist
  PageSize,
  NumPhysPages,
  UserStackSize,
  Zero,           \* a word that was never written
  StoreCap        \* bound: the words programs store to

ASSUME SpaceAssumption ==
  /\ PageSize \in Nat \ {0} /\ NumPhysPages \in Nat
  /\ UserStackSize \in Nat /\ PageSize <= UserStackSize
  /\ Layout \subseteq [code : Nat, rdata : Nat, data : Nat, bss : Nat]
  /\ Main \notin Process /\ NoFile \notin Layout

VARIABLES
  layout,        \* of each program
  usedPhysPage,  \* the frames in use
  numAvailPhysPage,
  pageTable,     \* of each process: the frames of its pages
  readOnly,      \* of each process: the pages with the readOnly bit
  mainMemory,
  status,        \* of each process
  current,       \* kernel->currentThread
  machineTable,  \* the process whose table is in machine->pageTable
  halted         \* the exception the kernel ended with

vars == <<layout, usedPhysPage, numAvailPhysPage, pageTable, readOnly, mainMemory,
          status, current, machineTable, halted>>

Frame == 0 .. NumPhysPages - 1
Free  == Frame \ usedPhysPage

Init ==
  /\ layout \in [Process -> Layout \cup {NoFile}]
  /\ usedPhysPage = {}
  /\ numAvailPhysPage = NumPhysPages
  /\ pageTable = [p \in Process |-> <<>>]
  /\ readOnly = [p \in Process |-> {}]
  /\ mainMemory = [a \in 0 .. NumPhysPages * PageSize - 1 |-> Zero]
  /\ status = [p \in Process |-> "new"]
  /\ current = Main
  /\ machineTable = Main
  /\ halted = "no"

-------------------------------------------------------------------------------
(* Programs and how they are loaded *)

\* The linker lays the segments out one after the other from address 0, and
\* coff2noff copies them to the file in that order: virtualAddr is the place in
\* the file, past the header, and the file ends before bss.
FileLength(l) == l.code + l.rdata + l.data

CodeSegment(l)     == [va |-> 0, size |-> l.code]
InitData(l)        == [va |-> l.code + l.rdata, size |-> l.data]
ReadonlyData(l)    == [va |-> l.code, size |-> l.rdata]

NumPages(l) ==
  (l.code + l.rdata + l.data + l.bss + UserStackSize + PageSize - 1) \div PageSize

Executable == {p \in Process : layout[p] # NoFile}

\* AddrSpace::Translate, once the page is found.
Physical(table, va) == table[va \div PageSize] * PageSize + (va % PageSize)

\* The parts a segment is read in: up to the end of its first page, whole pages,
\* and a page more, whatever is left of the segment.
FirstPart(seg) == PageSize - (((seg.va + PageSize - 1) % PageSize) + 1)

WholePages(seg) ==
  LET rest == seg.size - FirstPart(seg)
  IN  IF rest < PageSize THEN 0 ELSE rest \div PageSize

Parts(seg) ==
  LET second == seg.va + FirstPart(seg)
  IN  {[va |-> seg.va, size |-> FirstPart(seg)]}
      \cup {[va |-> second + k * PageSize, size |-> PageSize] : k \in 0 .. WholePages(seg)}

\* The memory after the parts of a segment of p's file are read into it; at the
\* end of the file less is read.
ReadIn(memory, p, table, seg) ==
  LET Hits(a) == {part \in Parts(seg) :
        LET from == Physical(table, part.va)
        IN  a \in from .. from + part.size - 1
            /\ part.va + (a - from) < FileLength(layout[p])}
  IN  [a \in DOMAIN memory |->
         IF Hits(a) = {} THEN memory[a]
         ELSE LET part == CHOOSE part \in Hits(a) : TRUE
              IN  <<p, part.va + (a - Physical(table, part.va))>>]

\* A variant used as a mutant of ProtectedPages: every page the segment touches.
ProtectedPagesAll(seg) == {(part.va) \div PageSize : part \in Parts(seg)}

\* The pages that get the readOnly bit: those the segment fills.
ProtectedPages(seg) ==
  {(seg.va + FirstPart(seg)) \div PageSize + k : k \in 0 .. WholePages(seg) - 1}

LoadData(memory, p, table, seg) ==
  IF seg.size = 0 THEN memory ELSE ReadIn(memory, p, table, seg)

\* Every part has a page, or Translate fails and the kernel ends.
HasPages(seg, n) == seg.size = 0 \/ \A part \in Parts(seg) : part.va \div PageSize < n

-------------------------------------------------------------------------------
(* Threads *)

\* A variant used as a mutant of Dispatch: RestoreState is forgotten.
DispatchOnly(p) ==
  /\ halted = "no"
  /\ status[p] # "done" /\ current # p
  /\ current' = p
  /\ status' = [status EXCEPT ![p] = IF @ = "new" THEN "begun" ELSE @]
  /\ UNCHANGED <<layout, usedPhysPage, numAvailPhysPage, pageTable, readOnly, mainMemory,
                 machineTable, halted>>

\* Scheduler::Run to p: RestoreState at the end of the call p made, or Begin.
Dispatch(p) ==
  /\ halted = "no"
  /\ status[p] # "done" /\ current # p
  /\ current' = p
  /\ status' = [status EXCEPT ![p] = IF @ = "new" THEN "begun" ELSE @]
  /\ machineTable' = IF status[p] = "new" THEN machineTable ELSE p
  /\ UNCHANGED <<layout, usedPhysPage, numAvailPhysPage, pageTable, readOnly, mainMemory,
                 halted>>

\* ForkExecute without an executable: the thread finishes.
LoadFails(p) ==
  /\ halted = "no"
  /\ current = p /\ status[p] = "begun"
  /\ layout[p] = NoFile
  /\ status' = [status EXCEPT ![p] = "done"]
  /\ UNCHANGED <<layout, usedPhysPage, numAvailPhysPage, pageTable, readOnly, mainMemory,
                 current, machineTable, halted>>

\* AddrSpace::Load raises MemoryLimitException, which ends the kernel.
MemoryLimit(p) ==
  /\ halted = "no"
  /\ current = p /\ status[p] = "begun"
  /\ NumPages(layout[p]) > numAvailPhysPage
  /\ halted' = "MemoryLimitException"
  /\ UNCHANGED <<layout, usedPhysPage, numAvailPhysPage, pageTable, readOnly, mainMemory,
                 status, current, machineTable>>

\* The frame taken for page i: the i-th free one.
FrameOf(i) == CHOOSE f \in Free : Cardinality({g \in Free : g < f}) = i

\* A variant used as a mutant of MarkUsed: the frames are not marked.
MarkNothing(table) == UNCHANGED usedPhysPage

MarkUsed(table) == usedPhysPage' = usedPhysPage \cup {table[i] : i \in DOMAIN table}

\* ForkExecute: Load, and Execute with RestoreState.
Load(p) ==
  LET l == layout[p]
      n == NumPages(l)
      table == [i \in 0 .. n - 1 |-> FrameOf(i)]
      zeroed == [a \in DOMAIN mainMemory |->
                   IF \E i \in DOMAIN table : a \div PageSize = table[i]
                   THEN Zero ELSE mainMemory[a]]
      withCode == LoadData(zeroed, p, table, CodeSegment(l))
      withData == LoadData(withCode, p, table, InitData(l))
  IN  /\ halted = "no"
      /\ current = p /\ status[p] = "begun"
      /\ n <= numAvailPhysPage
      /\ pageTable' = [pageTable EXCEPT ![p] = table]
      /\ MarkUsed(table)
      /\ numAvailPhysPage' = numAvailPhysPage - n
      /\ IF \A seg \in {CodeSegment(l), InitData(l), ReadonlyData(l)} : HasPages(seg, n)
         THEN /\ mainMemory' = LoadData(withData, p, table, ReadonlyData(l))
              /\ readOnly' = [readOnly EXCEPT ![p] = ProtectedPages(ReadonlyData(l))]
              /\ status' = [status EXCEPT ![p] = "running"]
              /\ machineTable' = p
              /\ UNCHANGED halted
         ELSE /\ halted' = "AddressErrorException"
              /\ UNCHANGED <<mainMemory, readOnly, status, machineTable>>
      /\ UNCHANGED <<layout, current>>

\* What a program may write: data, bss and stack.
MayWrite(l) == (l.code + l.rdata) .. (NumPages(l) * PageSize - 1)

Stored(p) == <<p, FileLength(layout[p])>>

WordsStored ==
  {a \in DOMAIN mainMemory : \E p \in Executable : mainMemory[a] = Stored(p)}

\* Machine::WriteMem through Machine::Translate.
Store(p, va) ==
  LET table == pageTable[machineTable]
      page  == va \div PageSize
  IN  /\ halted = "no"
      /\ current = p /\ status[p] = "running"
      /\ va \in MayWrite(layout[p])
      /\ Cardinality(WordsStored) < StoreCap
      /\ IF page \notin DOMAIN table
         THEN halted' = "AddressErrorException" /\ UNCHANGED mainMemory
         ELSE IF page \in readOnly[machineTable]
         THEN halted' = "ReadOnlyException" /\ UNCHANGED mainMemory
         ELSE mainMemory' = [mainMemory EXCEPT ![Physical(table, va)] = Stored(p)]
              /\ UNCHANGED halted
      /\ UNCHANGED <<layout, usedPhysPage, numAvailPhysPage, pageTable, readOnly, status,
                     current, machineTable>>

\* Thread::Finish.  Nobody deletes the address space.
Exit(p) ==
  /\ halted = "no"
  /\ current = p /\ status[p] = "running"
  /\ status' = [status EXCEPT ![p] = "done"]
  /\ UNCHANGED <<layout, usedPhysPage, numAvailPhysPage, pageTable, readOnly, mainMemory,
                 current, machineTable, halted>>

Next ==
  \/ \E p \in Process : Dispatch(p) \/ LoadFails(p)
  \/ \E p \in Executable :
       \/ Load(p) \/ MemoryLimit(p) \/ Exit(p)
       \/ \E va \in MayWrite(layout[p]) : Store(p, va)

Spec == Init /\ [][Next]_vars

-------------------------------------------------------------------------------
Word == {Zero} \cup UNION {{p} \X (0 .. FileLength(layout[p])) : p \in Executable}

TypeOK ==
  /\ layout \in [Process -> Layout \cup {NoFile}]
  /\ usedPhysPage \subseteq Frame
  /\ numAvailPhysPage \in 0 .. NumPhysPages
  /\ \A p \in Process :
       /\ \A i \in DOMAIN pageTable[p] : pageTable[p][i] \in Frame
       /\ readOnly[p] \subseteq DOMAIN pageTable[p]
  /\ mainMemory \in [0 .. NumPhysPages * PageSize - 1 -> Word]
  /\ status \in [Process -> {"new", "begun", "running", "done"}]
  /\ {current, machineTable} \subseteq Process \cup {Main}
  /\ halted \in {"no", "MemoryLimitException", "AddressErrorException", "ReadOnlyException"}

(***************************************************************************)
(* Each frame is a page of one process at most, once, a frame is in use if *)
(* it is a page, and numAvailPhysPage, which decides whether a program may *)
(* be loaded, is the number of frames that are not (AddrSpace::Load).      *)
(***************************************************************************)
FramesHaveOneOwner ==
  /\ numAvailPhysPage = Cardinality(Free)
  /\ \A p \in Process : \A i \in DOMAIN pageTable[p] : pageTable[p][i] \in usedPhysPage
  /\ \A p, q \in Process : \A i \in DOMAIN pageTable[p], j \in DOMAIN pageTable[q] :
       pageTable[p][i] = pageTable[q][j] => p = q /\ i = j

(***************************************************************************)
(* A program is not killed for a store to its own data, bss or stack: the  *)
(* page table is long enough, and a page is read-only only if all of it is *)
(* read-only data (AddrSpace::LoadData, Machine::Translate).               *)
(***************************************************************************)
LegalStoresSucceed == halted \in {"no", "MemoryLimitException"}

\* The memory of each process through its page table.
MemoryOf(p) ==
  IF status[p] \in {"new", "begun"} THEN <<>>
  ELSE [va \in 0 .. Cardinality(DOMAIN pageTable[p]) * PageSize - 1 |->
          mainMemory[Physical(pageTable[p], va)]]

Private == INSTANCE PrivateMemory WITH memory <- [p \in Process |-> MemoryOf(p)]

\* A loaded program finds its segments where the linker put them and zeros
\* after them, and its memory changes by its own stores only, whoever runs in
\* between (AddrSpace::LoadData, AddrSpace::RestoreState).
ImplementsPrivateMemory == Private!Spec
===============================================================================
