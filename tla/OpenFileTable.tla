----------------------------- MODULE OpenFileTable -----------------------------
(***************************************************************************)
(* The open files of MP1: FileSystem::OpenFileTable of filesys/filesys.h   *)
(* and the stub OpenFile of filesys/openfile.h, over the files of UNIX     *)
(* (lib/sysdep.cc).  A system call of a user program runs to its end       *)
(* without an interrupt, so each is one step.  An OpenFile is the UNIX     *)
(* descriptor it was constructed with and its currentOffset; it seeks      *)
(* before each transfer, so the position UNIX keeps is not told apart.     *)
(***************************************************************************)
EXTENDS Integers, Sequences

CONSTANTS
  Name,        \* of files
  Program,     \* the user programs; a byte is told apart by who wrote it
  Size,        \* the sizes given to Read and Write
  NumFiles,    \* 20
  Descriptor,  \* the file descriptors UNIX lets NachOS have
  NULL,        \* a free entry, a descriptor that is not open, a file that is not there
  LengthCap    \* bound: no call makes a file longer

ASSUME TableAssumption ==
  /\ NumFiles \in Nat /\ LengthCap \in Nat
  /\ Descriptor \subseteq Nat /\ Size \subseteq Int
  /\ NULL \notin Name
  /\ NULL \notin [file : Nat, currentOffset : Nat] \cup [name : Name, position : Nat]
  /\ NULL \notin Seq(Program \cup {"zero"})

VARIABLES
  OpenFileTable,  \* the entry of each identifier: the index in the array, plus 1
  descriptor,     \* the name each UNIX descriptor is open for
  contents        \* of each file

fileVars == <<OpenFileTable, descriptor, contents>>

Id == 1 .. NumFiles
Zero == "zero"  \* a byte nobody wrote

FileInit ==
  /\ OpenFileTable = [i \in Id |-> NULL]
  /\ descriptor = [d \in Descriptor |-> NULL]
  /\ contents \in [Name -> {NULL, <<Zero>>}]

-------------------------------------------------------------------------------
(* UNIX *)

\* open returns the lowest descriptor that is free; this is the set of it.
NextDescriptor ==
  LET free == {d \in Descriptor : descriptor[d] = NULL}
  IN  {d \in free : \A e \in free : d <= e}

Longer(c, n) == IF n > Len(c) THEN n ELSE Len(c)

\* Lseek and WriteFile: n bytes of w from position p on, and a hole before them.
Written(c, p, w, n) ==
  IF n = 0 THEN c
  ELSE [i \in 1 .. Longer(c, p + n) |->
          IF i \in p + 1 .. p + n THEN w ELSE IF i <= Len(c) THEN c[i] ELSE Zero]

\* Lseek and ReadPartial: how many of n bytes are there from position p on.
NumRead(c, p, n) == IF p + n <= Len(c) THEN n ELSE IF p < Len(c) THEN Len(c) - p ELSE 0

-------------------------------------------------------------------------------
(* The system calls.  Those that return -1 change nothing. *)

\* The first NULL entry, the set of it.
FreeEntry ==
  LET free == {i \in Id : OpenFileTable[i] = NULL}
  IN  {i \in free : \A j \in free : i <= j}

\* A call with this identifier and size goes on to the file.
Valid(id) == id \in Id /\ OpenFileTable[id] # NULL

NameOf(id) == descriptor[OpenFileTable[id].file]

\* OpenForWrite asserts that there is a descriptor, truncates the file or makes
\* it, and the descriptor is closed again.
Create(n) ==
  /\ NextDescriptor # {}
  /\ contents' = [contents EXCEPT ![n] = <<>>]
  /\ UNCHANGED <<OpenFileTable, descriptor>>

\* A variant used as a mutant of OpenAFile: without "delete file".
OpenAFileLeaks(n) ==
  /\ contents[n] # NULL
  /\ \E d \in NextDescriptor :
       /\ descriptor' = [descriptor EXCEPT ![d] = n]
       /\ OpenFileTable' = [i \in Id |-> IF i \in FreeEntry
                              THEN [file |-> d, currentOffset |-> 0] ELSE OpenFileTable[i]]
  /\ UNCHANGED contents

\* When the table is full the file is opened and closed again.
OpenAFile(n) ==
  /\ contents[n] # NULL
  /\ \E d \in NextDescriptor, i \in FreeEntry :
       /\ OpenFileTable' = [OpenFileTable EXCEPT ![i] = [file |-> d, currentOffset |-> 0]]
       /\ descriptor' = [descriptor EXCEPT ![d] = n]
  /\ UNCHANGED contents

\* A variant used as a mutant of WriteFile: the file's end is the position.
WriteFileAtEnd(w, size, id) ==
  /\ Valid(id) /\ size >= 0
  /\ LET p == Len(contents[NameOf(id)])
     IN  /\ p + size <= LengthCap
         /\ contents' = [contents EXCEPT ![NameOf(id)] = Written(@, p, w, size)]
  /\ OpenFileTable' = [OpenFileTable EXCEPT ![id].currentOffset = @ + size]
  /\ UNCHANGED descriptor

WriteFile(w, size, id) ==
  /\ Valid(id) /\ size >= 0
  /\ LET p == OpenFileTable[id].currentOffset
     IN  /\ p + size <= LengthCap
         /\ contents' = [contents EXCEPT ![NameOf(id)] = Written(@, p, w, size)]
         /\ OpenFileTable' = [OpenFileTable EXCEPT ![id].currentOffset = p + size]
  /\ UNCHANGED descriptor

ReadFile(size, id) ==
  /\ Valid(id) /\ size >= 0
  /\ OpenFileTable' = [OpenFileTable EXCEPT ![id].currentOffset =
                         @ + NumRead(contents[NameOf(id)], @, size)]
  /\ UNCHANGED <<descriptor, contents>>

CloseFile(id) ==
  /\ Valid(id)
  /\ descriptor' = [descriptor EXCEPT ![OpenFileTable[id].file] = NULL]
  /\ OpenFileTable' = [OpenFileTable EXCEPT ![id] = NULL]
  /\ UNCHANGED contents

\* The calls of one program that have an effect.
FileCall(w) ==
  \/ \E n \in Name : Create(n) \/ OpenAFile(n)
  \/ \E id \in Id, size \in Size : WriteFile(w, size, id) \/ ReadFile(size, id)
  \/ \E id \in Id : CloseFile(id)

FileSpec == FileInit /\ [][\E w \in Program : FileCall(w)]_fileVars

-------------------------------------------------------------------------------
FileTypeOK ==
  /\ OpenFileTable \in [Id -> [file : Descriptor, currentOffset : Nat] \cup {NULL}]
  /\ descriptor \in [Descriptor -> Name \cup {NULL}]
  /\ contents \in [Name -> Seq(Program \cup {Zero}) \cup {NULL}]

\* Every entry has a descriptor of its own, which is open, and no other one is:
\* with one more descriptor than entries, OpenForWrite's assertion never fails.
NoDescriptorLeak ==
  /\ \A i, j \in {i \in Id : OpenFileTable[i] # NULL} :
       OpenFileTable[i].file = OpenFileTable[j].file => i = j
  /\ \A d \in Descriptor :
       descriptor[d] # NULL <=>
         \E i \in Id : OpenFileTable[i] # NULL /\ OpenFileTable[i].file = d

-------------------------------------------------------------------------------
\* What an identifier stands for, as OpenFiles sees it.
handle ==
  [i \in Id |-> IF OpenFileTable[i] = NULL THEN NULL
                ELSE [name |-> NameOf(i), position |-> OpenFileTable[i].currentOffset]]

Abstract == INSTANCE OpenFiles WITH Writer <- Program, NoFile <- NULL

\* An identifier stands for one file and a position of its own from the Open that
\* returned it until the next Close of it, by whichever program; the calls with
\* other identifiers, and Create, do not change that, and a transfer moves its
\* position by what was transferred.  Nothing is said of the console, which
\* syscall.h:109 has open as 0 and 1: see OpenFiles.
ImplementsOpenFiles == Abstract!Spec
===============================================================================
