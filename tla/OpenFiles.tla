------------------------------- MODULE OpenFiles -------------------------------
(***************************************************************************)
(* What the calls Open, Read, Write and Close of MP1 give the user         *)
(* programs, all of which share one table (userprog/syscall.h:126-153):    *)
(* Open gives an identifier for the file, which then stands for that file  *)
(* and for a position of its own in it, until some program, not            *)
(* necessarily the one that opened it, calls Close with it; Read and Write *)
(* work at this position and move it; what is written is seen by everybody *)
(* who has the file open.                                                  *)
(*                                                                         *)
(* This is less than syscall.h says.  Its lines 109-116 have two more      *)
(* files open when a program starts, SysConsoleInput (0) and               *)
(* SysConsoleOutput (1), as test/shell.c uses them.  The code has neither: *)
(* 0 is never an identifier, and 1 is not open before Open returns it for  *)
(* a file, as the first that is free.  So no identifier is open in Init.   *)
(***************************************************************************)
EXTENDS Integers, Sequences

CONSTANTS
  Name,      \* of files
  Writer,    \* who writes a byte
  Size,      \* the sizes given to Read and Write
  NumFiles,  \* 20: how many files can be open at a time
  NoFile     \* the contents of a file that does not exist, an identifier of none

VARIABLES
  handle,    \* what each identifier stands for
  contents   \* of each file, a byte told apart by who wrote it

Id == 1 .. NumFiles
Zero == "zero"  \* a byte nobody wrote

At(n, p) == [name |-> n, position |-> p]

\* The sequence c after n bytes of w were put at position p, from 0.
Overwritten(c, p, w, n) ==
  IF n = 0 THEN c
  ELSE [i \in 1 .. (IF p + n > Len(c) THEN p + n ELSE Len(c)) |->
          IF i > p /\ i <= p + n THEN w ELSE IF i <= Len(c) THEN c[i] ELSE Zero]

\* How many of n bytes from position p there are in c.
Available(c, p, n) ==
  IF p >= Len(c) THEN 0 ELSE IF p + n > Len(c) THEN Len(c) - p ELSE n

Init ==
  /\ handle = [i \in Id |-> NoFile]
  /\ contents \in [Name -> {NoFile, <<Zero>>}]

Create(n) == contents' = [contents EXCEPT ![n] = <<>>] /\ UNCHANGED handle

Open(n, i) ==
  /\ contents[n] # NoFile /\ handle[i] = NoFile
  /\ handle' = [handle EXCEPT ![i] = At(n, 0)]
  /\ UNCHANGED contents

Write(w, n, i) ==
  /\ handle[i] # NoFile /\ n >= 0
  /\ contents' = [contents EXCEPT ![handle[i].name] =
                    Overwritten(@, handle[i].position, w, n)]
  /\ handle' = [handle EXCEPT ![i].position = @ + n]

Read(n, i) ==
  /\ handle[i] # NoFile /\ n >= 0
  /\ handle' = [handle EXCEPT ![i].position =
                  @ + Available(contents[handle[i].name], @, n)]
  /\ UNCHANGED contents

Close(i) ==
  /\ handle[i] # NoFile
  /\ handle' = [handle EXCEPT ![i] = NoFile]
  /\ UNCHANGED contents

Next ==
  \/ \E n \in Name : Create(n) \/ \E i \in Id : Open(n, i)
  \/ \E i \in Id, n \in Size : Read(n, i) \/ \E w \in Writer : Write(w, n, i)
  \/ \E i \in Id : Close(i)

Spec == Init /\ [][Next]_<<handle, contents>>
===============================================================================
