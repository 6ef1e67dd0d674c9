----------------------------- MODULE PrivateMemory -----------------------------
(***************************************************************************)
(* What address spaces promise (userprog/noff.h, userprog/addrspace.h): a  *)
(* program starts with its segments at their addresses and zeros after     *)
(* them, and its memory changes by its own stores only.                    *)
(***************************************************************************)
EXTENDS Naturals

CONSTANTS Process, PageSize, UserStackSize, Zero, NoFile

VARIABLES
  layout,  \* the sizes of each program's segments
  memory   \* of each program, by virtual address; empty until it is loaded

vars == <<layout, memory>>

\* The words the file holds, the words of all segments, the whole memory.
InFile(l)   == l.code + l.rdata + l.data
Segments(l) == InFile(l) + l.bss
Size(l)     == PageSize * ((Segments(l) + UserStackSize + PageSize - 1) \div PageSize)

\* Word i of p's file, and what p stores, which is no word of the file.
FileWord(p, i) == <<p, i>>
Stored(p) == FileWord(p, InFile(layout[p]))

Image(p) ==
  [a \in 0 .. Size(layout[p]) - 1 |-> IF a < InFile(layout[p]) THEN FileWord(p, a) ELSE Zero]

\* A program may write its data, its bss and its stack.
MayWrite(l) == (l.code + l.rdata) .. (Size(l) - 1)

Load(p) ==
  /\ layout[p] # NoFile
  /\ memory[p] = <<>>
  /\ memory' = [memory EXCEPT ![p] = Image(p)]
  /\ UNCHANGED layout

Store(p, a) ==
  /\ a \in MayWrite(layout[p])
  /\ memory' = [memory EXCEPT ![p][a] = Stored(p)]
  /\ UNCHANGED layout

Init == memory = [p \in Process |-> <<>>]

Next == \E p \in Process : Load(p) \/ \E a \in DOMAIN memory[p] : Store(p, a)

Spec == Init /\ [][Next]_vars
===============================================================================
