------------------------------ MODULE FileHeader ------------------------------
(***************************************************************************)
(* FileHeader of NachOS/filesys/filehdr.cc with its nested headers: how    *)
(* sectors are allocated to a file, given back, and found.  A header has   *)
(* NumDirect sector numbers; those of a larger file are the sectors of     *)
(* sub-headers, each for a fixed share of it, up to four levels.           *)
(*                                                                         *)
(* The code works on w: the bitmap it holds in memory, the disk, whether   *)
(* an assertion aborted the kernel, after which nothing happens, and what  *)
(* the disk was after each write, which an exit in between would leave.    *)
(***************************************************************************)
EXTENDS Integers, Sequences, FiniteSets
Seqs == INSTANCE SequencesExt

CONSTANTS
  NumDirect,   \* 30: sector numbers in a header
  SectorSize,  \* 128
  NumSectors   \* sectors on the disk

ASSUME GeometryAssumption == {NumDirect, SectorSize, NumSectors} \subseteq Nat \ {0}

Sector == 0 .. NumSectors - 1
Direct == 0 .. NumDirect - 1
Limit2 == NumDirect * SectorSize
Limit3 == NumDirect * NumDirect * SectorSize
Limit4 == NumDirect * NumDirect * NumDirect * SectorSize

DivRoundUp(a, b) == (a + b - 1) \div b

\* What each sub-header stands for in the header of a file of more than Limit2.
Share(size) == IF size > Limit4 THEN Limit4 ELSE IF size > Limit3 THEN Limit3 ELSE Limit2

NewHeader(size) ==
  [kind |-> "header", numBytes |-> size, numSectors |-> DivRoundUp(size, SectorSize),
   dataSectors |-> [i \in Direct |-> -1]]

Abort(w) == [w EXCEPT !.aborted = TRUE]

\* A write has reached the disk.
Flushed(w) ==
  [w EXCEPT !.past = Append(@, [onDisk |-> w.onDisk, content |-> w.content])]

\* SynchDisk::WriteSector; the disk asserts that the sector exists.
WriteSector(w, s, c) ==
  IF w.aborted THEN w ELSE IF s \notin Sector THEN Abort(w)
  ELSE Flushed([w EXCEPT !.content[s] = c])

\* Bitmap::NumClear
Free(w) == Sector \ w.map
NumClear(w) == Cardinality(Free(w))

\* Bitmap::FindAndSet: the sector found, -1 if none is free; and its mark.
FindAndSet(w) ==
  IF Free(w) = {} THEN -1 ELSE CHOOSE s \in Free(w) : \A t \in Free(w) : s <= t
MarkedNot(w, s) == w
Marked(w, s) == [w EXCEPT !.map = @ \cup ({s} \cap Sector)]

\* What FindAndSet finds when it is called again, after i times.
FoundAfter(w, i) == CHOOSE s \in Free(w) : Cardinality({t \in Free(w) : t < s}) = i

-------------------------------------------------------------------------------
(***************************************************************************)
(* FileHeader::Allocate on a fresh header: the header, the state of the    *)
(* disk and map, and the returned value.  Sub-headers are written at once; *)
(* whether their own Allocate succeeded is not asked.  The code calls      *)
(* itself for them, four levels deep: each level here uses the one below.  *)
(***************************************************************************)
Enough(w, size) == NumClear(w) >= DivRoundUp(size, SectorSize)
NotAllocated(w, size) == [w |-> w, header |-> NewHeader(size), ok |-> FALSE]

AllocateBlocks(w, size) ==
  LET n == DivRoundUp(size, SectorSize)
  IN  IF ~Enough(w, size) THEN NotAllocated(w, size)
      ELSE [w |-> [w EXCEPT !.map = @ \cup {FoundAfter(w, i) : i \in 0 .. n - 1}],
            header |-> [NewHeader(size) EXCEPT !.dataSectors =
                         [i \in Direct |-> IF i < n THEN FoundAfter(w, i) ELSE -1]],
            ok |-> TRUE]

\* The loop over the sub-headers: how many there are, the bytes of number i, the
\* first turn, and what a turn makes of sub, allocated for the header in sector s.
SubHeaders(size) == DivRoundUp(size, Share(size))
SubSize(size, i) ==
  IF size - i * Share(size) > Share(size) THEN Share(size) ELSE size - i * Share(size)

FirstTurn(w, size) == [w |-> w, header |-> NewHeader(size), ok |-> TRUE]
Turned(a, i, s, sub) ==
  IF a.w.aborted THEN a
  ELSE [w |-> WriteSector(sub.w, s, sub.header),
        header |-> [a.header EXCEPT !.dataSectors[i] = s], ok |-> TRUE]

\* A free sector is found and marked for a sub-header.
ForHeader(w) == Marked(w, FindAndSet(w))

AllocateOver(turns, w, size) ==
  IF size <= Limit2 THEN AllocateBlocks(w, size)
  ELSE IF ~Enough(w, size) THEN NotAllocated(w, size) ELSE turns[SubHeaders(size)]

NextSub2(a, i, size) ==
  Turned(a, i, FindAndSet(a.w), AllocateBlocks(ForHeader(a.w), SubSize(size, i)))
Turns2(w, size) ==
  LET after[i \in 0 .. SubHeaders(size)] ==
        IF i = 0 THEN FirstTurn(w, size) ELSE NextSub2(after[i - 1], i - 1, size)
  IN  after
Allocate2(w, size) == AllocateOver(Turns2(w, size), w, size)

NextSub3(a, i, size) ==
  Turned(a, i, FindAndSet(a.w), Allocate2(ForHeader(a.w), SubSize(size, i)))
Turns3(w, size) ==
  LET after[i \in 0 .. SubHeaders(size)] ==
        IF i = 0 THEN FirstTurn(w, size) ELSE NextSub3(after[i - 1], i - 1, size)
  IN  after
Allocate3(w, size) == AllocateOver(Turns3(w, size), w, size)

NextSub4(a, i, size) ==
  Turned(a, i, FindAndSet(a.w), Allocate3(ForHeader(a.w), SubSize(size, i)))
Turns4(w, size) ==
  LET after[i \in 0 .. SubHeaders(size)] ==
        IF i = 0 THEN FirstTurn(w, size) ELSE NextSub4(after[i - 1], i - 1, size)
  IN  after
Allocate(w, size) == AllocateOver(Turns4(w, size), w, size)

(***************************************************************************)
(* FileHeader::Deallocate: the sub-headers it visits are as many as if     *)
(* each stood for NumDirect sectors; their own sectors are not cleared.    *)
(***************************************************************************)
DeallocateBlocks(w, h) ==
  LET mine == {h.dataSectors[i] : i \in 0 .. h.numSectors - 1}
  IN  IF mine \subseteq w.map THEN [w EXCEPT !.map = @ \ mine] ELSE Abort(w)

Visits(h) == DivRoundUp(h.numSectors, NumDirect)
SubHeader(w, h, i) == w.content[h.dataSectors[i]]
Visited(w, h, i, v) ==
  IF w.aborted THEN w
  ELSE IF i \notin Direct \/ h.dataSectors[i] \notin Sector THEN Abort(w) ELSE v

DeallocateOver(visits, w, h) ==
  IF h.numBytes <= Limit2 THEN DeallocateBlocks(w, h) ELSE visits[Visits(h)]

VisitSub2(w, h, i) == Visited(w, h, i, DeallocateBlocks(w, SubHeader(w, h, i)))
Visits2(w, h) ==
  LET after[i \in 0 .. Visits(h)] ==
        IF i = 0 THEN w ELSE VisitSub2(after[i - 1], h, i - 1)
  IN  after
Deallocate2(w, h) == DeallocateOver(Visits2(w, h), w, h)

VisitSub3(w, h, i) == Visited(w, h, i, Deallocate2(w, SubHeader(w, h, i)))
Visits3(w, h) ==
  LET after[i \in 0 .. Visits(h)] ==
        IF i = 0 THEN w ELSE VisitSub3(after[i - 1], h, i - 1)
  IN  after
Deallocate3(w, h) == DeallocateOver(Visits3(w, h), w, h)

VisitSub4(w, h, i) == Visited(w, h, i, Deallocate3(w, SubHeader(w, h, i)))
Visits4(w, h) ==
  LET after[i \in 0 .. Visits(h)] ==
        IF i = 0 THEN w ELSE VisitSub4(after[i - 1], h, i - 1)
  IN  after
Deallocate(w, h) == DeallocateOver(Visits4(w, h), w, h)

\* FileHeader::ByteToSector: the call for the sub-header in sector s, and where
\* the calls get to.  They lack a return statement: in the unoptimised build of
\* build.linux their value is the one returned.
Into(content, f, s) ==
  IF f.header.numBytes <= Limit2 \/ ~f.found THEN f
  ELSE IF s \notin Sector THEN [f EXCEPT !.found = FALSE]
  ELSE [f EXCEPT !.header = content[s], !.offset = @ % Share(f.header.numBytes)]

Located(content, h, offset) ==
  LET level[l \in 0 .. 3] ==
        IF l = 0 THEN [header |-> h, offset |-> offset, found |-> TRUE]
        ELSE LET f == level[l - 1]
             IN  Into(content, f, f.header.dataSectors[f.offset \div Share(f.header.numBytes)])
  IN  level[3]

Block(f) == IF f.found THEN f.header.dataSectors[f.offset \div SectorSize] ELSE -1
ByteToSector(content, h, offset) == Block(Located(content, h, offset))

-------------------------------------------------------------------------------
(* What the definitions above are compared with. *)

\* The sub-headers of h, and how many of them there are; the numbers of its
\* dataSectors that are in use.
Children(h) == IF h.numBytes > Limit2 THEN DivRoundUp(h.numBytes, Share(h.numBytes)) ELSE 0
Slots(h) == 0 .. (IF Children(h) = 0 THEN h.numSectors ELSE Children(h)) - 1

\* A place is a header's sector and the number of one of its dataSectors; the
\* sector it names; those of the headers in S that name a sector.
Named(content, r) == content[r[1]].dataSectors[r[2]]

PlacesIn(content, S) ==
  {r \in UNION {{x} \X Slots(content[x]) : x \in S} : Named(content, r) \in Sector}

\* The headers of the file whose header is in s, on four levels.
SubHeadersOf(content, S) ==
  {Named(content, r) : r \in PlacesIn(content, {x \in S : Children(content[x]) > 0})}

HeadersOf(content, s) ==
  LET second == SubHeadersOf(content, {s})
      third  == SubHeadersOf(content, second)
  IN  {s} \cup second \cup third \cup SubHeadersOf(content, third)

\* Which place names which sector of the file; all its sectors.
Layout(content, s) ==
  [r \in PlacesIn(content, HeadersOf(content, s)) |-> Named(content, r)]

SectorsOf(content, s) ==
  {s} \cup {Named(content, r) : r \in PlacesIn(content, HeadersOf(content, s))}

\* The sectors of the bytes of the file with header h.
DataOf(content, h) ==
  {ByteToSector(content, h, b) : b \in 0 .. h.numBytes - 1}

\* The file has a sector of its own for each of its blocks.
Complete(content, h) ==
  /\ DataOf(content, h) \subseteq Sector
  /\ Cardinality(DataOf(content, h)) = h.numSectors

\* The sectors a file of this size takes, headers included.
NeededOver(whole, rest, size) ==
  IF size <= Limit2 THEN 1 + DivRoundUp(size, SectorSize)
  ELSE 1 + (size \div Share(size)) * whole + (IF size % Share(size) = 0 THEN 0 ELSE rest)

Needed1(size) == 1 + DivRoundUp(size, SectorSize)
Needed2(size) == NeededOver(Needed1(Share(size)), Needed1(size % Share(size)), size)
Needed3(size) == NeededOver(Needed2(Share(size)), Needed2(size % Share(size)), size)
Needed(size)  == NeededOver(Needed3(Share(size)), Needed3(size % Share(size)), size)

\* The blocks of the file whose header is in sector s, in order.
OwnBlocks(h) == [i \in 1 .. h.numSectors |-> h.dataSectors[i - 1]]
BlocksOver(h, below) ==
  IF Children(h) = 0 THEN OwnBlocks(h) ELSE Seqs!FlattenSeq([i \in 1 .. Children(h) |-> below[i - 1]])

Blocks1(c, s)  == OwnBlocks(c[s])
Blocks2(c, s)  == BlocksOver(c[s], [i \in Direct |-> Blocks1(c, c[s].dataSectors[i])])
Blocks3(c, s)  == BlocksOver(c[s], [i \in Direct |-> Blocks2(c, c[s].dataSectors[i])])
BlocksOf(c, s) == BlocksOver(c[s], [i \in Direct |-> Blocks3(c, c[s].dataSectors[i])])
===============================================================================
