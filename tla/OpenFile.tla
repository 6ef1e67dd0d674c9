-------------------------------- MODULE OpenFile --------------------------------
(***************************************************************************)
(* OpenFile of NachOS/filesys/openfile.cc: files are read and written by   *)
(* byte, the disk by sector, so a write first reads the sectors it changes *)
(* in part.  An open file is its header and its seekPosition; c is the     *)
(* headers on the disk and b the bytes of each sector.                     *)
(***************************************************************************)
EXTENDS Integers, Sequences

CONSTANTS
  SectorSize,            \* 128
  Sector,                \* the sectors of the disk
  ByteToSector(_, _, _)  \* see FileHeader

ZeroByte == <<"zero">>  \* what memset leaves

FirstSector(p) == p \div SectorSize
LastSector(n, p) == (p + n - 1) \div SectorSize

\* What is transferred of n bytes from position p on.
Clipped(h, n, p) ==
  IF n <= 0 \/ p >= h.numBytes THEN 0 ELSE IF p + n > h.numBytes THEN h.numBytes - p ELSE n

\* buf, indexed from 0, with the sequence x from offset o on.
Overlaid(buf, x, o) ==
  [k \in DOMAIN buf |-> IF k - o \in 0 .. Len(x) - 1 THEN x[k - o + 1] ELSE buf[k]]

\* The offsets in the buffer for the sectors of n bytes from position p on.
BufferFor(n, p) == 0 .. (1 + LastSector(n, p) - FirstSector(p)) * SectorSize - 1

\* OpenFile::ReadAt: the bytes read.
ReadAt(b, c, h, n, p) ==
  LET m   == Clipped(h, n, p)
      buf == [k \in BufferFor(m, p) |->
                b[ByteToSector(c, h, (FirstSector(p) + (k \div SectorSize)) * SectorSize)]
                 [k % SectorSize]]
  IN  [i \in 1 .. m |-> buf[p - (FirstSector(p) * SectorSize) + i - 1]]

\* What WriteAt reads into its buffer first: the sectors it changes in part.
PreparedNot(b, c, h, m, p) == [k \in BufferFor(m, p) |-> ZeroByte]

Prepared(b, c, h, m, p) ==
  LET first == FirstSector(p)
      last  == LastSector(m, p)
      firstAligned == p = first * SectorSize
      lastAligned  == p + m = (last + 1) * SectorSize
      sector(s) == ReadAt(b, c, h, SectorSize, s * SectorSize)
      zero == [k \in BufferFor(m, p) |-> ZeroByte]
      one  == IF firstAligned THEN zero ELSE Overlaid(zero, sector(first), 0)
  IN  IF ~lastAligned /\ (first # last \/ firstAligned)
      THEN Overlaid(one, sector(last), (last - first) * SectorSize) ELSE one

\* OpenFile::WriteAt: the bytes on the disk, and how many were written.
WriteAt(b, c, h, from, p) ==
  LET m   == Clipped(h, Len(from), p)
      buf == Overlaid(Prepared(b, c, h, m, p), SubSeq(from, 1, m),
                      p - (FirstSector(p) * SectorSize))
      index(s) == {i \in FirstSector(p) .. LastSector(m, p) :
                     ByteToSector(c, h, i * SectorSize) = s}
  IN  IF m = 0 THEN [bytes |-> b, numWritten |-> 0]
      ELSE [numWritten |-> m,
            bytes |-> [s \in Sector |->
              IF index(s) = {} THEN b[s]
              ELSE LET i == CHOOSE i \in index(s) : \A j \in index(s) : j <= i
                   IN  [k \in 0 .. SectorSize - 1 |->
                          buf[(i - FirstSector(p)) * SectorSize + k]]]]

\* OpenFile::Seek, Read, Write
Opened(h) == [hdr |-> h, seekPosition |-> 0]
Seek(o, p) == [o EXCEPT !.seekPosition = p]

Read(b, c, o, n) ==
  LET x == ReadAt(b, c, o.hdr, n, o.seekPosition)
  IN  [file |-> [o EXCEPT !.seekPosition = @ + Len(x)], result |-> x]

Write(b, c, o, from) ==
  LET r == WriteAt(b, c, o.hdr, from, o.seekPosition)
  IN  [file |-> [o EXCEPT !.seekPosition = @ + r.numWritten], result |-> r]

-------------------------------------------------------------------------------
(* What the definitions above are compared with. *)

\* The bytes of the file with these blocks.
BytesOf(b, blocks, length) ==
  [i \in 1 .. length |-> b[blocks[(i - 1) \div SectorSize + 1]][(i - 1) % SectorSize]]

\* The file with header h has these blocks, each a sector of its own.
Laid(c, h, blocks) ==
  /\ h.numBytes \in Nat
  /\ blocks \in Seq(Sector)
  /\ h.numBytes <= Len(blocks) * SectorSize
  /\ \A i, j \in DOMAIN blocks : blocks[i] = blocks[j] => i = j
  /\ \A i \in DOMAIN blocks : ByteToSector(c, h, (i - 1) * SectorSize) = blocks[i]

\* Writing from at position p changes these bytes of the file, up to its length,
\* and no other byte of it or of the sectors of others; reading there again
\* returns them, and both move the seekPosition behind them.
WriteIsExact(b, c, h, blocks, p, from) ==
  LET length == h.numBytes
      w   == Write(b, c, Seek(Opened(h), p), from)
      r   == Read(w.result.bytes, c, Seek(Opened(h), p), Len(from))
      m   == w.result.numWritten
      old == BytesOf(b, blocks, length)
      new == BytesOf(w.result.bytes, blocks, length)
  IN  /\ m = IF p >= length THEN 0 ELSE IF p + Len(from) > length THEN length - p ELSE Len(from)
      /\ new = [i \in 1 .. length |-> IF i \in p + 1 .. p + m THEN from[i - p] ELSE old[i]]
      /\ \A s \in Sector : (\A i \in DOMAIN blocks : blocks[i] # s) => w.result.bytes[s] = b[s]
      /\ r.result = SubSeq(from, 1, m)
      /\ w.file.seekPosition = p + m /\ r.file = w.file

\* A disk all of whose bytes differ, n bytes that differ from them.
OldBytes == [s \in Sector |-> [k \in 0 .. SectorSize - 1 |-> <<"old", s, k>>]]
NewBytes(n) == [i \in 1 .. n |-> <<"new", i>>]
===============================================================================
