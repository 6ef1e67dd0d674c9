--------------------------- MODULE FileHeaderProofs ---------------------------
(***************************************************************************)
(* Files, for any geometry of the disk: what FileHeader and OpenFile of    *)
(* NachOS/filesys do to the sectors of one file.                           *)
(*                                                                         *)
(* Allocate takes free sectors (Level4Allocates) and Deallocate gives back *)
(* blocks of its file only (Level4Unmarks), by the levels of sub-headers.  *)
(* On a disk with room Allocate gives a sector to each block of the file   *)
(* (AllocateFills).                                                        *)
(* ByteToSector finds each byte in the block its offset is in: a call goes *)
(* one level down, to the share of the file that holds the byte, and the   *)
(* share is a number of whole sectors (CompleteIsLaid).  On a file laid    *)
(* out like this ReadAt returns the bytes that are there and WriteAt       *)
(* changes those it is told to and no other (ReadReturnsTheBytes,          *)
(* WritesAreExact).                                                        *)
(***************************************************************************)
EXTENDS FileSystem, FiniteSetTheorems, FunctionTheorems, SequenceTheorems,
        WellFoundedInduction, TLAPS

-------------------------------------------------------------------------------
(* Numbers *)

\* A set of numbers that is not empty has a least one.
LEMMA LeastExists ==
  ASSUME NEW A \in SUBSET Nat, A # {}
  PROVE  \E x \in A : \A y \in A : x <= y
<1> DEFINE R == OpToRel(<, Nat)
<1>1. IsWellFoundedOn(R, Nat)
  BY NatLessThanWellFounded
<1>2. R = {r \in Nat \X Nat : r[1] < r[2]}
  BY DEF OpToRel
<1>3. PICK x \in A : \A y \in A : ~(<<y, x>> \in R)
  <2> HIDE DEF R
  <2> QED
    BY <1>1, WFMin
<1> HIDE DEF R
<1>4. \A y \in A : ~(y < x)
  BY <1>2, <1>3
<1> QED
  BY <1>4

\* Induction over the numbers, for a set of numbers.
LEMMA Induction ==
  ASSUME NEW A \in SUBSET Nat, 0 \in A, \A n \in A : n + 1 \in A
  PROVE  A = Nat
<1> SUFFICES ASSUME Nat \ A # {} PROVE FALSE
  OBVIOUS
<1>1. PICK x \in Nat \ A : \A y \in Nat \ A : x <= y
  BY LeastExists
<1>2. x - 1 \in Nat
  BY <1>1
<1>3. x - 1 \in A
  BY <1>1, <1>2
<1> QED
  BY <1>1, <1>2, <1>3

\* The same up to a bound.
LEMMA InductionUpTo ==
  ASSUME NEW m \in Nat, NEW A \in SUBSET Nat, 0 \in A,
         \A n \in 0 .. m - 1 : n \in A => n + 1 \in A
  PROVE  \A n \in 0 .. m : n \in A
<1> DEFINE B == {n \in Nat : n <= m => n \in A}
<1>1. 0 \in B
  OBVIOUS
<1>2. ASSUME NEW n \in B PROVE n + 1 \in B
  OBVIOUS
<1>3. B = Nat
  <2>1. B \in SUBSET Nat
    OBVIOUS
  <2> HIDE DEF B
  <2> QED
    BY <1>1, <1>2, <2>1, Induction
<1> QED
  BY <1>3

\* Products of numbers are numbers, and grow with their factors.
LEMMA TimesType ==
  ASSUME NEW i \in Nat, NEW S \in Nat
  PROVE  i * S \in Nat
OBVIOUS

\* Multiplication by S is monotonic.
LEMMA TimesGrows ==
  ASSUME NEW i \in Nat, NEW j \in Nat, i <= j, NEW S \in Nat
  PROVE  i * S <= j * S
OBVIOUS

\* Division with remainder.
LEMMA DivMod ==
  ASSUME NEW a \in Nat, NEW S \in Nat \ {0}
  PROVE  a \div S \in Nat /\ a % S \in 0 .. S - 1 /\ a = ((a \div S) * S) + (a % S)
OBVIOUS

\* DivRoundUp(a, S) sectors of S hold a bytes, and no fewer do.
LEMMA RoundedUp ==
  ASSUME NEW a \in Nat, NEW S \in Nat \ {0}
  PROVE  /\ DivRoundUp(a, S) \in Nat
         /\ a <= DivRoundUp(a, S) * S
         /\ \A m \in Nat : a <= m * S => DivRoundUp(a, S) <= m
         /\ \A i \in Nat : i < DivRoundUp(a, S) => a - i * S \in Nat \ {0}
<1> DEFINE k == DivRoundUp(a, S)
           r == (a + S - 1) % S
<1>1. k \in Nat /\ r \in 0 .. S - 1 /\ a + S - 1 = k * S + r
  <2>1. a + S - 1 \in Nat
    OBVIOUS
  <2> QED
    BY <2>1, DivMod DEF DivRoundUp
<1> HIDE DEF k, r
<1>2. k * S \in Nat /\ a <= k * S /\ k * S <= a + S - 1
  BY <1>1, TimesType
<1>3. ASSUME NEW m \in Nat, a <= m * S PROVE k <= m
  <2> SUFFICES ASSUME m + 1 <= k PROVE FALSE
    BY <1>1
  <2>1. (m + 1) * S <= k * S
    BY <1>1, TimesGrows
  <2>2. (m + 1) * S = m * S + S /\ m * S \in Nat
    BY TimesType
  <2> QED
    BY <1>2, <1>3, <2>1, <2>2
<1>4. ASSUME NEW i \in Nat, i < k PROVE a - i * S \in Nat \ {0}
  <2>1. i * S \in Nat
    BY TimesType
  <2>2. ~(a <= i * S)
    BY <1>1, <1>3, <1>4
  <2> QED
    BY <2>1, <2>2
<1> QED
  BY <1>1, <1>2, <1>3, <1>4 DEF k

\* The sizes of what a header and its sub-headers hold.
LEMMA Limits ==
  /\ NumDirect \in Nat \ {0} /\ SectorSize \in Nat \ {0} /\ NumSectors \in Nat \ {0}
  /\ Limit2 \in Nat \ {0} /\ Limit3 \in Nat \ {0} /\ Limit4 \in Nat \ {0}
  /\ Limit3 = NumDirect * Limit2 /\ Limit4 = NumDirect * Limit3
  /\ Limit2 <= Limit3 /\ Limit3 <= Limit4 /\ Limit4 <= NumDirect * Limit4
  /\ NumDirect * Limit4 \in Nat
<1>1. NumDirect \in Nat \ {0} /\ SectorSize \in Nat \ {0} /\ NumSectors \in Nat \ {0}
  BY GeometryAssumption
<1>2. \A x \in Nat \ {0} : NumDirect * x \in Nat \ {0} /\ x <= NumDirect * x
  <2> TAKE x \in Nat \ {0}
  <2>1. 1 * x <= NumDirect * x
    BY <1>1, TimesGrows
  <2>2. 1 * x = x /\ NumDirect * x \in Nat
    BY <1>1
  <2> QED
    BY <2>1, <2>2
<1>3. Limit2 \in Nat \ {0}
  BY <1>1, <1>2 DEF Limit2
<1>4. Limit3 = NumDirect * Limit2
  BY <1>1 DEF Limit2, Limit3
<1>5. Limit4 = NumDirect * Limit3
  BY <1>1 DEF Limit3, Limit4
<1> QED
  BY <1>1, <1>2, <1>3, <1>4, <1>5

-------------------------------------------------------------------------------
(* Sectors and offsets in them *)

\* Between a multiple of S and a later one there is room for S.
LEMMA TimesNext ==
  ASSUME NEW i \in Nat, NEW j \in Nat, i < j, NEW S \in Nat \ {0}
  PROVE  i * S + S <= j * S
<1>1. (i + 1) * S = i * S + S
  OBVIOUS
<1>2. (i + 1) * S <= j * S
  OBVIOUS
<1> QED
  BY <1>1, <1>2

\* Quotient and remainder of q * S + r.
LEMMA DivUnique ==
  ASSUME NEW q \in Nat, NEW S \in Nat \ {0}, NEW r \in 0 .. S - 1
  PROVE  (q * S + r) \div S = q /\ (q * S + r) % S = r
<1> DEFINE a == q * S + r
           d == a \div S
           m == a % S
<1>1. a \in Nat
  OBVIOUS
<1>2. d \in Nat /\ m \in 0 .. S - 1 /\ a = d * S + m
  BY <1>1, DivMod
<1> HIDE DEF d, m
<1>3. d * S \in Nat /\ q * S \in Nat /\ d * S + m = q * S + r
  BY <1>2
<1>4. ~(d < q) /\ ~(q < d)
  BY <1>2, <1>3, TimesNext
<1>5. d = q
  BY <1>2, <1>4
<1>6. m = r
  BY <1>2, <1>3, <1>5
<1> QED
  BY <1>5, <1>6 DEF d, m

\* x is the offset of a byte from the start of sector f.
LEMMA SectorsApart ==
  ASSUME NEW f \in Nat, NEW x \in Nat, NEW S \in Nat \ {0}
  PROVE  /\ (f * S + x) \div S = f + (x \div S)
         /\ (f * S + x) % S = x % S
<1> DEFINE d == x \div S
           m == x % S
<1>1. d \in Nat /\ m \in 0 .. S - 1 /\ x = d * S + m
  BY DivMod
<1> HIDE DEF d, m
<1>2. (f + d) * S = f * S + d * S
  BY <1>1
<1>3. f * S + x = (f + d) * S + m
  BY <1>1, <1>2, TimesType
<1>4. ((f + d) * S + m) \div S = f + d /\ ((f + d) * S + m) % S = m
  BY <1>1, DivUnique
<1> QED
  BY <1>3, <1>4 DEF d, m

\* An offset below a multiple of S is in an earlier sector.
LEMMA TimesLess ==
  ASSUME NEW i \in Nat, NEW j \in Nat, NEW S \in Nat \ {0}, NEW k \in Nat, i * S <= k, k < j * S
  PROVE  i < j
<1>1. i * S \in Nat /\ j * S \in Nat
  BY TimesType
<1>2. ~(j < i)
  BY <1>1, TimesNext
<1>3. i # j
  BY <1>1
<1> QED
  BY <1>2, <1>3

-------------------------------------------------------------------------------
(* A file and its bytes *)

\* The byte at position j.
ByteAt(b, blocks, j) == b[blocks[j \div SectorSize + 1]][j % SectorSize]

\* Byte j of a laid-out file is in the block ByteToSector finds for its sector.
LEMMA BlockIs ==
  ASSUME SectorSize \in Nat \ {0}, NEW c, NEW h, NEW blocks, Laid(c, h, blocks),
         NEW j \in 0 .. h.numBytes - 1
  PROVE  /\ j \div SectorSize + 1 \in DOMAIN blocks
         /\ j \div SectorSize \in Nat /\ j % SectorSize \in 0 .. SectorSize - 1
         /\ blocks[j \div SectorSize + 1] \in Sector
         /\ ByteToSector(c, h, (j \div SectorSize) * SectorSize)
              = blocks[j \div SectorSize + 1]
<1> DEFINE S == SectorSize
           d == j \div S
           N == Len(blocks)
<1>1. /\ h.numBytes \in Nat /\ N \in Nat /\ DOMAIN blocks = 1 .. N
      /\ h.numBytes <= N * S /\ \A i \in 1 .. N : blocks[i] \in Sector
  BY DEF Laid
<1>2. j \in Nat /\ j < h.numBytes
  BY <1>1
<1>3. d \in Nat /\ j % S \in 0 .. S - 1 /\ j = d * S + (j % S)
  BY <1>2, DivMod
<1>4. d * S <= j /\ j < N * S
  <2> DEFINE r == j % S
  <2>1. d * S \in Nat /\ N * S \in Nat
    BY <1>1, <1>3, TimesType
  <2>2. r \in Nat /\ j = d * S + r
    BY <1>3
  <2> HIDE DEF r, d, N
  <2> QED
    BY <1>1, <1>2, <2>1, <2>2
<1>5. d < N
  <2> HIDE DEF d, N
  <2> QED
    BY <1>1, <1>2, <1>3, <1>4, TimesLess
<1>6. d + 1 \in DOMAIN blocks /\ (d + 1) - 1 = d
  BY <1>1, <1>3, <1>5
<1>7. ByteToSector(c, h, ((d + 1) - 1) * S) = blocks[d + 1]
  <2> HIDE DEF d
  <2> QED
    BY <1>6 DEF Laid
<1> QED
  BY <1>1, <1>3, <1>6, <1>7

\* A transfer that is clipped ends at the end of the file.
LEMMA ClippedIs ==
  ASSUME NEW h, h.numBytes \in Nat, NEW n \in Nat, NEW p \in Nat
  PROVE  /\ Clipped(h, n, p) \in 0 .. n
         /\ Clipped(h, n, p) # 0 => p + Clipped(h, n, p) <= h.numBytes
         /\ Clipped(h, n, p) < n => p + Clipped(h, n, p) >= h.numBytes
BY DEF Clipped

\* The last sector of a transfer holds its last byte.
LEMMA LastSectorIs ==
  ASSUME SectorSize \in Nat \ {0}, NEW p \in Nat, NEW m \in Nat \ {0}
  PROVE  LET l == LastSector(m, p)
         IN  /\ l \in Nat /\ l * SectorSize <= p + m - 1
             /\ p + m - 1 < l * SectorSize + SectorSize
             /\ p + m - 1 \in Nat
<1> DEFINE S == SectorSize
           l == LastSector(m, p)
           e == p + m - 1
           r == e % S
<1>1. e \in Nat
  OBVIOUS
<1>2. l \in Nat /\ r \in 0 .. S - 1 /\ e = l * S + r
  BY <1>1, DivMod DEF LastSector
<1>3. l * S \in Nat
  BY <1>2, TimesType
<1> HIDE DEF r, l, e
<1>4. l * S <= e /\ e < l * S + S
  BY <1>1, <1>2, <1>3
<1> QED
  BY <1>1, <1>2, <1>4 DEF l, e

\* The bytes of a read, and of a write, lie in its buffer.
LEMMA InBuffer ==
  ASSUME SectorSize \in Nat \ {0}, NEW p \in Nat, NEW m \in Nat \ {0}, NEW i \in 1 .. m
  PROVE  LET o == p - FirstSector(p) * SectorSize
         IN  /\ FirstSector(p) \in Nat /\ LastSector(m, p) \in Nat
             /\ FirstSector(p) <= LastSector(m, p)
             /\ o \in 0 .. SectorSize - 1
             /\ FirstSector(p) * SectorSize + (o + i - 1) = p + i - 1
             /\ o + i - 1 \in BufferFor(m, p)
<1> DEFINE S == SectorSize
           f == FirstSector(p)
           l == LastSector(m, p)
           x == (p - f * S) + i - 1
<1>1. f \in Nat /\ p - f * S \in 0 .. S - 1
  <2> DEFINE r == p % S
  <2>1. f \in Nat /\ r \in 0 .. S - 1 /\ p = f * S + r
    BY DivMod DEF FirstSector
  <2> HIDE DEF r, f
  <2>2. f * S \in Nat
    BY <2>1, TimesType
  <2> QED
    BY <2>1, <2>2
<1>2. l \in Nat /\ l * S <= p + m - 1 /\ p + m - 1 < l * S + S
  BY LastSectorIs
<1> HIDE DEF f, l
<1>3. f * S \in Nat /\ l * S \in Nat /\ (l + 1) * S = l * S + S
      /\ (1 + l - f) * S = (l * S + S) - f * S
  <2>1. f * S \in Nat /\ l * S \in Nat
    BY <1>1, <1>2, TimesType
  <2>2. (l + 1) * S = l * S + S
    BY <1>2
  <2>3. (1 + l - f) * S = (l * S + S) - f * S
    BY <1>1, <1>2
  <2> QED
    BY <2>1, <2>2, <2>3
<1>4. f <= l
  <2>1. f * S <= p + m - 1 /\ p + m - 1 < (l + 1) * S /\ p + m - 1 \in Nat
    BY <1>1, <1>2, <1>3
  <2>2. f < l + 1
    BY <1>1, <1>2, <2>1, TimesLess
  <2> QED
    BY <1>1, <1>2, <2>2
<1>5. x \in 0 .. (1 + l - f) * S - 1
  <2> DEFINE F == f * S
             G == l * S
             H == (1 + l - f) * S
  <2>1. F \in Nat /\ G \in Nat /\ H = (G + S) - F /\ p - F \in 0 .. S - 1
        /\ p + m - 1 < G + S
    BY <1>1, <1>2, <1>3
  <2> HIDE DEF F, G, H
  <2>2. (p - F) + i - 1 \in 0 .. H - 1
    BY <2>1
  <2> QED
    BY <2>2 DEF F, H
<1>6. f * S + x = p + i - 1
  BY <1>1, <1>3
<1>7. p - f * S \in 0 .. S - 1 /\ f * S + ((p - f * S) + i - 1) = p + i - 1
      /\ (p - f * S) + i - 1 \in 0 .. (1 + l - f) * S - 1
  BY <1>1, <1>5, <1>6
<1> QED
  BY <1>1, <1>2, <1>4, <1>7 DEF BufferFor, f, l

\* Offset k of sector s of the file is its byte j, and at x in the buffer for the
\* sectors of m bytes from position p on.
Place(m, p, s, k, x, j) ==
  /\ p \in Nat /\ m \in Nat \ {0}
  /\ s \in FirstSector(p) .. LastSector(m, p)
  /\ k \in 0 .. SectorSize - 1
  /\ x = (s - FirstSector(p)) * SectorSize + k
  /\ j = s * SectorSize + k

\* Byte j of the file is not one of the m bytes from position p on.
Spared(h, m, p, j) == j < h.numBytes /\ j \notin p .. p + m - 1

\* The place, in the buffer of a transfer, of byte k of its sector s.
LEMMA InSector ==
  ASSUME SectorSize \in Nat \ {0}, NEW p \in Nat, NEW m \in Nat \ {0},
         NEW s \in FirstSector(p) .. LastSector(m, p), NEW k \in 0 .. SectorSize - 1
  PROVE  LET f == FirstSector(p)
             x == (s - f) * SectorSize + k
         IN  /\ s \in Nat /\ f \in Nat
             /\ s * SectorSize \in Nat /\ f * SectorSize \in Nat
             /\ x \in BufferFor(m, p)
             /\ f * SectorSize + x = s * SectorSize + k
<1> DEFINE S == SectorSize
           f == FirstSector(p)
           l == LastSector(m, p)
<1>1. f \in Nat /\ l \in Nat /\ s \in Nat /\ f <= s /\ s < 1 + l /\ k \in Nat /\ k < S
  <2>1. f \in Nat /\ l \in Nat
    <3>1. 1 \in 1 .. m
      OBVIOUS
    <3> QED
      BY <3>1, InBuffer
  <2> HIDE DEF f, l
  <2>2. s \in f .. l
    BY DEF f, l
  <2> QED
    BY <2>1, <2>2
<1> HIDE DEF f, l
<1>2. (s - f) * S + S <= (1 + l - f) * S
  <2>1. s - f \in Nat /\ 1 + l - f \in Nat /\ s - f < 1 + l - f
    BY <1>1
  <2> QED
    BY <2>1, TimesNext
<1>3. (s - f) * S \in Nat /\ (1 + l - f) * S \in Nat /\ s * S \in Nat /\ f * S \in Nat
  <2>1. s - f \in Nat /\ 1 + l - f \in Nat
    BY <1>1
  <2> QED
    BY <1>1, <2>1, TimesType
<1>4. (s - f) * S = s * S - f * S
  BY <1>1
<1>5. (s - f) * S + k \in 0 .. (1 + l - f) * S - 1
      /\ f * S + ((s - f) * S + k) = s * S + k
  <2> DEFINE F == f * S
             G == s * S
             D == (s - f) * S
             H == (1 + l - f) * S
  <2>1. F \in Nat /\ G \in Nat /\ D \in Nat /\ H \in Nat /\ D + S <= H /\ D = G - F
    BY <1>2, <1>3, <1>4
  <2> HIDE DEF F, G, D, H
  <2>2. D + k \in 0 .. H - 1 /\ F + (D + k) = G + k
    BY <1>1, <2>1
  <2> QED
    BY <2>2 DEF F, G, D, H
<1> QED
  BY <1>1, <1>3, <1>5 DEF BufferFor, f, l

\* What Place says of its parameters.
LEMMA PlaceIs ==
  ASSUME SectorSize \in Nat \ {0}, NEW p, NEW m, NEW s, NEW k, NEW x, NEW j,
         Place(m, p, s, k, x, j)
  PROVE  LET f == FirstSector(p)
         IN  /\ p \in Nat /\ m \in Nat \ {0} /\ s \in Nat /\ f \in Nat
             /\ s * SectorSize \in Nat /\ f * SectorSize \in Nat
             /\ x \in BufferFor(m, p)
             /\ f * SectorSize + x = j
             /\ s \in f .. LastSector(m, p)
             /\ k \in 0 .. SectorSize - 1
             /\ j = s * SectorSize + k
BY InSector DEF Place

-------------------------------------------------------------------------------
(* Reading *)

\* ReadAt returns as many bytes as it is clipped to.
LEMMA ReadAtLength ==
  ASSUME SectorSize \in Nat \ {0}, NEW b, NEW c, NEW h, NEW blocks, Laid(c, h, blocks),
         NEW n \in Nat, NEW p \in Nat
  PROVE  LET m == Clipped(h, n, p)
             r == ReadAt(b, c, h, n, p)
         IN  m \in Nat /\ DOMAIN r = 1 .. m /\ Len(r) = m
<1> DEFINE m == Clipped(h, n, p)
           r == ReadAt(b, c, h, n, p)
<1>1. m \in Nat
  <2>1. m \in 0 .. n
    BY ClippedIs DEF Laid
  <2> HIDE DEF m
  <2> QED
    BY <2>1
<1>2. DOMAIN r = 1 .. m
  BY DEF ReadAt
<1> HIDE DEF m, r
<1>3. Len(r) = m
  BY <1>1, <1>2
<1> QED
  BY <1>1, <1>2, <1>3 DEF m, r

\* ReadAt returns, for each position, the byte the file has there.
LEMMA ReadAtByte ==
  ASSUME SectorSize \in Nat \ {0}, NEW b, NEW c, NEW h, NEW blocks, Laid(c, h, blocks),
         NEW n \in Nat, NEW p \in Nat, NEW i \in 1 .. Clipped(h, n, p)
  PROVE  ReadAt(b, c, h, n, p)[i] = ByteAt(b, blocks, p + i - 1)
<1> DEFINE S == SectorSize
           f == FirstSector(p)
           m == Clipped(h, n, p)
           o == p - f * S
           buf == [k \in BufferFor(m, p) |->
                     b[ByteToSector(c, h, (f + (k \div S)) * S)][k % S]]
<1>1. i \in 1 .. m
  OBVIOUS
<1>2. h.numBytes \in Nat /\ m \in 0 .. n /\ (m # 0 => p + m <= h.numBytes)
  BY ClippedIs DEF Laid
<1> HIDE DEF m
<1>3. buf[o + i - 1] = ByteAt(b, blocks, p + i - 1)
  <2> DEFINE x == o + i - 1
             j == p + i - 1
  <2>1. m \in Nat \ {0} /\ j \in 0 .. h.numBytes - 1
    BY <1>1, <1>2
  <2>2. f \in Nat /\ o \in 0 .. S - 1 /\ f * S + x = j /\ x \in BufferFor(m, p)
    BY <1>1, <2>1, InBuffer
  <2>3. x \in Nat
    <3> HIDE DEF o, m
    <3> QED
      BY <1>1, <1>2, <2>2
  <2>4. buf[x] = b[ByteToSector(c, h, (f + (x \div S)) * S)][x % S]
    <3> HIDE DEF x, m
    <3> QED
      BY <2>2
  <2> HIDE DEF x, f, o
  <2>5. j \div S = f + (x \div S) /\ j % S = x % S
    <3> DEFINE byte(q, y) == q * S + y
               sector(y) == y \div S
               offset(y) == y % S
    <3>1. \A q, y \in Nat :
            sector(byte(q, y)) = q + sector(y) /\ offset(byte(q, y)) = offset(y)
      BY SectorsApart
    <3>2. byte(f, x) = j
      BY <2>2
    <3> HIDE DEF byte, sector, offset, j, buf, m
    <3>3. sector(j) = f + sector(x) /\ offset(j) = offset(x)
      BY <2>2, <2>3, <3>1, <3>2
    <3> QED
      BY <3>3 DEF sector, offset
  <2>6. ByteToSector(c, h, (j \div S) * S) = blocks[j \div S + 1]
    BY <2>1, BlockIs
  <2>7. buf[x] = b[blocks[j \div S + 1]][j % S]
    BY <2>4, <2>5, <2>6
  <2> QED
    BY <2>7 DEF ByteAt, x, o, f
<1>4. ReadAt(b, c, h, n, p)[i] = buf[o + i - 1]
  BY <1>1 DEF ReadAt, m
<1> QED
  BY <1>3, <1>4

\* ReadAt returns the bytes of the file from position p on, as many of the n
\* asked for as it has.
THEOREM ReadReturnsTheBytes ==
  ASSUME SectorSize \in Nat \ {0}, NEW b, NEW c, NEW h, NEW blocks, Laid(c, h, blocks),
         NEW n \in Nat, NEW p \in Nat
  PROVE  ReadAt(b, c, h, n, p)
           = [i \in 1 .. Clipped(h, n, p) |-> ByteAt(b, blocks, p + i - 1)]
<1> DEFINE m == Clipped(h, n, p)
           r == ReadAt(b, c, h, n, p)
<1>1. r = [i \in 1 .. m |-> r[i]]
  BY DEF ReadAt
<1>2. \A i \in 1 .. m : r[i] = ByteAt(b, blocks, p + i - 1)
  BY ReadAtByte
<1> HIDE DEF m, r
<1>3. r = [i \in 1 .. m |-> ByteAt(b, blocks, p + i - 1)]
  BY <1>1, <1>2
<1> QED
  BY <1>3 DEF m, r

-------------------------------------------------------------------------------
(* The buffer of a write *)

\* Overlaying x at offset o changes the bytes from o on, as many as x has.
LEMMA OverlaidIs ==
  ASSUME NEW D, NEW buf, DOMAIN buf = D, NEW x, NEW o, NEW k \in D
  PROVE  /\ DOMAIN Overlaid(buf, x, o) = D
         /\ k - o \in 0 .. Len(x) - 1 => Overlaid(buf, x, o)[k] = x[k - o + 1]
         /\ k - o \notin 0 .. Len(x) - 1 => Overlaid(buf, x, o)[k] = buf[k]
BY DEF Overlaid

\* A sector of the file, read as WriteAt reads it: the bytes the file has there.
LEMMA SectorIsRead ==
  ASSUME SectorSize \in Nat \ {0}, NEW b, NEW c, NEW h, NEW blocks, Laid(c, h, blocks),
         NEW G \in Nat, NEW k \in 0 .. SectorSize - 1
  PROVE  LET w == ReadAt(b, c, h, SectorSize, G)
         IN  /\ Len(w) \in 0 .. SectorSize
             /\ G + k < h.numBytes =>
                  k \in 0 .. Len(w) - 1 /\ w[k + 1] = ByteAt(b, blocks, G + k)
<1> DEFINE S == SectorSize
           m == Clipped(h, S, G)
           w == ReadAt(b, c, h, S, G)
           i == k + 1
<1>1. G \in Nat /\ S \in Nat
  OBVIOUS
<1>2. Len(w) = m
  BY <1>1, ReadAtLength
<1>3. /\ h.numBytes \in Nat /\ m \in 0 .. S
      /\ m < S => G + m >= h.numBytes
  BY <1>1, ClippedIs DEF Laid
<1>4. ASSUME G + k < h.numBytes
      PROVE  k \in 0 .. m - 1 /\ w[k + 1] = ByteAt(b, blocks, G + k)
  <2>1. k \in 0 .. m - 1 /\ i \in 1 .. m /\ G + i - 1 = G + k
    <3> HIDE DEF m
    <3> QED
      BY <1>1, <1>3, <1>4
  <2>2. w[i] = ByteAt(b, blocks, G + i - 1)
    <3> HIDE DEF i
    <3> QED
      BY <1>1, <2>1, ReadAtByte
  <2> QED
    BY <2>1, <2>2
<1> HIDE DEF m, w
<1> QED
  BY <1>2, <1>3, <1>4 DEF w

\* The buffer WriteAt prepares has the size of the sectors it covers.
LEMMA PreparedDomain ==
  ASSUME NEW b, NEW c, NEW h, NEW p, NEW m
  PROVE  DOMAIN Prepared(b, c, h, m, p) = BufferFor(m, p)
<1> DEFINE D == BufferFor(m, p)
           f == FirstSector(p)
           l == LastSector(m, p)
           rf == ReadAt(b, c, h, SectorSize, f * SectorSize)
           rl == ReadAt(b, c, h, SectorSize, l * SectorSize)
           zero == [y \in D |-> ZeroByte]
           one  == IF p = f * SectorSize THEN zero ELSE Overlaid(zero, rf, 0)
           both == Overlaid(one, rl, (l - f) * SectorSize)
<1>1. DOMAIN one = D /\ DOMAIN both = D
  BY DEF Overlaid
<1>2. Prepared(b, c, h, m, p)
        = IF ~(p + m = (l + 1) * SectorSize) /\ (f # l \/ p = f * SectorSize) THEN both ELSE one
  BY DEF Prepared
<1> HIDE DEF one, both, D
<1> QED
  BY <1>1, <1>2 DEF D

\* The sectors a write changes in part keep the bytes of the file around it.
LEMMA PreparedIs ==
  ASSUME SectorSize \in Nat \ {0}, NEW b, NEW c, NEW h, NEW blocks, NEW p, NEW m,
         NEW s, NEW k, NEW x, NEW j,
         Laid(c, h, blocks), Place(m, p, s, k, x, j), Spared(h, m, p, j)
  PROVE  Prepared(b, c, h, m, p)[x] = ByteAt(b, blocks, j)
<1> DEFINE S == SectorSize
           f == FirstSector(p)
           l == LastSector(m, p)
           D == BufferFor(m, p)
           rf == ReadAt(b, c, h, S, f * S)
           rl == ReadAt(b, c, h, S, l * S)
           zero == [y \in D |-> ZeroByte]
           over == Overlaid(zero, rf, 0)
           one  == IF p = f * S THEN zero ELSE over
           both == Overlaid(one, rl, (l - f) * S)
<1>1. p \in Nat /\ m \in Nat \ {0}
  BY DEF Place
<1> USE <1>1
<1>2. Prepared(b, c, h, m, p)
        = IF ~(p + m = (l + 1) * S) /\ (f # l \/ p = f * S) THEN both ELSE one
  BY DEF Prepared
<1>3. /\ s \in Nat /\ f \in Nat /\ s * S \in Nat /\ f * S \in Nat
      /\ x \in D /\ f * S + x = j /\ s \in f .. l /\ k \in 0 .. S - 1 /\ j = s * S + k
  BY PlaceIs
<1>4. k \in 0 .. S - 1
  BY <1>3
<1>5. /\ l \in Nat /\ p - f * S \in 0 .. S - 1
      /\ f <= l
  <2>1. 1 \in 1 .. m
    OBVIOUS
  <2> QED
    BY <2>1, InBuffer
<1>6. DOMAIN zero = D /\ DOMAIN over = D /\ DOMAIN one = D /\ DOMAIN both = D
  BY DEF Overlaid
<1> DEFINE F == f * S
           G == s * S
           E == l * S
<1>7. /\ F \in Nat /\ G \in Nat /\ E \in Nat
      /\ (s > f => F + S <= G) /\ (s < l => G + S <= E) /\ (f < l => F + S <= E)
      /\ (l + 1) * S = E + S
      /\ (l - f) * S = E - F
      /\ S \in Nat \ {0} /\ k \in 0 .. S - 1
  <2> HIDE DEF f, l
  <2>1. E \in Nat
    BY <1>5, TimesType
  <2>2. (s > f => F + S <= G) /\ (s < l => G + S <= E) /\ (f < l => F + S <= E)
    BY <1>3, <1>5, TimesNext
  <2>3. (l + 1) * S = E + S /\ (l - f) * S = E - F
    BY <1>3, <1>5
  <2> QED
    BY <1>3, <2>1, <2>2, <2>3
<1>8. /\ Len(rf) \in 0 .. S
      /\ F + k < h.numBytes => k \in 0 .. Len(rf) - 1 /\ rf[k + 1] = ByteAt(b, blocks, F + k)
  <2>1. rf = ReadAt(b, c, h, S, F)
    OBVIOUS
  <2> HIDE DEF rf, F, G, E, f, l, D
  <2>2. F \in Nat
    BY <1>7
  <2>3. Len(rf) \in 0 .. S
    BY <1>4, <2>1, <2>2, SectorIsRead
  <2>4. F + k < h.numBytes => k \in 0 .. Len(rf) - 1
    BY <1>4, <2>1, <2>2, SectorIsRead
  <2>5. F + k < h.numBytes => rf[k + 1] = ByteAt(b, blocks, F + k)
    <3>1. F + k < h.numBytes
            => ReadAt(b, c, h, S, F)[k + 1] = ByteAt(b, blocks, F + k)
      BY <1>4, <2>2, SectorIsRead
    <3> QED
      BY <2>1, <3>1
  <2> QED
    BY <2>3, <2>4, <2>5
<1>9. /\ Len(rl) \in 0 .. S
      /\ E + k < h.numBytes => k \in 0 .. Len(rl) - 1 /\ rl[k + 1] = ByteAt(b, blocks, E + k)
  <2>1. rl = ReadAt(b, c, h, S, E)
    OBVIOUS
  <2> HIDE DEF rl, F, G, E, f, l, D
  <2>2. E \in Nat
    BY <1>7
  <2>3. Len(rl) \in 0 .. S
    BY <1>4, <2>1, <2>2, SectorIsRead
  <2>4. E + k < h.numBytes => k \in 0 .. Len(rl) - 1
    BY <1>4, <2>1, <2>2, SectorIsRead
  <2>5. E + k < h.numBytes => rl[k + 1] = ByteAt(b, blocks, E + k)
    <3>1. E + k < h.numBytes
            => ReadAt(b, c, h, S, E)[k + 1] = ByteAt(b, blocks, E + k)
      BY <1>4, <2>2, SectorIsRead
    <3> QED
      BY <2>1, <3>1
  <2> QED
    BY <2>3, <2>4, <2>5
<1>10. ASSUME j < h.numBytes, j < p
      PROVE  Prepared(b, c, h, m, p)[x] = ByteAt(b, blocks, j)
  <2>1. s = f /\ x = k /\ p # F /\ j = F + k
    <3> HIDE DEF F, G, E, f, l, D
    <3>1. j = G + k /\ F + x = j /\ p - F \in 0 .. S - 1 /\ s \in f .. l
      BY <1>3, <1>5 DEF F, G
    <3>2. ~(s > f)
      BY <1>3, <1>5, <1>7, <1>10, <3>1
    <3>3. s = f
      BY <1>3, <1>5, <3>1, <3>2
    <3>4. F = G
      BY <3>3 DEF F, G
    <3>9. x \in Int
      BY <1>3 DEF D, BufferFor
    <3>5. x = k
      BY <1>4, <1>7, <3>1, <3>4, <3>9
    <3>6. p # F
      BY <1>4, <1>7, <1>10, <3>1, <3>4
    <3> QED
      BY <3>1, <3>3, <3>4, <3>5, <3>6
  <2>2. k \in 0 .. Len(rf) - 1 /\ rf[k + 1] = ByteAt(b, blocks, j)
    <3> HIDE DEF F, rf, f, l, D, E, G
    <3> QED
      BY <1>7, <1>8, <1>10, <2>1
  <2>3. k \in D /\ k - 0 = k
    BY <1>3, <1>7, <2>1
  <2> HIDE DEF rf, rl, D
  <2>4. over[k] = ByteAt(b, blocks, j)
    BY <1>6, <2>2, <2>3, OverlaidIs
  <2> HIDE DEF over
  <2>5. one[k] = ByteAt(b, blocks, j)
    BY <2>1, <2>4 DEF F
  <2> HIDE DEF one
  <2>6. f # l => both[k] = one[k]
    <3> SUFFICES ASSUME f # l PROVE both[k] = one[k]
      OBVIOUS
    <3>1. k - (l - f) * S \notin 0 .. Len(rl) - 1
      <4> HIDE DEF f, l, F, E, rf, rl
      <4>1. k - (E - F) < 0
        BY <1>3, <1>5, <1>7
      <4> QED
        BY <1>7, <1>9, <4>1
    <3> HIDE DEF f, l
    <3> QED
      BY <1>6, <2>3, <3>1, OverlaidIs
  <2> HIDE DEF both
  <2> QED
    BY <1>2, <2>1, <2>5, <2>6 DEF F
<1>11. ASSUME j < h.numBytes, j >= p + m
      PROVE  Prepared(b, c, h, m, p)[x] = ByteAt(b, blocks, j)
  <2> DEFINE e == p + m - 1
  <2>1. e < E + S /\ E <= e /\ e \in Nat
    BY LastSectorIs
  <2>2. s = l /\ p + m # (l + 1) * S /\ x - (l - f) * S = k /\ j = E + k
    <3> HIDE DEF F, G, E, f, l, D
    <3>1. j = G + k /\ F + x = j /\ s \in f .. l
      BY <1>3, <1>5 DEF F, G
    <3>2. ~(s < l)
      BY <1>3, <1>5, <1>7, <1>11, <2>1, <3>1
    <3>3. s = l
      BY <1>3, <1>5, <3>1, <3>2
    <3>4. E = G
      BY <3>3 DEF E, G
    <3>5. x \in Int
      BY <1>3 DEF D, BufferFor
    <3>6. E + k >= p + m /\ k < S
      BY <1>7, <1>11, <3>1, <3>4
    <3>7. p + m # (l + 1) * S
      BY <1>7, <3>6
    <3>8. x - (l - f) * S = k
      <4> HIDE DEF e
      <4>1. F + x = E + k /\ F \in Nat /\ E \in Nat /\ k \in Int
        BY <1>7, <3>1, <3>4
      <4>2. x - (E - F) = k
        BY <3>5, <4>1
      <4> QED
        BY <1>7, <4>2
    <3> QED
      BY <3>1, <3>3, <3>4, <3>7, <3>8
  <2>3. k \in 0 .. Len(rl) - 1 /\ rl[k + 1] = ByteAt(b, blocks, j)
    <3> HIDE DEF F, rl, f, l, D, E, G
    <3>1. j = E + k
      BY <2>2
    <3>2. E + k < h.numBytes
      BY <1>11, <3>1
    <3> QED
      BY <1>9, <3>1, <3>2
  <2>4. x \in D
    BY <1>3
  <2> HIDE DEF rf, rl, D, one
  <2>5. both[x] = ByteAt(b, blocks, j)
    <3> HIDE DEF f, l
    <3> QED
      BY <1>6, <2>2, <2>3, <2>4, OverlaidIs
  <2> HIDE DEF both
  <2>6. CASE f # l \/ p = f * S
    BY <1>2, <2>2, <2>5, <2>6
  <2>7. CASE f = l /\ p # f * S
    <3>1. x = k /\ k - 0 = k
      <4> HIDE DEF f, l
      <4>1. (l - f) * S = 0
        BY <1>3, <2>7
      <4>2. x \in Int
        BY <1>3 DEF D, BufferFor
      <4> QED
        BY <1>7, <2>2, <4>1, <4>2
    <3>2. rf = rl
      BY <2>7 DEF rf, rl
    <3>3. over[k] = ByteAt(b, blocks, j)
      BY <1>6, <2>3, <2>4, <3>1, <3>2, OverlaidIs
    <3> HIDE DEF over
    <3>4. one[x] = ByteAt(b, blocks, j)
      BY <2>7, <3>1, <3>3 DEF one
    <3> QED
      BY <1>2, <2>7, <3>4
  <2> QED
    BY <2>6, <2>7
<1>12. j \in Nat
  <2> HIDE DEF F, G, E, f, l
  <2>1. j = G + k
    BY <1>3 DEF G
  <2> QED
    BY <1>7, <2>1
<1> QED
  <2>1. j < h.numBytes /\ (j < p \/ j >= p + m)
    BY <1>12 DEF Spared
  <2> QED
    BY <1>10, <1>11, <2>1

\* What WriteAt writes back, sector by sector.
Buffer(b, c, h, from, m, p) ==
  Overlaid(Prepared(b, c, h, m, p), SubSeq(from, 1, m), p - (FirstSector(p) * SectorSize))

\* The first m bytes of a sequence.
LEMMA SubSeqIs ==
  ASSUME NEW Byte, NEW from \in Seq(Byte), NEW m \in Nat, m <= Len(from)
  PROVE  /\ Len(SubSeq(from, 1, m)) = m
         /\ \A i \in 1 .. m : SubSeq(from, 1, m)[i] = from[i]
OBVIOUS

\* m bytes of from are written at position p of the file.
Writing(c, h, blocks, Byte, from, p, m) ==
  /\ Laid(c, h, blocks)
  /\ p \in Nat /\ from \in Seq(Byte)
  /\ m = Clipped(h, Len(from), p) /\ m # 0

\* What Writing says of its parameters.
LEMMA WritingIs ==
  ASSUME NEW c, NEW h, NEW blocks, NEW Byte, NEW from, NEW p, NEW m,
         Writing(c, h, blocks, Byte, from, p, m)
  PROVE  /\ m \in Nat \ {0} /\ m <= Len(from)
         /\ h.numBytes \in Nat /\ p + m <= h.numBytes
<1>1. h.numBytes \in Nat /\ p \in Nat /\ Len(from) \in Nat
  BY DEF Writing, Laid
<1>2. m \in 0 .. Len(from) /\ m # 0 /\ p + m <= h.numBytes
  BY <1>1, ClippedIs DEF Writing
<1> QED
  BY <1>1, <1>2

\* The buffer WriteAt writes back holds the bytes it was given.
LEMMA BufferTakes ==
  ASSUME SectorSize \in Nat \ {0}, NEW b, NEW c, NEW h, NEW blocks, NEW p, NEW m,
         NEW s, NEW k, NEW x, NEW j, NEW Byte, NEW from,
         Writing(c, h, blocks, Byte, from, p, m), Place(m, p, s, k, x, j)
  PROVE  j \in p .. p + m - 1 => Buffer(b, c, h, from, m, p)[x] = from[j - p + 1]
<1> DEFINE F == FirstSector(p) * SectorSize
           front == SubSeq(from, 1, m)
           D == BufferFor(m, p)
           prepared == Prepared(b, c, h, m, p)
           buf == Buffer(b, c, h, from, m, p)
<1>1. /\ p \in Nat /\ m \in Nat \ {0} /\ m <= Len(from)
      /\ Laid(c, h, blocks) /\ from \in Seq(Byte)
  BY WritingIs DEF Writing
<1> USE <1>1
<1>2. DOMAIN prepared = D
  BY PreparedDomain
<1>3. x \in D /\ F \in Nat /\ F + x = j
  BY PlaceIs
<1>4. Len(front) = m /\ \A i \in 1 .. m : front[i] = from[i]
  BY SubSeqIs
<1> HIDE DEF prepared, front
<1>5. buf = Overlaid(prepared, front, p - F)
  BY DEF Buffer, prepared, front
<1>6. x \in Int
  BY <1>3 DEF D, BufferFor
<1> HIDE DEF D, F, buf
<1>7. x - (p - F) = j - p /\ j \in Int
  BY <1>3, <1>6
<1>8. ASSUME j \in p .. p + m - 1 PROVE buf[x] = from[j - p + 1]
  <2>1. x - (p - F) \in 0 .. Len(front) - 1 /\ j - p + 1 \in 1 .. m
        /\ (x - (p - F)) + 1 = j - p + 1
    BY <1>4, <1>7, <1>8
  <2>2. buf[x] = front[x - (p - F) + 1]
    BY <1>2, <1>3, <1>5, <2>1, OverlaidIs
  <2> QED
    BY <1>4, <2>1, <2>2
<1> QED
  BY <1>8 DEF buf

\* Elsewhere in its sectors it holds the bytes the file had.
LEMMA BufferKeeps ==
  ASSUME SectorSize \in Nat \ {0}, NEW b, NEW c, NEW h, NEW blocks, NEW p, NEW m,
         NEW s, NEW k, NEW x, NEW j, NEW Byte, NEW from,
         Writing(c, h, blocks, Byte, from, p, m), Place(m, p, s, k, x, j), Spared(h, m, p, j)
  PROVE  Buffer(b, c, h, from, m, p)[x] = ByteAt(b, blocks, j)
<1> DEFINE F == FirstSector(p) * SectorSize
           front == SubSeq(from, 1, m)
           D == BufferFor(m, p)
           prepared == Prepared(b, c, h, m, p)
           buf == Buffer(b, c, h, from, m, p)
<1>1. Laid(c, h, blocks)
  BY DEF Writing
<1>2. prepared[x] = ByteAt(b, blocks, j)
  BY <1>1, PreparedIs
<1>3. /\ p \in Nat /\ m \in Nat \ {0} /\ m <= Len(from)
      /\ Laid(c, h, blocks) /\ from \in Seq(Byte)
  BY WritingIs DEF Writing
<1> USE <1>3
<1>4. DOMAIN prepared = D
  BY PreparedDomain
<1>5. x \in D /\ F \in Nat /\ F + x = j
  BY PlaceIs
<1>6. Len(front) = m /\ \A i \in 1 .. m : front[i] = from[i]
  BY SubSeqIs
<1> HIDE DEF prepared, front
<1>7. buf = Overlaid(prepared, front, p - F)
  BY DEF Buffer, prepared, front
<1>8. x \in Int
  BY <1>5 DEF D, BufferFor
<1> HIDE DEF D, F, buf
<1>9. x - (p - F) = j - p /\ j \in Int
  BY <1>5, <1>8
<1>10. buf[x] = ByteAt(b, blocks, j)
  <2>1. x - (p - F) \notin 0 .. Len(front) - 1
    BY <1>6, <1>9 DEF Spared
  <2>2. buf[x] = prepared[x]
    BY <1>4, <1>5, <1>7, <2>1, OverlaidIs
  <2> QED
    BY <1>2, <2>2
<1> QED
  BY <1>10 DEF buf

-------------------------------------------------------------------------------
(* Writing *)

\* The sectors of a write are blocks of the file.
LEMMA SectorIsBlock ==
  ASSUME SectorSize \in Nat \ {0}, NEW c, NEW h, NEW blocks, Laid(c, h, blocks),
         NEW p \in Nat, NEW m \in Nat \ {0}, p + m <= h.numBytes,
         NEW i \in FirstSector(p) .. LastSector(m, p)
  PROVE  /\ i \in Nat /\ i + 1 \in DOMAIN blocks
         /\ ByteToSector(c, h, i * SectorSize) = blocks[i + 1]
<1> DEFINE S == SectorSize
           f == FirstSector(p)
           l == LastSector(m, p)
           N == Len(blocks)
<1>1. /\ l \in Nat /\ l * S <= p + m - 1 /\ p + m - 1 \in Nat
  BY LastSectorIs
<1>2. f \in Nat
  <2>1. 1 \in 1 .. m
    OBVIOUS
  <2> QED
    BY <2>1, InBuffer
<1>3. /\ h.numBytes \in Nat /\ N \in Nat /\ DOMAIN blocks = 1 .. N
      /\ h.numBytes <= N * S
  BY DEF Laid
<1>4. i \in f .. l
  OBVIOUS
<1> HIDE DEF f, l
<1>5. i \in Nat /\ i <= l
  BY <1>1, <1>2, <1>4
<1> HIDE DEF N
<1>6. l < N
  <2>1. l * S \in Nat /\ N * S \in Nat
    BY <1>1, <1>3, TimesType
  <2>2. p + m - 1 < N * S
    BY <1>1, <1>3, <2>1
  <2> QED
    BY <1>1, <1>3, <2>2, TimesLess
<1>7. i + 1 \in DOMAIN blocks /\ (i + 1) - 1 = i
  BY <1>1, <1>3, <1>5, <1>6
<1>8. ByteToSector(c, h, ((i + 1) - 1) * S) = blocks[i + 1]
  BY <1>7 DEF Laid
<1> QED
  BY <1>5, <1>7, <1>8

\* A write clipped to nothing changes no byte.
LEMMA WritesNothing ==
  ASSUME NEW b, NEW c, NEW h, NEW from, NEW p, Clipped(h, Len(from), p) = 0
  PROVE  WriteAt(b, c, h, from, p) = [bytes |-> b, numWritten |-> 0]
BY DEF WriteAt

\* The sectors of a write that are sector s of the disk.
SectorsIn(c, h, m, p, s) ==
  {i \in FirstSector(p) .. LastSector(m, p) : ByteToSector(c, h, i * SectorSize) = s}

\* What WriteAt leaves on sector s.
Written(b, c, h, from, m, p, s) ==
  LET index == SectorsIn(c, h, m, p, s)
      last == CHOOSE i \in index : \A j \in index : j <= i
  IN  IF index = {} THEN b[s]
      ELSE [k \in 0 .. SectorSize - 1 |->
              Buffer(b, c, h, from, m, p)[(last - FirstSector(p)) * SectorSize + k]]

\* The sectors after a WriteAt, one by one.
LEMMA WrittenIs ==
  ASSUME NEW b, NEW c, NEW h, NEW from, NEW p, NEW m, m = Clipped(h, Len(from), p), m # 0
  PROVE  /\ WriteAt(b, c, h, from, p).numWritten = m
         /\ \A s \in Sector : WriteAt(b, c, h, from, p).bytes[s] = Written(b, c, h, from, m, p, s)
<1> DEFINE w == [numWritten |-> m, bytes |-> [s \in Sector |-> Written(b, c, h, from, m, p, s)]]
<1>1. WriteAt(b, c, h, from, p) = w
  BY DEF WriteAt, Written, Buffer, SectorsIn
<1>2. w.numWritten = m /\ \A s \in Sector : w.bytes[s] = Written(b, c, h, from, m, p, s)
  OBVIOUS
<1> QED
  BY <1>1, <1>2

\* A sector that is no block of the file is not written.
LEMMA NotWritten ==
  ASSUME SectorSize \in Nat \ {0}, NEW b, NEW c, NEW h, NEW blocks, NEW Byte, NEW from,
         NEW p, NEW m, Writing(c, h, blocks, Byte, from, p, m), NEW t \in Sector,
         \A i \in FirstSector(p) .. LastSector(m, p) : blocks[i + 1] # t
  PROVE  WriteAt(b, c, h, from, p).bytes[t] = b[t]
<1>1. /\ p \in Nat /\ m \in Nat \ {0} /\ p + m <= h.numBytes /\ Laid(c, h, blocks)
      /\ m = Clipped(h, Len(from), p)
  BY WritingIs DEF Writing
<1>2. \A i \in FirstSector(p) .. LastSector(m, p) :
        ByteToSector(c, h, i * SectorSize) = blocks[i + 1]
  BY <1>1, SectorIsBlock
<1>3. SectorsIn(c, h, m, p, t) = {}
  BY <1>2 DEF SectorsIn
<1>4. WriteAt(b, c, h, from, p).bytes[t] = Written(b, c, h, from, m, p, t)
  BY <1>1, WrittenIs
<1> QED
  BY <1>3, <1>4 DEF Written

\* A block of the transfer holds what the buffer has for it.
LEMMA WrittenBlock ==
  ASSUME SectorSize \in Nat \ {0}, NEW b, NEW c, NEW h, NEW blocks, NEW Byte, NEW from,
         NEW p, NEW m, NEW i, NEW k, NEW x, NEW j,
         Writing(c, h, blocks, Byte, from, p, m), Place(m, p, i, k, x, j)
  PROVE  WriteAt(b, c, h, from, p).bytes[blocks[i + 1]][k] = Buffer(b, c, h, from, m, p)[x]
<1> DEFINE I == FirstSector(p) .. LastSector(m, p)
           t == blocks[i + 1]
           index == SectorsIn(c, h, m, p, t)
<1>1. /\ p \in Nat /\ m \in Nat \ {0} /\ p + m <= h.numBytes /\ Laid(c, h, blocks)
      /\ m = Clipped(h, Len(from), p)
  BY WritingIs DEF Writing
<1>2. \A q \in I :
        q \in Nat /\ q + 1 \in DOMAIN blocks /\ ByteToSector(c, h, q * SectorSize) = blocks[q + 1]
  BY <1>1, SectorIsBlock
<1>3. i \in I /\ t \in Sector
  <2>1. i \in I
    BY DEF Place
  <2> HIDE DEF I
  <2>2. i + 1 \in DOMAIN blocks /\ blocks \in Seq(Sector)
    BY <1>1, <1>2, <2>1 DEF Laid
  <2> QED
    BY <2>1, <2>2
<1>4. ASSUME NEW q \in I, blocks[q + 1] = t PROVE q = i
  <2>1. q + 1 = i + 1
    BY <1>1, <1>2, <1>3, <1>4 DEF Laid
  <2> QED
    BY <1>2, <1>3, <2>1
<1>5. index = {q \in I : ByteToSector(c, h, q * SectorSize) = t}
  BY DEF SectorsIn
<1> HIDE DEF I, t, index
<1>6. index = {i}
  <2>1. i \in index
    BY <1>2, <1>3, <1>5 DEF t
  <2>2. \A q \in index : q = i
    BY <1>2, <1>4, <1>5
  <2> QED
    BY <2>1, <2>2
<1>7. index # {} /\ (CHOOSE q \in index : \A r \in index : r <= q) = i
  <2>1. i <= i
    BY <1>2, <1>3
  <2> QED
    BY <1>6, <2>1
<1>8. WriteAt(b, c, h, from, p).bytes[t]
        = [y \in 0 .. SectorSize - 1 |->
             Buffer(b, c, h, from, m, p)[(i - FirstSector(p)) * SectorSize + y]]
  <2>1. WriteAt(b, c, h, from, p).bytes[t] = Written(b, c, h, from, m, p, t)
    BY <1>1, <1>3, WrittenIs
  <2> QED
    BY <1>7, <2>1 DEF index, Written
<1> DEFINE B == Buffer(b, c, h, from, m, p)
<1>9. k \in 0 .. SectorSize - 1 /\ x = (i - FirstSector(p)) * SectorSize + k
  BY DEF Place
<1> HIDE DEF B
<1>10. WriteAt(b, c, h, from, p).bytes[t]
         = [y \in 0 .. SectorSize - 1 |-> B[(i - FirstSector(p)) * SectorSize + y]]
  BY <1>8 DEF B
<1>11. WriteAt(b, c, h, from, p).bytes[t][k] = B[x]
  BY <1>9, <1>10
<1> QED
  BY <1>11 DEF t, B

\* Byte j of the file after a write: from it if it is one of those written, else as it was.
LEMMA ByteWritten ==
  ASSUME SectorSize \in Nat \ {0}, NEW b, NEW c, NEW h, NEW blocks, NEW Byte, NEW from,
         NEW p, NEW m, Writing(c, h, blocks, Byte, from, p, m), NEW j \in 0 .. h.numBytes - 1
  PROVE  LET w == WriteAt(b, c, h, from, p).bytes
         IN  /\ j \in p .. p + m - 1 => ByteAt(w, blocks, j) = from[j - p + 1]
             /\ j \notin p .. p + m - 1 => ByteAt(w, blocks, j) = ByteAt(b, blocks, j)
<1> DEFINE S == SectorSize
           f == FirstSector(p)
           l == LastSector(m, p)
           d == j \div S
           r == j % S
           x == (d - f) * S + r
           w == WriteAt(b, c, h, from, p).bytes
           buf == Buffer(b, c, h, from, m, p)
<1>1. /\ p \in Nat /\ m \in Nat \ {0} /\ m <= Len(from) /\ p + m <= h.numBytes
      /\ Laid(c, h, blocks) /\ from \in Seq(Byte) /\ h.numBytes \in Nat
  BY WritingIs DEF Writing
<1>2. /\ d + 1 \in DOMAIN blocks /\ blocks[d + 1] \in Sector
      /\ d \in Nat /\ r \in 0 .. S - 1
  BY <1>1, BlockIs
<1>3. j = d * S + r /\ j \in Nat
  <2>1. j \in Nat
    BY <1>1
  <2> QED
    BY <2>1, DivMod
<1>4. ByteAt(w, blocks, j) = w[blocks[d + 1]][r] /\ ByteAt(b, blocks, j) = b[blocks[d + 1]][r]
  BY DEF ByteAt
<1>5. /\ f \in Nat /\ l \in Nat /\ f * S <= p /\ p + m - 1 < l * S + S
      /\ f * S \in Nat /\ l * S \in Nat /\ d * S \in Nat
  <2>1. 1 \in 1 .. m
    BY <1>1
  <2>2. f \in Nat /\ l \in Nat /\ p - f * S \in 0 .. S - 1
    BY <1>1, <2>1, InBuffer
  <2>3. p + m - 1 < l * S + S
    BY <1>1, LastSectorIs
  <2> HIDE DEF f, l, d
  <2>4. f * S \in Nat /\ l * S \in Nat /\ d * S \in Nat
    BY <1>2, <2>2, TimesType
  <2>5. f * S <= p
    BY <1>1, <2>2, <2>4
  <2> QED
    BY <2>2, <2>3, <2>4, <2>5
<1> HIDE DEF d, r, buf, w
<1>6. CASE d \in f .. l
  <2>1. Place(m, p, d, r, x, j)
    BY <1>1, <1>2, <1>3, <1>6 DEF Place
  <2> HIDE DEF x
  <2>2. w[blocks[d + 1]][r] = buf[x]
    BY <2>1, WrittenBlock DEF w, buf
  <2>3. j \in p .. p + m - 1 => buf[x] = from[j - p + 1]
    <3> SUFFICES ASSUME j \in p .. p + m - 1
                 PROVE  Buffer(b, c, h, from, m, p)[x] = from[j - p + 1]
      BY DEF buf
    <3> QED
      BY <2>1, BufferTakes
  <2>4. Spared(h, m, p, j) => buf[x] = ByteAt(b, blocks, j)
    <3> SUFFICES ASSUME Spared(h, m, p, j)
                 PROVE  Buffer(b, c, h, from, m, p)[x] = ByteAt(b, blocks, j)
      BY DEF buf
    <3> QED
      BY <2>1, BufferKeeps
  <2>5. j \notin p .. p + m - 1 => Spared(h, m, p, j)
    BY <1>1 DEF Spared
  <2> QED
    BY <1>4, <2>2, <2>3, <2>4, <2>5 DEF w
<1>7. CASE d \notin f .. l
  <2>1. \A i \in f .. l : blocks[i + 1] # blocks[d + 1]
    <3> SUFFICES ASSUME NEW i \in f .. l, blocks[i + 1] = blocks[d + 1] PROVE FALSE
      OBVIOUS
    <3>1. i \in Nat /\ i + 1 \in DOMAIN blocks
      BY <1>1, SectorIsBlock
    <3>2. i + 1 = d + 1
      BY <1>1, <1>2, <3>1 DEF Laid
    <3>3. i = d
      BY <1>2, <3>1, <3>2
    <3> QED
      BY <1>7, <3>3
  <2>2. w[blocks[d + 1]] = b[blocks[d + 1]]
    BY <1>2, <2>1, NotWritten DEF w
  <2>3. j \notin p .. p + m - 1
    <3> HIDE DEF f, l
    <3>1. d < f \/ l < d
      BY <1>2, <1>5, <1>7
    <3>2. CASE d < f
      <4>1. d * S + S <= f * S
        BY <1>2, <1>5, <3>2, TimesNext
      <4> DEFINE D == d * S
                 F == f * S
      <4>2. D + S <= F /\ F <= p /\ D \in Nat /\ F \in Nat /\ j = D + r
        BY <1>3, <1>5, <4>1
      <4> HIDE DEF D, F
      <4> QED
        BY <1>1, <1>2, <4>2
    <3>3. CASE l < d
      <4>1. l * S + S <= d * S
        BY <1>2, <1>5, <3>3, TimesNext
      <4> DEFINE D == d * S
                 E == l * S
      <4>2. E + S <= D /\ p + m - 1 < E + S /\ D \in Nat /\ E \in Nat /\ j = D + r
        BY <1>3, <1>5, <4>1
      <4> HIDE DEF D, E
      <4> QED
        BY <1>1, <1>2, <4>2
    <3> QED
      BY <3>1, <3>2, <3>3
  <2> QED
    BY <1>4, <2>2, <2>3 DEF w
<1> QED
  BY <1>6, <1>7

\* A write changes no sector that is not a block of the file.
LEMMA OthersUnchanged ==
  ASSUME SectorSize \in Nat \ {0}, NEW b, NEW c, NEW h, NEW blocks, NEW Byte, NEW from,
         NEW p, NEW m, Writing(c, h, blocks, Byte, from, p, m), NEW s \in Sector,
         \A i \in DOMAIN blocks : blocks[i] # s
  PROVE  WriteAt(b, c, h, from, p).bytes[s] = b[s]
<1>1. /\ p \in Nat /\ m \in Nat \ {0} /\ p + m <= h.numBytes /\ Laid(c, h, blocks)
  BY WritingIs DEF Writing
<1>2. \A i \in FirstSector(p) .. LastSector(m, p) : blocks[i + 1] # s
  BY <1>1, SectorIsBlock
<1> QED
  BY <1>2, NotWritten

\* A write changes, of all bytes of the file and of all sectors of the disk, those
\* bytes of the file it is told to write and no other; reading them back returns
\* what was written.
THEOREM WritesAreExact ==
  ASSUME SectorSize \in Nat \ {0}, NEW b, NEW c, NEW h, NEW blocks, Laid(c, h, blocks),
         NEW Byte, NEW from \in Seq(Byte), NEW p \in Nat
  PROVE  WriteIsExact(b, c, h, blocks, p, from)
<1> DEFINE L == h.numBytes
           n == Len(from)
           m == Clipped(h, n, p)
           v == WriteAt(b, c, h, from, p)
           w == Write(b, c, Seek(Opened(h), p), from)
           x == ReadAt(v.bytes, c, h, n, p)
           r == Read(w.result.bytes, c, Seek(Opened(h), p), n)
           old == BytesOf(b, blocks, L)
           new == BytesOf(v.bytes, blocks, L)
<1>1. L \in Nat /\ n \in Nat /\ p \in Nat /\ m \in 0 .. n
  <2>1. L \in Nat /\ n \in Nat
    BY DEF Laid
  <2> HIDE DEF n
  <2> QED
    BY <2>1, ClippedIs
<1>2. /\ w.result = v
      /\ w.file = [hdr |-> h, seekPosition |-> p + v.numWritten]
  BY DEF Write, Seek, Opened
<1>3. /\ r.result = x
      /\ r.file = [hdr |-> h, seekPosition |-> p + Len(x)]
  BY <1>2 DEF Read, Seek, Opened
<1>4. v.numWritten = m
  <2>1. CASE m = 0
    BY <2>1, WritesNothing
  <2>2. CASE m # 0
    BY <2>2, WrittenIs
  <2> QED
    BY <2>1, <2>2
<1>5. m # 0 => Writing(c, h, blocks, Byte, from, p, m)
  BY DEF Writing
<1> HIDE DEF m, v, w, r, x
<1>6. ASSUME NEW j \in 0 .. L - 1
      PROVE  /\ j \in p .. p + m - 1 => ByteAt(v.bytes, blocks, j) = from[j - p + 1]
             /\ j \notin p .. p + m - 1 => ByteAt(v.bytes, blocks, j) = ByteAt(b, blocks, j)
  <2>1. CASE m = 0
    <3>1. v.bytes = b
      BY <2>1, WritesNothing DEF m, v
    <3>2. j \notin p .. p + m - 1
      BY <1>1, <2>1
    <3> QED
      BY <3>1, <3>2
  <2>2. CASE m # 0
    BY <1>5, <2>2, ByteWritten DEF v
  <2> QED
    BY <2>1, <2>2
<1>7. m = IF p >= L THEN 0 ELSE IF p + n > L THEN L - p ELSE n
  BY <1>1 DEF m, Clipped
<1>8. new = [i \in 1 .. L |-> IF i \in p + 1 .. p + m THEN from[i - p] ELSE old[i]]
  <2>1. ASSUME NEW i \in 1 .. L
        PROVE  new[i] = IF i \in p + 1 .. p + m THEN from[i - p] ELSE old[i]
    <3> DEFINE j == i - 1
    <3>1. j \in 0 .. L - 1 /\ j - p + 1 = i - p /\ (j \in p .. p + m - 1 <=> i \in p + 1 .. p + m)
      BY <1>1, <2>1
    <3>2. new[i] = ByteAt(v.bytes, blocks, j) /\ old[i] = ByteAt(b, blocks, j)
      BY <2>1 DEF BytesOf, ByteAt
    <3> HIDE DEF j, old, new
    <3>3. /\ j \in p .. p + m - 1 => ByteAt(v.bytes, blocks, j) = from[j - p + 1]
          /\ j \notin p .. p + m - 1 => ByteAt(v.bytes, blocks, j) = ByteAt(b, blocks, j)
      BY <1>6, <3>1
    <3> QED
      BY <3>1, <3>2, <3>3
  <2>2. new = [i \in 1 .. L |-> new[i]]
    BY DEF BytesOf
  <2> HIDE DEF new, old
  <2> QED
    BY <2>1, <2>2
<1>9. ASSUME NEW s \in Sector, \A i \in DOMAIN blocks : blocks[i] # s
      PROVE  v.bytes[s] = b[s]
  <2>1. CASE m = 0
    BY <2>1, WritesNothing DEF m, v
  <2>2. CASE m # 0
    BY <1>5, <1>9, <2>2, OthersUnchanged DEF v
  <2> QED
    BY <2>1, <2>2
<1>10. x = SubSeq(from, 1, m) /\ Len(x) = m
  <2>1. x = [i \in 1 .. m |-> x[i]] /\ DOMAIN x = 1 .. m
    BY DEF ReadAt, x, m
  <2>2. Len(x) = m
    BY <1>1, ReadAtLength DEF x, m
  <2>3. ASSUME NEW i \in 1 .. m PROVE x[i] = from[i]
    <3> DEFINE j == p + i - 1
    <3>1. p + m <= L
      BY <1>1, <2>3, ClippedIs DEF m
    <3>2. j \in 0 .. L - 1 /\ j \in p .. p + m - 1 /\ j - p + 1 = i
      BY <1>1, <2>3, <3>1
    <3>3. x[i] = ByteAt(v.bytes, blocks, j)
      BY <1>1, <2>3, ReadAtByte DEF x, m
    <3> HIDE DEF j
    <3> QED
      BY <1>6, <3>2, <3>3
  <2>4. Len(SubSeq(from, 1, m)) = m /\ \A i \in 1 .. m : SubSeq(from, 1, m)[i] = from[i]
    BY <1>1, SubSeqIs
  <2>5. SubSeq(from, 1, m) = [i \in 1 .. m |-> from[i]]
    BY <1>1, <2>4
  <2>6. x = [i \in 1 .. m |-> from[i]]
    BY <2>1, <2>3
  <2> QED
    BY <2>2, <2>5, <2>6
<1>11. w.file.seekPosition = p + m /\ r.file = w.file
  <2>1. w.file = [hdr |-> h, seekPosition |-> p + m]
    BY <1>2, <1>4
  <2>2. r.file = [hdr |-> h, seekPosition |-> p + m]
    BY <1>3, <1>10
  <2> QED
    BY <2>1, <2>2
<1> HIDE DEF old, new
<1>12. /\ w.result.numWritten = m /\ r.result = SubSeq(from, 1, m)
       /\ w.result.bytes = v.bytes
  BY <1>2, <1>3, <1>4, <1>10
<1> QED
  BY <1>7, <1>8, <1>9, <1>11, <1>12 DEF WriteIsExact, w, r, old, new, n, L

-------------------------------------------------------------------------------
(* Headers *)

MaxSize == NumDirect * Limit4

\* A header of a file of at most cap bytes.
Sized(h, cap) ==
  h \in Header /\ h.numBytes \in 1 .. cap /\ h.numSectors = DivRoundUp(h.numBytes, SectorSize)

\* A file of at most Limit2 bytes has no sub-headers.
IsLeaf(h) == h.numBytes <= Limit2

\* A header has room for the sub-headers of a file it may have, and each of them,
\* one level down, for its share.
LEMMA SharesFit ==
  ASSUME NEW size \in 1 .. MaxSize, ~(size <= Limit2)
  PROVE  /\ Share(size) \in Nat \ {0} /\ Limit2 <= Share(size)
         /\ DivRoundUp(size, Share(size)) \in 1 .. NumDirect
         /\ size <= Limit3 => Share(size) = Limit2
         /\ size <= Limit4 => Share(size) <= Limit3
         /\ Share(size) <= Limit4
<1> DEFINE c == Share(size)
           k == DivRoundUp(size, c)
<1>0. size \in Nat /\ MaxSize \in Nat /\ NumDirect \in Nat
  BY Limits DEF MaxSize
<1>1. c \in Nat \ {0} /\ Limit2 <= c /\ c <= Limit4
  BY <1>0, Limits DEF Share
<1>2. size <= NumDirect * c
  BY <1>0, Limits DEF Share, MaxSize
<1>3. k \in Nat /\ k <= NumDirect /\ size <= k * c
  <2> HIDE DEF c
  <2> QED
    BY <1>0, <1>1, <1>2, RoundedUp
<1>4. k # 0
  <2> HIDE DEF c, k
  <2>1. 0 * c = 0
    BY <1>1
  <2> QED
    BY <1>0, <1>3, <2>1
<1>5. (size <= Limit3 => c = Limit2) /\ (size <= Limit4 => c <= Limit3)
  BY <1>0, Limits DEF Share
<1> HIDE DEF c, k
<1>6. k \in 1 .. NumDirect
  BY <1>0, <1>3, <1>4
<1> QED
  BY <1>1, <1>5, <1>6 DEF c, k

\* A header without sub-headers has room for its blocks.
LEMMA BlocksFit ==
  ASSUME NEW size \in Nat, size <= Limit2
  PROVE  DivRoundUp(size, SectorSize) \in 0 .. NumDirect
BY RoundedUp, Limits DEF Limit2

\* The places of a header that are in use are places of its table of sectors.
LEMMA SlotsFit ==
  ASSUME NEW h, Sized(h, MaxSize)
  PROVE  Slots(h) \subseteq Direct /\ (Children(h) > 0 <=> ~IsLeaf(h))
<1>1. h.numBytes \in Nat /\ h.numBytes \in 1 .. MaxSize /\ Limit2 \in Nat /\ NumDirect \in Nat
  BY Limits DEF Sized, Header, MaxSize
<1>2. CASE IsLeaf(h)
  <2>1. Children(h) = 0 /\ h.numBytes <= Limit2
    BY <1>1, <1>2 DEF Children, IsLeaf
  <2>2. h.numSectors \in 0 .. NumDirect
    BY <1>1, <2>1, BlocksFit DEF Sized
  <2> QED
    BY <1>1, <1>2, <2>1, <2>2 DEF Slots, Direct
<1>3. CASE ~IsLeaf(h)
  <2>1. Children(h) \in 1 .. NumDirect
    BY <1>1, <1>3, SharesFit DEF Children, IsLeaf
  <2> QED
    BY <1>1, <1>3, <2>1 DEF Slots, Direct
<1> QED
  BY <1>2, <1>3

-------------------------------------------------------------------------------
(* The world an operation works on *)

Image == [onDisk : SUBSET Sector, content : Content]

\* The fields of what an operation works on.
LEMMA WorldIs ==
  ASSUME NEW w
  PROVE  w \in World <=>
           /\ w = [map |-> w.map, onDisk |-> w.onDisk, content |-> w.content,
                   aborted |-> w.aborted, past |-> w.past]
           /\ w.map \subseteq Sector /\ w.onDisk \subseteq Sector
           /\ w.content \in Content /\ w.aborted \in BOOLEAN /\ w.past \in Seq(Image)
BY DEF World, Image

\* What can be stored in a sector.
Stored == Header \cup {Data} \cup [kind : {"table"}, entry : [1 .. NumDirEntries -> Entry]]

\* What an abort leaves.
LEMMA AbortKeeps ==
  ASSUME NEW w \in World
  PROVE  /\ Abort(w) \in World /\ Abort(w).aborted
         /\ Abort(w).onDisk = w.onDisk /\ Abort(w).content = w.content /\ Abort(w).map = w.map
BY DEF World, Abort

\* To remember the disk changes nothing else.
LEMMA FlushedKeeps ==
  ASSUME NEW w \in World
  PROVE  /\ Flushed(w) \in World /\ Flushed(w).aborted = w.aborted
         /\ Flushed(w).onDisk = w.onDisk /\ Flushed(w).content = w.content
         /\ Flushed(w).map = w.map
<1>1. [onDisk |-> w.onDisk, content |-> w.content] \in Image
  BY DEF World, Image
<1>2. w.past \in Seq(Image)
  BY WorldIs
<1>3. Append(w.past, [onDisk |-> w.onDisk, content |-> w.content]) \in Seq(Image)
  BY <1>1, <1>2
<1> QED
  BY <1>3 DEF World, Image, Flushed

Put(c, s, x) == [c EXCEPT ![s] = x]

\* One sector is written, the others are as they were.
LEMMA PutIs ==
  ASSUME NEW c \in Content, NEW s \in Sector, NEW x \in Stored
  PROVE  /\ Put(c, s, x) \in Content /\ Put(c, s, x)[s] = x
         /\ \A t \in Sector : t # s => Put(c, s, x)[t] = c[t]
BY DEF Put, Content, Stored

\* A write goes to its sector or aborts.
LEMMA WriteSectorIs ==
  ASSUME NEW w \in World, NEW s, NEW c \in Stored, NEW v, v = WriteSector(w, s, c)
  PROVE  /\ v \in World /\ v.onDisk = w.onDisk /\ v.map = w.map
         /\ v.aborted <=> (w.aborted \/ s \notin Sector)
         /\ v.content = IF v.aborted THEN w.content ELSE Put(w.content, s, c)
<1> DEFINE u == [w EXCEPT !.content[s] = c]
<1>1. w.aborted \in BOOLEAN
  BY DEF World
<1>2. CASE w.aborted
  BY <1>2 DEF WriteSector
<1>3. CASE ~w.aborted /\ s \notin Sector
  BY <1>3, AbortKeeps DEF WriteSector
<1>4. CASE ~w.aborted /\ s \in Sector
  <2>1. Put(w.content, s, c) \in Content
    BY <1>4, PutIs DEF World
  <2>2. u = [w EXCEPT !.content = Put(w.content, s, c)]
    BY DEF World, Put
  <2>3. /\ u \in World /\ u.onDisk = w.onDisk /\ u.map = w.map /\ u.aborted = w.aborted
        /\ u.content = Put(w.content, s, c)
    BY <2>1, <2>2 DEF World
  <2> HIDE DEF u
  <2>4. v = Flushed(u)
    BY <1>4 DEF WriteSector, u
  <2> QED
    BY <1>4, <2>3, <2>4, FlushedKeeps
<1> QED
  BY <1>1, <1>2, <1>3, <1>4

-------------------------------------------------------------------------------
(* The bitmap *)

\* Sets of sectors can be counted.
LEMMA SectorsAreFinite ==
  ASSUME NEW A \in SUBSET Sector
  PROVE  IsFiniteSet(A) /\ Cardinality(A) \in Nat /\ A \in SUBSET Nat
<1>1. IsFiniteSet(Sector) /\ Sector \subseteq Nat
  BY Limits, FS_Interval DEF Sector
<1>2. IsFiniteSet(A)
  BY <1>1, FS_Subset
<1> QED
  BY <1>1, <1>2, FS_CardinalityType

\* FindAndSet finds a sector that is free, or none is.
LEMMA FoundIsFree ==
  ASSUME NEW w
  PROVE  \/ FindAndSet(w) \in Free(w) /\ FindAndSet(w) \in Sector /\ FindAndSet(w) \notin w.map
         \/ FindAndSet(w) = -1 /\ FindAndSet(w) \notin Sector
<1>1. Free(w) \in SUBSET Sector /\ Free(w) \in SUBSET Nat /\ -1 \notin Sector
  BY Limits DEF Free, Sector
<1>2. CASE Free(w) = {}
  BY <1>1, <1>2 DEF FindAndSet
<1>3. CASE Free(w) # {}
  <2>1. \E s \in Free(w) : \A t \in Free(w) : s <= t
    BY <1>1, <1>3, LeastExists
  <2>2. FindAndSet(w) \in Free(w)
    BY <1>3, <2>1 DEF FindAndSet
  <2> QED
    BY <1>1, <2>2 DEF Free
<1> QED
  BY <1>2, <1>3

\* Marked marks one sector.
LEMMA MarkedIs ==
  ASSUME NEW w \in World, NEW s
  PROVE  /\ Marked(w, s) \in World
         /\ Marked(w, s).onDisk = w.onDisk /\ Marked(w, s).content = w.content
         /\ Marked(w, s).aborted = w.aborted
         /\ Marked(w, s).map = w.map \cup ({s} \cap Sector)
BY DEF World, Marked

Before(A, s) == {t \in A : t < s}

\* There are more elements before a greater one.
LEMMA BeforeGrows ==
  ASSUME NEW A \in SUBSET Nat, IsFiniteSet(A), NEW i \in A, NEW j \in A, i < j
  PROVE  /\ Cardinality(Before(A, i)) \in Nat /\ Cardinality(Before(A, j)) \in Nat
         /\ Cardinality(Before(A, i)) < Cardinality(Before(A, j))
<1>1. Before(A, i) \subseteq Before(A, j) /\ i \in Before(A, j) \ Before(A, i)
  <2>1. \A t \in A : t < i => t < j
    OBVIOUS
  <2>2. ~(i < i)
    OBVIOUS
  <2> QED
    BY <2>1, <2>2 DEF Before
<1>2. Before(A, j) \subseteq A
  BY DEF Before
<1>3. IsFiniteSet(Before(A, j)) /\ IsFiniteSet(Before(A, i))
  BY <1>1, <1>2, FS_Subset
<1>4. Cardinality(Before(A, i)) # Cardinality(Before(A, j))
  BY <1>1, <1>3, FS_Subset
<1>5. Cardinality(Before(A, i)) <= Cardinality(Before(A, j))
  BY <1>1, <1>3, FS_Subset
<1> QED
  BY <1>3, <1>4, <1>5, FS_CardinalityType

\* The elements of A stand at the places 0 to Cardinality(A) - 1, each at one.
LEMMA EachPlaceHasOne ==
  ASSUME NEW A \in SUBSET Nat, IsFiniteSet(A), NEW n \in 0 .. Cardinality(A) - 1
  PROVE  \E s \in A : Cardinality(Before(A, s)) = n
<1> DEFINE T == 0 .. Cardinality(A) - 1
           f == [s \in A |-> Cardinality(Before(A, s))]
<1>1. Cardinality(A) \in Nat /\ IsFiniteSet(T) /\ Cardinality(T) = Cardinality(A)
  <2>1. Cardinality(A) \in Nat
    BY FS_CardinalityType
  <2>2. Cardinality(A) > 0
    BY <2>1
  <2> QED
    BY <2>1, <2>2, FS_Interval
<1>2. f \in [A -> T]
  <2> SUFFICES ASSUME NEW s \in A PROVE Cardinality(Before(A, s)) \in T
    OBVIOUS
  <2>1. Before(A, s) \subseteq A /\ s \notin Before(A, s)
    BY DEF Before
  <2>2. Cardinality(Before(A, s)) <= Cardinality(A) /\ Cardinality(Before(A, s)) # Cardinality(A)
    BY <2>1, FS_Subset
  <2>3. Cardinality(Before(A, s)) \in Nat
    BY <2>1, FS_Subset, FS_CardinalityType
  <2> QED
    BY <1>1, <2>2, <2>3
<1>3. \A i, j \in A : f[i] = f[j] => i = j
  <2> SUFFICES ASSUME NEW i \in A, NEW j \in A, i # j PROVE f[i] # f[j]
    OBVIOUS
  <2>1. i < j \/ j < i
    OBVIOUS
  <2>2. f[i] \in Nat /\ f[j] \in Nat
    BY <1>1, <1>2
  <2>3. f[i] < f[j] \/ f[j] < f[i]
    BY <2>1, BeforeGrows
  <2> QED
    BY <2>2, <2>3
<1> HIDE DEF f
<1>4. f \in Injection(A, T)
  BY <1>2, <1>3, Fun_IsInj
<1>5. f \in Surjection(A, T)
  BY <1>1, <1>4, FS_Injection
<1> QED
  BY <1>5 DEF f, Surjection

\* What FindAndSet finds in turn is free, and different each time, as long as
\* NumClear says there is one.
LEMMA FoundAfterIs ==
  ASSUME NEW w, NEW n \in Nat, n <= NumClear(w)
  PROVE  /\ \A i \in 0 .. n - 1 : FoundAfter(w, i) \in Free(w)
         /\ \A i, j \in 0 .. n - 1 : FoundAfter(w, i) = FoundAfter(w, j) => i = j
<1>1. IsFiniteSet(Free(w)) /\ Free(w) \in SUBSET Nat /\ Cardinality(Free(w)) \in Nat
  BY SectorsAreFinite DEF Free
<1>2. ASSUME NEW i \in 0 .. n - 1
      PROVE  FoundAfter(w, i) \in Free(w) /\ Cardinality(Before(Free(w), FoundAfter(w, i))) = i
  <2>1. i \in 0 .. Cardinality(Free(w)) - 1
    BY <1>1 DEF NumClear
  <2>2. \E s \in Free(w) : Cardinality(Before(Free(w), s)) = i
    BY <1>1, <2>1, EachPlaceHasOne
  <2> QED
    BY <2>2 DEF FoundAfter, Before
<1> QED
  BY <1>2

-------------------------------------------------------------------------------
(* FileHeader::Allocate *)

\* What an allocation leaves as it was: the bitmap on the disk, what is marked,
\* and what is in the sectors it did not mark.
OnlyMarks(w, v) ==
  /\ v \in World /\ v.onDisk = w.onDisk /\ w.map \subseteq v.map
  /\ \A t \in Sector : v.content[t] = w.content[t] \/ t \in v.map \ w.map

\* The places of the header h that name a sector name one of new, those of a
\* header with sub-headers a header of N, those of another one none.
Names(h, N, new) ==
  \A i \in Direct : h.dataSectors[i] \in Sector =>
    h.dataSectors[i] \in new /\ (h.dataSectors[i] \in N <=> ~IsLeaf(h))

\* No two places of the headers N name the same sector.
NoneShared(c, N) ==
  \A x, y \in N, i, j \in Direct :
    c[x].dataSectors[i] \in Sector /\ c[x].dataSectors[i] = c[y].dataSectors[j]
      => x = y /\ i = j

\* The sub-headers N that h names are for their share of its bytes.
Shares(c, h, N) ==
  \A i \in Direct : h.dataSectors[i] \in N =>
    c[h.dataSectors[i]].numBytes = SubSize(h.numBytes, i)

\* The header h with the sub-headers N takes sectors of new only, each once.
Takes(c, h, N, new) ==
  /\ N \subseteq new
  /\ Names(h, N, new) /\ Shares(c, h, N)
  /\ \A x \in N : Sized(c[x], MaxSize) /\ Names(c[x], N, new) /\ Shares(c, c[x], N)
  /\ \A i, j \in Direct :
       h.dataSectors[i] \in Sector /\ h.dataSectors[i] = h.dataSectors[j] => i = j
  /\ \A i, j \in Direct, x \in N :
       h.dataSectors[i] \in Sector => h.dataSectors[i] # c[x].dataSectors[j]
  /\ NoneShared(c, N)

Allocated(w, size, a) ==
  /\ OnlyMarks(w, a.w)
  /\ Sized(a.header, MaxSize) /\ a.header.numBytes = size
  /\ ~a.w.aborted => \E N \in SUBSET Sector : Takes(a.w.content, a.header, N, a.w.map \ w.map)

\* The places from number k on are not filled yet.
AllocatedUpTo(w, size, a, k) ==
  Allocated(w, size, a) /\ \A i \in Direct : i >= k => a.header.dataSectors[i] = -1

\* A fresh header has no sectors.
LEMMA NewHeaderIs ==
  ASSUME NEW size \in 1 .. MaxSize
  PROVE  /\ Sized(NewHeader(size), MaxSize) /\ NewHeader(size).numBytes = size
         /\ \A i \in Direct : NewHeader(size).dataSectors[i] = -1
         /\ NewHeader(size).dataSectors = [i \in Direct |-> -1]
<1>1. size \in Nat /\ DivRoundUp(size, SectorSize) \in Nat
  BY RoundedUp, Limits DEF MaxSize
<1> QED
  BY <1>1 DEF NewHeader, Sized, Header

\* Before the first turn, and when there is not enough space, nothing is taken.
LEMMA NothingTaken ==
  ASSUME NEW w \in World, NEW size \in 1 .. MaxSize
  PROVE  AllocatedUpTo(w, size, [w |-> w, header |-> NewHeader(size), ok |-> TRUE], 0)
         /\ Allocated(w, size, NotAllocated(w, size))
<1>1. -1 \notin Sector
  BY DEF Sector
<1>2. Takes(w.content, NewHeader(size), {}, w.map \ w.map)
  BY <1>1, NewHeaderIs DEF Takes, Names, Shares, NoneShared
<1>3. OnlyMarks(w, w)
  BY DEF OnlyMarks
<1> QED
  BY <1>2, <1>3, NewHeaderIs DEF AllocatedUpTo, Allocated, NotAllocated

\* Allocate, for a file without sub-headers.
LEMMA BlocksAllocated ==
  ASSUME NEW w \in World, NEW size \in 1 .. Limit2
  PROVE  Allocated(w, size, AllocateBlocks(w, size))
<1> DEFINE n == DivRoundUp(size, SectorSize)
           new == {FoundAfter(w, i) : i \in 0 .. n - 1}
           v == [w EXCEPT !.map = @ \cup new]
           d == [i \in Direct |-> IF i < n THEN FoundAfter(w, i) ELSE -1]
           h == [NewHeader(size) EXCEPT !.dataSectors = d]
<1>0. size \in Nat /\ size <= Limit2 /\ size \in 1 .. MaxSize
  BY Limits DEF MaxSize
<1>1. n \in 0 .. NumDirect
  BY <1>0, BlocksFit
<1>2. CASE ~Enough(w, size)
  BY <1>0, <1>2, NothingTaken DEF AllocateBlocks
<1>3. CASE Enough(w, size)
  <2>1. n <= NumClear(w) /\ n \in Nat
    <3>1. NumClear(w) \in Nat
      BY SectorsAreFinite DEF NumClear, Free
    <3> QED
      BY <1>1, <1>3, <3>1 DEF Enough
  <2>2. /\ \A i \in 0 .. n - 1 : FoundAfter(w, i) \in Sector \ w.map
        /\ \A i, j \in 0 .. n - 1 : FoundAfter(w, i) = FoundAfter(w, j) => i = j
    BY <2>1, FoundAfterIs DEF Free
  <2>3. AllocateBlocks(w, size) = [w |-> v, header |-> h, ok |-> TRUE]
    BY <1>3 DEF AllocateBlocks
  <2> HIDE DEF n
  <2>4. v \in World /\ v.map = w.map \cup new /\ v.onDisk = w.onDisk /\ v.content = w.content
    BY <2>2 DEF World
  <2>5. OnlyMarks(w, v)
    BY <2>4 DEF OnlyMarks
  <2>6. -1 \notin Sector /\ Direct \subseteq Nat /\ Sector \subseteq Nat /\ new \subseteq Sector
    BY <2>2, Limits DEF Sector, Direct
  <2>7. \A i \in Direct : /\ i < n => d[i] = FoundAfter(w, i) /\ i \in 0 .. n - 1
                          /\ d[i] \in Sector => i < n
                          /\ d[i] \in Int
    <3> TAKE i \in Direct
    <3>1. CASE i < n
      <4>1. i \in 0 .. n - 1
        BY <2>1, <2>6, <3>1
      <4>2. FoundAfter(w, i) \in Sector /\ FoundAfter(w, i) \in Nat
        BY <2>2, <2>6, <4>1
      <4> QED
        BY <3>1, <4>1, <4>2
    <3>2. CASE ~(i < n)
      BY <2>6, <3>2
    <3> QED
      BY <3>1, <3>2
  <2>8. Sized(h, MaxSize) /\ h.numBytes = size /\ h.dataSectors = d
    <3>1. d \in [Direct -> Int]
      BY <2>7
    <3>2. NewHeader(size) \in Header /\ Sized(NewHeader(size), MaxSize)
           /\ NewHeader(size).numBytes = size
      BY <1>0, NewHeaderIs DEF Sized
    <3> HIDE DEF d
    <3> QED
      BY <3>1, <3>2 DEF Header, Sized
  <2>9. v.map \ w.map = new
    BY <2>2, <2>4
  <2> HIDE DEF d, h, v
  <2>10. Takes(v.content, h, {}, new)
    <3>1. IsLeaf(h)
      BY <1>0, <2>8 DEF IsLeaf
    <3>2. Names(h, {}, new)
      BY <2>7, <2>8, <3>1 DEF Names
    <3> QED
      BY <2>2, <2>7, <2>8, <3>2 DEF Takes, Shares, NoneShared
  <2>11. AllocateBlocks(w, size).w = v /\ AllocateBlocks(w, size).header = h
    BY <2>3
  <2>12. \E N \in SUBSET Sector : Takes(v.content, h, N, v.map \ w.map)
    BY <2>9, <2>10
  <2> QED
    BY <2>5, <2>8, <2>11, <2>12 DEF Allocated
<1> QED
  BY <1>2, <1>3

\* The header h with the sector s at number i.
WithSub(h, i, s) == [h EXCEPT !.dataSectors[i] = s]

\* One more sector number in a header changes no other.
LEMMA WithSubIs ==
  ASSUME NEW h \in Header, NEW i \in Direct, NEW s \in Int
  PROVE  /\ WithSub(h, i, s) \in Header /\ WithSub(h, i, s).numBytes = h.numBytes
         /\ WithSub(h, i, s).numSectors = h.numSectors
         /\ WithSub(h, i, s).dataSectors[i] = s
         /\ \A j \in Direct : j # i => WithSub(h, i, s).dataSectors[j] = h.dataSectors[j]
<1>1. [h.dataSectors EXCEPT ![i] = s] \in [Direct -> Int]
  BY DEF Header
<1>2. WithSub(h, i, s) = [h EXCEPT !.dataSectors = [h.dataSectors EXCEPT ![i] = s]]
  BY DEF Header, WithSub
<1> QED
  BY <1>1, <1>2 DEF Header

\* One more sub-header s, with what was allocated to it.
LEMMA SubHeaderTaken ==
  ASSUME NEW c1, NEW h, NEW N1, NEW new1, Takes(c1, h, N1, new1), ~IsLeaf(h),
         h \in Header,
         NEW c2, NEW g, NEW N2, NEW new2, Takes(c2, g, N2, new2), Sized(g, MaxSize),
         NEW s \in Sector, NEW new \in SUBSET Sector, new1 \cup {s} \cup new2 \subseteq new,
         new1 \cap new2 = {}, s \notin new1, s \notin new2,
         c2 \in Content, \A x \in N1 : c2[x] = c1[x],
         NEW i \in Direct, h.dataSectors[i] \notin Sector,
         g.numBytes = SubSize(h.numBytes, i)
  PROVE  Takes(Put(c2, s, g), WithSub(h, i, s), N1 \cup {s} \cup N2, new)
<1> DEFINE N == N1 \cup {s} \cup N2
           c == Put(c2, s, g)
           f == WithSub(h, i, s)
<1>0. /\ \A x \in N1 : c[x] = c1[x]
      /\ \A x \in N2 : c[x] = c2[x]
      /\ c[s] = g
  <2>1. g \in Stored /\ N1 \subseteq Sector /\ N2 \subseteq Sector /\ s \notin N1 /\ s \notin N2
    BY DEF Takes, Sized, Stored
  <2> QED
    BY <2>1, PutIs
<1>1. N1 \subseteq new1 /\ N2 \subseteq new2 /\ N \subseteq new
  BY DEF Takes
<1>2. \A t \in new1 : t \in N <=> t \in N1
  BY <1>1
<1>3. \A t \in new2 : t \in N <=> t \in N2
  BY <1>1
<1>4. /\ f.dataSectors[i] = s /\ f.numBytes = h.numBytes
      /\ \A j \in Direct : j # i => f.dataSectors[j] = h.dataSectors[j]
  BY WithSubIs, Limits DEF Sector
<1> HIDE DEF f, c
<1>5. \A j \in Direct : h.dataSectors[j] \in Sector => h.dataSectors[j] \in new1 /\ h.dataSectors[j] \in N1
  BY DEF Takes, Names
<1>6. \A x \in N1, j \in Direct : c[x].dataSectors[j] \in Sector => c[x].dataSectors[j] \in new1
  BY <1>0 DEF Takes, Names
<1>7. \A x \in N2 \cup {s}, j \in Direct : c[x].dataSectors[j] \in Sector => c[x].dataSectors[j] \in new2
  BY <1>0 DEF Takes, Names
<1>8. Names(f, N, new)
  BY <1>0, <1>1, <1>4, <1>5 DEF Names, IsLeaf
<1>9. \A x \in N : Sized(c[x], MaxSize)
  BY <1>0 DEF Takes
<1>10. ASSUME NEW x \in N PROVE Names(c[x], N, new)
  <2>1. CASE x \in N1
    BY <1>0, <1>2, <2>1 DEF Takes, Names
  <2>2. CASE x \in N2
    BY <1>0, <1>3, <2>2 DEF Takes, Names
  <2>3. CASE x = s
    BY <1>0, <1>3, <2>3 DEF Takes, Names
  <2> QED
    BY <1>0, <2>1, <2>2, <2>3
<1>16. N \subseteq Sector
  BY <1>0, <1>1
<1>14. Shares(c, f, N)
  <2> SUFFICES ASSUME NEW j \in Direct, f.dataSectors[j] \in N
               PROVE  c[f.dataSectors[j]].numBytes = SubSize(f.numBytes, j)
    BY <1>0 DEF Shares
  <2>1. CASE j = i
    BY <1>0, <1>4, <2>1
  <2>2. CASE j # i
    <3>1. f.dataSectors[j] = h.dataSectors[j] /\ h.dataSectors[j] \in N1
      BY <1>0, <1>4, <1>5, <1>7, <2>2, <1>16
    <3> QED
      BY <1>0, <1>4, <3>1 DEF Takes, Shares
  <2> QED
    BY <1>0, <2>1, <2>2
<1>15. ASSUME NEW x \in N PROVE Shares(c, c[x], N)
  <2> SUFFICES ASSUME NEW j \in Direct, c[x].dataSectors[j] \in N
               PROVE  c[c[x].dataSectors[j]].numBytes = SubSize(c[x].numBytes, j)
    BY <1>0 DEF Shares
  <2>1. CASE x \in N1
    <3>1. c[x].dataSectors[j] \in N1
      BY <1>0, <1>2, <1>6, <2>1, <1>16
    <3> QED
      BY <1>0, <2>1, <3>1 DEF Takes, Shares
  <2>2. CASE x \in N2 \cup {s}
    <3>1. c[x].dataSectors[j] \in N2
      BY <1>0, <1>3, <1>7, <2>2, <1>16
    <3> QED
      BY <1>0, <2>2, <3>1 DEF Takes, Shares
  <2> QED
    BY <1>0, <2>1, <2>2
<1>11. \A j, k \in Direct : f.dataSectors[j] \in Sector /\ f.dataSectors[j] = f.dataSectors[k] => j = k
  BY <1>0, <1>4, <1>5 DEF Takes
<1>12. ASSUME NEW j \in Direct, NEW k \in Direct, NEW x \in N, f.dataSectors[j] \in Sector
       PROVE  f.dataSectors[j] # c[x].dataSectors[k]
  <2>1. CASE x \in N1
    BY <1>0, <1>4, <1>5, <1>6, <1>12, <2>1 DEF Takes
  <2>2. CASE x \in N2 \cup {s}
    BY <1>0, <1>4, <1>5, <1>7, <1>12, <2>2
  <2> QED
    BY <1>0, <2>1, <2>2
<1>13. NoneShared(c, N)
  <2> SUFFICES ASSUME NEW x \in N, NEW y \in N, NEW j \in Direct, NEW k \in Direct,
                      c[x].dataSectors[j] \in Sector,
                      c[x].dataSectors[j] = c[y].dataSectors[k]
               PROVE  x = y /\ j = k
    BY <1>0 DEF NoneShared
  <2>1. CASE x \in N1 /\ y \in N1
    BY <1>0, <2>1 DEF Takes, NoneShared
  <2>2. CASE (x \in N1 /\ y \in N2 \cup {s}) \/ (y \in N1 /\ x \in N2 \cup {s})
    BY <1>0, <1>6, <1>7, <2>2
  <2>3. CASE x \in N2 \cup {s} /\ y \in N2 \cup {s}
    <3>1. CASE x = s /\ y = s
      BY <1>0, <3>1 DEF Takes
    <3>2. CASE x = s /\ y \in N2
      BY <1>0, <3>2 DEF Takes
    <3>3. CASE x \in N2 /\ y = s
      BY <1>0, <3>3 DEF Takes
    <3>4. CASE x \in N2 /\ y \in N2
      BY <1>0, <3>4 DEF Takes, NoneShared
    <3> QED
      BY <1>0, <2>3, <3>1, <3>2, <3>3, <3>4
  <2>4. (x \in N1 \/ x \in N2 \cup {s}) /\ (y \in N1 \/ y \in N2 \cup {s})
    OBVIOUS
  <2> QED
    BY <1>0, <2>1, <2>2, <2>3, <2>4
<1> QED
  BY <1>1, <1>8, <1>9, <1>10, <1>11, <1>12, <1>13, <1>14, <1>15 DEF Takes, c, f

\* One allocation after another.
LEMMA MarksInTurn ==
  ASSUME NEW u, NEW v \in World, NEW w, OnlyMarks(u, v), OnlyMarks(v, w)
  PROVE  OnlyMarks(u, w)
BY DEF OnlyMarks

\* The turn of the loop for number i, whatever its sub-header gets.
LEMMA TurnAllocates ==
  ASSUME NEW w \in World, NEW size \in 1 .. MaxSize, ~(size <= Limit2),
         NEW i \in Direct, NEW a, AllocatedUpTo(w, size, a, i), ~a.w.aborted,
         NEW s, s = FindAndSet(a.w), NEW m \in 1 .. Share(size),
         m = SubSize(size, i), NEW sub, Allocated(Marked(a.w, s), m, sub)
  PROVE  AllocatedUpTo(w, size, Turned(a, i, s, sub), i + 1)
<1> DEFINE u == Marked(a.w, s)
           v == WriteSector(sub.w, s, sub.header)
           h == a.header
           f == WithSub(h, i, s)
<1>1. /\ OnlyMarks(w, a.w) /\ a.w \in World /\ Sized(h, MaxSize) /\ h.numBytes = size
      /\ h \in Header /\ \A j \in Direct : j >= i => h.dataSectors[j] = -1
  BY DEF AllocatedUpTo, Allocated, OnlyMarks, Sized
<1>2. (s \in Sector /\ s \notin a.w.map) \/ (s = -1 /\ s \notin Sector)
  <2> DEFINE x == a.w
  <2>1. s = FindAndSet(x)
    OBVIOUS
  <2> HIDE DEF x
  <2>2. (s \in Sector /\ s \notin x.map) \/ (s = -1 /\ s \notin Sector)
    BY <2>1, FoundIsFree
  <2> QED
    BY <2>2 DEF x
<1>3. /\ u \in World /\ u.onDisk = a.w.onDisk /\ u.content = a.w.content
      /\ u.map = a.w.map \cup ({s} \cap Sector)
  BY <1>1, MarkedIs
<1>4. OnlyMarks(u, sub.w) /\ sub.w \in World /\ sub.header \in Stored /\ Sized(sub.header, MaxSize)
  BY DEF Allocated, OnlyMarks, Stored, Sized
<1>5. /\ v \in World /\ v.onDisk = sub.w.onDisk /\ v.map = sub.w.map
      /\ v.aborted <=> (sub.w.aborted \/ s \notin Sector)
      /\ v.content = IF v.aborted THEN sub.w.content ELSE Put(sub.w.content, s, sub.header)
  <2> DEFINE g == sub.header
             x == sub.w
  <2>1. g \in Stored /\ x \in World /\ v = WriteSector(x, s, g)
    BY <1>4
  <2> HIDE DEF v, g, x
  <2>2. /\ v \in World /\ v.onDisk = x.onDisk /\ v.map = x.map
        /\ v.aborted <=> (x.aborted \/ s \notin Sector)
        /\ v.content = IF v.aborted THEN x.content ELSE Put(x.content, s, g)
    BY <2>1, WriteSectorIs
  <2> QED
    BY <2>2 DEF g, x
<1>6. /\ f.numBytes = h.numBytes
      /\ Sized(f, MaxSize) /\ \A j \in Direct : j >= i + 1 => f.dataSectors[j] = -1
  <2> HIDE DEF h
  <2>1. s \in Int
    BY <1>2, Limits DEF Sector
  <2>4. Direct \subseteq Nat
    BY Limits DEF Direct
  <2>5. \A j \in Direct : j >= i + 1 => j # i /\ j >= i
    BY <2>4
  <2> QED
    <3>1. /\ f \in Header /\ f.numBytes = h.numBytes /\ f.numSectors = h.numSectors
          /\ \A j \in Direct : j # i => f.dataSectors[j] = h.dataSectors[j]
      BY <1>1, <2>1, WithSubIs
    <3> HIDE DEF f
    <3>2. Sized(f, MaxSize)
      BY <1>1, <3>1 DEF Sized
    <3> QED
      BY <1>1, <2>5, <3>1, <3>2
<1> HIDE DEF u, v, f, h
<1>7. OnlyMarks(a.w, v)
  <2>1. sub.w.content \in Content /\ a.w.map \subseteq u.map /\ u.map \subseteq sub.w.map
    BY <1>3, <1>4 DEF OnlyMarks, World
  <2>2. \A t \in Sector : t # s => v.content[t] = sub.w.content[t]
    BY <1>4, <1>5, <2>1, PutIs
  <2>3. \A t \in Sector : t = s => t \in u.map \ a.w.map
    BY <1>2, <1>3
  <2>4. \A t \in Sector : sub.w.content[t] = a.w.content[t] \/ t \in sub.w.map \ u.map
    BY <1>3, <1>4 DEF OnlyMarks
  <2> QED
    BY <1>3, <1>4, <1>5, <2>1, <2>2, <2>3, <2>4 DEF OnlyMarks
<1>8. OnlyMarks(w, v)
  BY <1>1, <1>7, MarksInTurn
<1>9. ASSUME ~v.aborted
      PROVE  \E N \in SUBSET Sector : Takes(v.content, f, N, v.map \ w.map)
  <2>1. s \in Sector /\ s \notin a.w.map /\ ~sub.w.aborted
    BY <1>2, <1>5, <1>9
  <2>2. PICK N1 \in SUBSET Sector : Takes(a.w.content, h, N1, a.w.map \ w.map)
    BY DEF AllocatedUpTo, Allocated, h
  <2>3. PICK N2 \in SUBSET Sector : Takes(sub.w.content, sub.header, N2, sub.w.map \ u.map)
    BY <2>1 DEF Allocated, u
  <2>4. /\ w.map \subseteq a.w.map /\ u.map = a.w.map \cup {s} /\ u.map \subseteq sub.w.map
        /\ v.map = sub.w.map /\ s \notin w.map
    BY <1>1, <1>3, <1>4, <1>5, <2>1 DEF OnlyMarks
  <2>5. N1 \subseteq a.w.map \ w.map /\ N2 \subseteq sub.w.map \ u.map
    BY <2>2, <2>3 DEF Takes
  <2>6. /\ \A t \in Sector : t # s => v.content[t] = sub.w.content[t]
        /\ v.content[s] = sub.header
    <3>1. sub.w.content \in Content
      BY <1>4 DEF World
    <3> QED
      BY <1>4, <1>5, <1>9, <2>1, <3>1, PutIs
  <2>7. \A x \in N1 : sub.w.content[x] = a.w.content[x]
    <3> TAKE x \in N1
    <3>1. x \in Sector /\ x \in a.w.map /\ x # s /\ x \in u.map
      BY <2>1, <2>4, <2>5
    <3>2. sub.w.content[x] = u.content[x]
      BY <1>4, <3>1 DEF OnlyMarks
    <3> QED
      BY <1>3, <2>6, <3>1, <3>2
  <2>9. h.dataSectors[i] \notin Sector
    <3>1. i >= i /\ -1 \notin Sector
      BY Limits DEF Sector, Direct
    <3> QED
      BY <1>1, <3>1 DEF h
  <2>10. ~IsLeaf(h) /\ h \in Header
    BY <1>1 DEF IsLeaf
  <2> DEFINE new1 == a.w.map \ w.map
             new2 == sub.w.map \ u.map
             new  == v.map \ w.map
             g    == sub.header
  <2>11. /\ new1 \cup {s} \cup new2 \subseteq new
         /\ new1 \cap new2 = {} /\ s \notin new1 /\ s \notin new2
    <3>1. new1 \subseteq new /\ s \in new /\ new2 \subseteq new
      BY <2>1, <2>4
    <3>2. new1 \cap new2 = {} /\ s \notin new1 /\ s \notin new2
      BY <2>1, <2>4
    <3> HIDE DEF new1, new2, new
    <3> QED
      BY <3>1, <3>2
  <2>13. Sized(g, MaxSize) /\ v.content[s] = g /\ g.numBytes = SubSize(h.numBytes, i)
         /\ new \in SUBSET Sector
    <3>1. g.numBytes = m /\ h.numBytes = size
      BY <1>1 DEF Allocated
    <3> QED
      BY <1>4, <1>5, <2>6, <3>1 DEF World
  <2>14. Takes(a.w.content, h, N1, new1) /\ Takes(sub.w.content, g, N2, new2)
    BY <2>2, <2>3
  <2> DEFINE c1 == a.w.content
             c2 == sub.w.content
  <2>15. /\ c2 \in Content
         /\ \A x \in N1 : c2[x] = c1[x]
         /\ Takes(c1, h, N1, new1) /\ Takes(c2, g, N2, new2)
         /\ v.content = Put(c2, s, g)
    BY <1>4, <1>5, <1>9, <2>2, <2>3, <2>7, <2>13, <2>14 DEF World
  <2> HIDE DEF new1, new2, new, g, c1, c2
  <2>12. Takes(Put(c2, s, g), WithSub(h, i, s), N1 \cup {s} \cup N2, new)
    BY <2>1, <2>9, <2>10, <2>11, <2>13, <2>15, SubHeaderTaken
  <2> QED
    BY <2>1, <2>12, <2>15 DEF new, f
<1> DEFINE b == [w |-> v, header |-> f, ok |-> TRUE]
<1>10. b.w = v /\ b.header = f
  OBVIOUS
<1> HIDE DEF b
<1>11. AllocatedUpTo(w, size, b, i + 1)
  BY <1>1, <1>6, <1>8, <1>9, <1>10 DEF AllocatedUpTo, Allocated
<1> QED
  BY <1>11 DEF Turned, WithSub, b, v, f, h

\* The loop over sub-headers that have none, turn by turn.
LEMMA Turns2Are ==
  ASSUME NEW w, NEW size, NEW n \in Nat, n = SubHeaders(size)
  PROVE  /\ Turns2(w, size)[0] = FirstTurn(w, size)
         /\ \A i \in 0 .. n - 1 : Turns2(w, size)[i + 1] =
              NextSub2(Turns2(w, size)[i], i, size)
<1> DEFINE Is(f, m) == f = [i \in 0 .. m |-> IF i = 0 THEN FirstTurn(w, size)
                                             ELSE NextSub2(f[i - 1], i - 1, size)]
           A == {m \in Nat : \E f : Is(f, m)}
<1>1. 0 \in A
  <2>1. Is([i \in 0 .. 0 |-> FirstTurn(w, size)], 0)
    OBVIOUS
  <2> QED
    BY <2>1
<1>2. ASSUME NEW m \in A PROVE m + 1 \in A
  <2>1. PICK f : Is(f, m)
    OBVIOUS
  <2> DEFINE g == [i \in 0 .. m + 1 |-> IF i <= m THEN f[i] ELSE NextSub2(f[m], i - 1, size)]
  <2>2. ASSUME NEW i \in 0 .. m + 1
        PROVE  g[i] = IF i = 0 THEN FirstTurn(w, size) ELSE NextSub2(g[i - 1], i - 1, size)
    <3>1. CASE i = 0
      BY <2>1, <3>1
    <3>2. CASE i \in 1 .. m
      BY <2>1, <3>2
    <3>3. CASE i = m + 1
      BY <2>1, <3>3
    <3> QED
      BY <3>1, <3>2, <3>3
  <2>3. g = [i \in 0 .. m + 1 |-> g[i]]
    OBVIOUS
  <2> HIDE DEF g
  <2>4. Is(g, m + 1)
    BY <2>2, <2>3
  <2> QED
    BY <2>4
<1>3. A = Nat
  <2>1. A \in SUBSET Nat
    OBVIOUS
  <2> HIDE DEF A
  <2> QED
    BY <1>1, <1>2, <2>1, Induction
<1>4. PICK f : Is(f, n)
  BY <1>3
<1>5. Turns2(w, size) = CHOOSE f1 : Is(f1, n)
  BY DEF Turns2
<1> DEFINE a == Turns2(w, size)
<1>6. Is(a, n)
  BY <1>4, <1>5
<1> HIDE DEF a
<1>7. a[0] = FirstTurn(w, size)
  BY <1>6
<1>8. ASSUME NEW i \in 0 .. n - 1 PROVE a[i + 1] = NextSub2(a[i], i, size)
  <2>1. i + 1 \in 0 .. n /\ i + 1 # 0 /\ (i + 1) - 1 = i
    OBVIOUS
  <2> QED
    BY <1>6, <2>1
<1> QED
  BY <1>7, <1>8 DEF a

\* Allocate, for a file of one level of sub-headers.
LEMMA Level2Allocates ==
  ASSUME NEW w \in World, NEW size \in 1 .. Limit3
  PROVE  Allocated(w, size, Allocate2(w, size))
<1> DEFINE c == Share(size)
           n == SubHeaders(size)
           a == Turns2(w, size)
<1>0. size \in 1 .. MaxSize /\ size \in Nat /\ size <= Limit3
  BY Limits DEF MaxSize
<1>1. CASE size <= Limit2
  <2>1. size \in 1 .. Limit2
    BY <1>0, <1>1, Limits
  <2>2. Allocate2(w, size) = AllocateBlocks(w, size)
    BY <1>1 DEF Allocate2, AllocateOver
  <2> QED
    BY <2>1, <2>2, BlocksAllocated
<1>2. CASE ~(size <= Limit2) /\ ~Enough(w, size)
  <2>1. Allocate2(w, size) = NotAllocated(w, size)
    BY <1>2 DEF Allocate2, AllocateOver
  <2> QED
    BY <1>0, <2>1, NothingTaken
<1>3. CASE ~(size <= Limit2) /\ Enough(w, size)
  <2>1. Allocate2(w, size) = a[n]
    BY <1>3 DEF Allocate2, AllocateOver
  <2>2. /\ c \in Nat \ {0} /\ c <= Limit2 /\ n \in 1 .. NumDirect /\ n \in Nat
    <3>1. c \in Nat \ {0} /\ n \in 1 .. NumDirect /\ c <= Limit2
      BY <1>0, <1>3, SharesFit, Limits DEF SubHeaders
    <3> QED
      BY <3>1, Limits
  <2>3. /\ a[0] = FirstTurn(w, size)
        /\ \A i \in 0 .. n - 1 : a[i + 1] = NextSub2(a[i], i, size)
    <3>1. n = SubHeaders(size)
      OBVIOUS
    <3> HIDE DEF n, c
    <3> QED
      BY <2>2, <3>1, Turns2Are
  <2>4. \A i \in Nat : i < n => size - i * c \in Nat \ {0}
    BY <1>0, <2>2, RoundedUp DEF SubHeaders
  <2> DEFINE Done == {i \in Nat : AllocatedUpTo(w, size, a[i], i)}
  <2> HIDE DEF a, n
  <2>5. 0 \in Done
    <3>1. a[0] = FirstTurn(w, size)
      BY <2>2, <2>3
    <3> QED
      BY <1>0, <3>1, NothingTaken DEF FirstTurn
  <2>6. ASSUME NEW i \in 0 .. n - 1, i \in Done PROVE i + 1 \in Done
    <3> DEFINE b    == a[i]
               left == size - i * c
               m    == IF left > c THEN c ELSE left
               s    == FindAndSet(b.w)
               sub  == AllocateBlocks(Marked(b.w, s), m)
    <3>1. a[i + 1] = NextSub2(b, i, size)
      BY <2>2, <2>3
    <3>2. i \in Direct /\ i + 1 \in Nat
      BY <2>2, Limits DEF Direct
    <3>3. m \in 1 .. Limit2 /\ m \in 1 .. Share(size) /\ m = SubSize(size, i)
      BY <2>2, <2>4, Limits DEF SubSize
    <3>4. CASE b.w.aborted
      <4>1. a[i + 1] = b
        BY <3>1, <3>4 DEF NextSub2, Turned
      <4>2. \A j \in Direct : j >= i + 1 => j >= i
        BY Limits DEF Direct
      <4> QED
        BY <2>6, <3>2, <4>1, <4>2 DEF AllocatedUpTo
    <3>5. CASE ~b.w.aborted
      <4>1. a[i + 1] = Turned(b, i, s, sub)
        BY <3>1, <3>5 DEF NextSub2, ForHeader, SubSize
      <4>2. AllocatedUpTo(w, size, b, i) /\ Marked(b.w, s) \in World
        BY <2>6, MarkedIs DEF AllocatedUpTo, Allocated, OnlyMarks
      <4>3. Allocated(Marked(b.w, s), m, sub)
        <5> HIDE DEF m, s
        <5> QED
          BY <3>3, <4>2, BlocksAllocated
      <4>4. s = FindAndSet(b.w)
        OBVIOUS
      <4> HIDE DEF sub, s, m, b, c
      <4>5. AllocatedUpTo(w, size, a[i + 1], i + 1)
        BY <1>0, <1>3, <3>2, <3>3, <3>5, <4>1, <4>2, <4>3, <4>4, TurnAllocates
      <4> QED
        BY <3>2, <4>5
    <3> QED
      BY <3>4, <3>5
  <2>7. n \in Done
    <3>1. Done \in SUBSET Nat /\ n \in 0 .. n
      BY <2>2
    <3> HIDE DEF Done
    <3> QED
      BY <2>2, <2>5, <2>6, <3>1, InductionUpTo
  <2> QED
    BY <2>1, <2>7 DEF AllocatedUpTo, n
<1> QED
  BY <1>1, <1>2, <1>3

\* The loop over sub-headers of two levels, turn by turn.
LEMMA Turns3Are ==
  ASSUME NEW w, NEW size, NEW n \in Nat, n = SubHeaders(size)
  PROVE  /\ Turns3(w, size)[0] = FirstTurn(w, size)
         /\ \A i \in 0 .. n - 1 : Turns3(w, size)[i + 1] =
              NextSub3(Turns3(w, size)[i], i, size)
<1> DEFINE Is(f, m) == f = [i \in 0 .. m |-> IF i = 0 THEN FirstTurn(w, size)
                                             ELSE NextSub3(f[i - 1], i - 1, size)]
           A == {m \in Nat : \E f : Is(f, m)}
<1>1. 0 \in A
  <2>1. Is([i \in 0 .. 0 |-> FirstTurn(w, size)], 0)
    OBVIOUS
  <2> QED
    BY <2>1
<1>2. ASSUME NEW m \in A PROVE m + 1 \in A
  <2>1. PICK f : Is(f, m)
    OBVIOUS
  <2> DEFINE g == [i \in 0 .. m + 1 |-> IF i <= m THEN f[i] ELSE NextSub3(f[m], i - 1, size)]
  <2>2. ASSUME NEW i \in 0 .. m + 1
        PROVE  g[i] = IF i = 0 THEN FirstTurn(w, size) ELSE NextSub3(g[i - 1], i - 1, size)
    <3>1. CASE i = 0
      BY <2>1, <3>1
    <3>2. CASE i \in 1 .. m
      BY <2>1, <3>2
    <3>3. CASE i = m + 1
      BY <2>1, <3>3
    <3> QED
      BY <3>1, <3>2, <3>3
  <2>3. g = [i \in 0 .. m + 1 |-> g[i]]
    OBVIOUS
  <2> HIDE DEF g
  <2>4. Is(g, m + 1)
    BY <2>2, <2>3
  <2> QED
    BY <2>4
<1>3. A = Nat
  <2>1. A \in SUBSET Nat
    OBVIOUS
  <2> HIDE DEF A
  <2> QED
    BY <1>1, <1>2, <2>1, Induction
<1>4. PICK f : Is(f, n)
  BY <1>3
<1>5. Turns3(w, size) = CHOOSE f1 : Is(f1, n)
  BY DEF Turns3
<1> DEFINE a == Turns3(w, size)
<1>6. Is(a, n)
  BY <1>4, <1>5
<1> HIDE DEF a
<1>7. a[0] = FirstTurn(w, size)
  BY <1>6
<1>8. ASSUME NEW i \in 0 .. n - 1 PROVE a[i + 1] = NextSub3(a[i], i, size)
  <2>1. i + 1 \in 0 .. n /\ i + 1 # 0 /\ (i + 1) - 1 = i
    OBVIOUS
  <2> QED
    BY <1>6, <2>1
<1> QED
  BY <1>7, <1>8 DEF a

\* Allocate, for a file of two levels of sub-headers.
LEMMA Level3Allocates ==
  ASSUME NEW w \in World, NEW size \in 1 .. Limit4
  PROVE  Allocated(w, size, Allocate3(w, size))
<1> DEFINE c == Share(size)
           n == SubHeaders(size)
           a == Turns3(w, size)
<1>0. size \in 1 .. MaxSize /\ size \in Nat /\ size <= Limit4
  BY Limits DEF MaxSize
<1>1. CASE size <= Limit2
  <2>1. size \in 1 .. Limit2
    BY <1>0, <1>1, Limits
  <2>2. Allocate3(w, size) = AllocateBlocks(w, size)
    BY <1>1 DEF Allocate3, AllocateOver
  <2> QED
    BY <2>1, <2>2, BlocksAllocated
<1>2. CASE ~(size <= Limit2) /\ ~Enough(w, size)
  <2>1. Allocate3(w, size) = NotAllocated(w, size)
    BY <1>2 DEF Allocate3, AllocateOver
  <2> QED
    BY <1>0, <2>1, NothingTaken
<1>3. CASE ~(size <= Limit2) /\ Enough(w, size)
  <2>1. Allocate3(w, size) = a[n]
    BY <1>3 DEF Allocate3, AllocateOver
  <2>2. /\ c \in Nat \ {0} /\ c <= Limit3 /\ n \in 1 .. NumDirect /\ n \in Nat
    <3>1. c \in Nat \ {0} /\ n \in 1 .. NumDirect /\ c <= Limit3
      BY <1>0, <1>3, SharesFit, Limits DEF SubHeaders
    <3> QED
      BY <3>1, Limits
  <2>3. /\ a[0] = FirstTurn(w, size)
        /\ \A i \in 0 .. n - 1 : a[i + 1] = NextSub3(a[i], i, size)
    <3>1. n = SubHeaders(size)
      OBVIOUS
    <3> HIDE DEF n, c
    <3> QED
      BY <2>2, <3>1, Turns3Are
  <2>4. \A i \in Nat : i < n => size - i * c \in Nat \ {0}
    BY <1>0, <2>2, RoundedUp DEF SubHeaders
  <2> DEFINE Done == {i \in Nat : AllocatedUpTo(w, size, a[i], i)}
  <2> HIDE DEF a, n
  <2>5. 0 \in Done
    <3>1. a[0] = FirstTurn(w, size)
      BY <2>2, <2>3
    <3> QED
      BY <1>0, <3>1, NothingTaken DEF FirstTurn
  <2>6. ASSUME NEW i \in 0 .. n - 1, i \in Done PROVE i + 1 \in Done
    <3> DEFINE b    == a[i]
               left == size - i * c
               m    == IF left > c THEN c ELSE left
               s    == FindAndSet(b.w)
               sub  == Allocate2(Marked(b.w, s), m)
    <3>1. a[i + 1] = NextSub3(b, i, size)
      BY <2>2, <2>3
    <3>2. i \in Direct /\ i + 1 \in Nat
      BY <2>2, Limits DEF Direct
    <3>3. m \in 1 .. Limit3 /\ m \in 1 .. Share(size) /\ m = SubSize(size, i)
      BY <2>2, <2>4, Limits DEF SubSize
    <3>4. CASE b.w.aborted
      <4>1. a[i + 1] = b
        BY <3>1, <3>4 DEF NextSub3, Turned
      <4>2. \A j \in Direct : j >= i + 1 => j >= i
        BY Limits DEF Direct
      <4> QED
        BY <2>6, <3>2, <4>1, <4>2 DEF AllocatedUpTo
    <3>5. CASE ~b.w.aborted
      <4>1. a[i + 1] = Turned(b, i, s, sub)
        BY <3>1, <3>5 DEF NextSub3, ForHeader, SubSize
      <4>2. AllocatedUpTo(w, size, b, i) /\ Marked(b.w, s) \in World
        BY <2>6, MarkedIs DEF AllocatedUpTo, Allocated, OnlyMarks
      <4>3. Allocated(Marked(b.w, s), m, sub)
        <5> HIDE DEF m, s
        <5> QED
          BY <3>3, <4>2, Level2Allocates
      <4>4. s = FindAndSet(b.w)
        OBVIOUS
      <4> HIDE DEF sub, s, m, b, c
      <4>5. AllocatedUpTo(w, size, a[i + 1], i + 1)
        BY <1>0, <1>3, <3>2, <3>3, <3>5, <4>1, <4>2, <4>3, <4>4, TurnAllocates
      <4> QED
        BY <3>2, <4>5
    <3> QED
      BY <3>4, <3>5
  <2>7. n \in Done
    <3>1. Done \in SUBSET Nat /\ n \in 0 .. n
      BY <2>2
    <3> HIDE DEF Done
    <3> QED
      BY <2>2, <2>5, <2>6, <3>1, InductionUpTo
  <2> QED
    BY <2>1, <2>7 DEF AllocatedUpTo, n
<1> QED
  BY <1>1, <1>2, <1>3

\* The loop over sub-headers of three levels, turn by turn.
LEMMA Turns4Are ==
  ASSUME NEW w, NEW size, NEW n \in Nat, n = SubHeaders(size)
  PROVE  /\ Turns4(w, size)[0] = FirstTurn(w, size)
         /\ \A i \in 0 .. n - 1 : Turns4(w, size)[i + 1] =
              NextSub4(Turns4(w, size)[i], i, size)
<1> DEFINE Is(f, m) == f = [i \in 0 .. m |-> IF i = 0 THEN FirstTurn(w, size)
                                             ELSE NextSub4(f[i - 1], i - 1, size)]
           A == {m \in Nat : \E f : Is(f, m)}
<1>1. 0 \in A
  <2>1. Is([i \in 0 .. 0 |-> FirstTurn(w, size)], 0)
    OBVIOUS
  <2> QED
    BY <2>1
<1>2. ASSUME NEW m \in A PROVE m + 1 \in A
  <2>1. PICK f : Is(f, m)
    OBVIOUS
  <2> DEFINE g == [i \in 0 .. m + 1 |-> IF i <= m THEN f[i] ELSE NextSub4(f[m], i - 1, size)]
  <2>2. ASSUME NEW i \in 0 .. m + 1
        PROVE  g[i] = IF i = 0 THEN FirstTurn(w, size) ELSE NextSub4(g[i - 1], i - 1, size)
    <3>1. CASE i = 0
      BY <2>1, <3>1
    <3>2. CASE i \in 1 .. m
      BY <2>1, <3>2
    <3>3. CASE i = m + 1
      BY <2>1, <3>3
    <3> QED
      BY <3>1, <3>2, <3>3
  <2>3. g = [i \in 0 .. m + 1 |-> g[i]]
    OBVIOUS
  <2> HIDE DEF g
  <2>4. Is(g, m + 1)
    BY <2>2, <2>3
  <2> QED
    BY <2>4
<1>3. A = Nat
  <2>1. A \in SUBSET Nat
    OBVIOUS
  <2> HIDE DEF A
  <2> QED
    BY <1>1, <1>2, <2>1, Induction
<1>4. PICK f : Is(f, n)
  BY <1>3
<1>5. Turns4(w, size) = CHOOSE f1 : Is(f1, n)
  BY DEF Turns4
<1> DEFINE a == Turns4(w, size)
<1>6. Is(a, n)
  BY <1>4, <1>5
<1> HIDE DEF a
<1>7. a[0] = FirstTurn(w, size)
  BY <1>6
<1>8. ASSUME NEW i \in 0 .. n - 1 PROVE a[i + 1] = NextSub4(a[i], i, size)
  <2>1. i + 1 \in 0 .. n /\ i + 1 # 0 /\ (i + 1) - 1 = i
    OBVIOUS
  <2> QED
    BY <1>6, <2>1
<1> QED
  BY <1>7, <1>8 DEF a

\* FileHeader::Allocate takes free sectors only, for blocks and sub-headers, each
\* once, and writes to no sector that was marked, whatever the size of the file and
\* even when it runs out of sectors half-way (filehdr.cc:72).
LEMMA Level4Allocates ==
  ASSUME NEW w \in World, NEW size \in 1 .. MaxSize
  PROVE  Allocated(w, size, Allocate(w, size))
<1> DEFINE c == Share(size)
           n == SubHeaders(size)
           a == Turns4(w, size)
<1>0. size \in 1 .. MaxSize /\ size \in Nat /\ size <= MaxSize
  BY Limits DEF MaxSize
<1>1. CASE size <= Limit2
  <2>1. size \in 1 .. Limit2
    BY <1>0, <1>1, Limits
  <2>2. Allocate(w, size) = AllocateBlocks(w, size)
    BY <1>1 DEF Allocate, AllocateOver
  <2> QED
    BY <2>1, <2>2, BlocksAllocated
<1>2. CASE ~(size <= Limit2) /\ ~Enough(w, size)
  <2>1. Allocate(w, size) = NotAllocated(w, size)
    BY <1>2 DEF Allocate, AllocateOver
  <2> QED
    BY <1>0, <2>1, NothingTaken
<1>3. CASE ~(size <= Limit2) /\ Enough(w, size)
  <2>1. Allocate(w, size) = a[n]
    BY <1>3 DEF Allocate, AllocateOver
  <2>2. /\ c \in Nat \ {0} /\ c <= Limit4 /\ n \in 1 .. NumDirect /\ n \in Nat
    <3>1. c \in Nat \ {0} /\ n \in 1 .. NumDirect /\ c <= Limit4
      BY <1>0, <1>3, SharesFit, Limits DEF SubHeaders
    <3> QED
      BY <3>1, Limits
  <2>3. /\ a[0] = FirstTurn(w, size)
        /\ \A i \in 0 .. n - 1 : a[i + 1] = NextSub4(a[i], i, size)
    <3>1. n = SubHeaders(size)
      OBVIOUS
    <3> HIDE DEF n, c
    <3> QED
      BY <2>2, <3>1, Turns4Are
  <2>4. \A i \in Nat : i < n => size - i * c \in Nat \ {0}
    BY <1>0, <2>2, RoundedUp DEF SubHeaders
  <2> DEFINE Done == {i \in Nat : AllocatedUpTo(w, size, a[i], i)}
  <2> HIDE DEF a, n
  <2>5. 0 \in Done
    <3>1. a[0] = FirstTurn(w, size)
      BY <2>2, <2>3
    <3> QED
      BY <1>0, <3>1, NothingTaken DEF FirstTurn
  <2>6. ASSUME NEW i \in 0 .. n - 1, i \in Done PROVE i + 1 \in Done
    <3> DEFINE b    == a[i]
               left == size - i * c
               m    == IF left > c THEN c ELSE left
               s    == FindAndSet(b.w)
               sub  == Allocate3(Marked(b.w, s), m)
    <3>1. a[i + 1] = NextSub4(b, i, size)
      BY <2>2, <2>3
    <3>2. i \in Direct /\ i + 1 \in Nat
      BY <2>2, Limits DEF Direct
    <3>3. m \in 1 .. Limit4 /\ m \in 1 .. Share(size) /\ m = SubSize(size, i)
      BY <2>2, <2>4, Limits DEF SubSize
    <3>4. CASE b.w.aborted
      <4>1. a[i + 1] = b
        BY <3>1, <3>4 DEF NextSub4, Turned
      <4>2. \A j \in Direct : j >= i + 1 => j >= i
        BY Limits DEF Direct
      <4> QED
        BY <2>6, <3>2, <4>1, <4>2 DEF AllocatedUpTo
    <3>5. CASE ~b.w.aborted
      <4>1. a[i + 1] = Turned(b, i, s, sub)
        BY <3>1, <3>5 DEF NextSub4, ForHeader, SubSize
      <4>2. AllocatedUpTo(w, size, b, i) /\ Marked(b.w, s) \in World
        BY <2>6, MarkedIs DEF AllocatedUpTo, Allocated, OnlyMarks
      <4>3. Allocated(Marked(b.w, s), m, sub)
        <5> HIDE DEF m, s
        <5> QED
          BY <3>3, <4>2, Level3Allocates
      <4>4. s = FindAndSet(b.w)
        OBVIOUS
      <4> HIDE DEF sub, s, m, b, c
      <4>5. AllocatedUpTo(w, size, a[i + 1], i + 1)
        BY <1>0, <1>3, <3>2, <3>3, <3>5, <4>1, <4>2, <4>3, <4>4, TurnAllocates
      <4> QED
        BY <3>2, <4>5
    <3> QED
      BY <3>4, <3>5
  <2>7. n \in Done
    <3>1. Done \in SUBSET Nat /\ n \in 0 .. n
      BY <2>2
    <3> HIDE DEF Done
    <3> QED
      BY <2>2, <2>5, <2>6, <3>1, InductionUpTo
  <2> QED
    BY <2>1, <2>7 DEF AllocatedUpTo, n
<1> QED
  BY <1>1, <1>2, <1>3

-------------------------------------------------------------------------------
(* FileHeader::Deallocate *)

\* What H holds of the headers of c: with a header its sub-headers, each for
\* its share.
Shape(c, H) ==
  /\ H \subseteq Sector
  /\ \A x \in H : Sized(c[x], MaxSize) /\ Shares(c, c[x], H)
  /\ \A x \in H, i \in Direct :
       ~IsLeaf(c[x]) /\ c[x].dataSectors[i] \in Sector => c[x].dataSectors[i] \in H

\* The sub-headers and the blocks that the headers S name.
Subs(c, S) ==
  {t \in Sector : \E x \in S, i \in Direct : ~IsLeaf(c[x]) /\ c[x].dataSectors[i] = t}

BlocksIn(c, S) ==
  {t \in Sector : \E x \in S, i \in Direct : IsLeaf(c[x]) /\ c[x].dataSectors[i] = t}

\* The headers S and those below them.
Below1(c, S) == S
Below2(c, S) == S \cup Below1(c, Subs(c, S))
Below3(c, S) == S \cup Below2(c, Subs(c, S))
Below4(c, S) == S \cup Below3(c, Subs(c, S))

\* What a deallocation changes: it clears marks of blocks of the headers S.
Unmarks(w, v, S) ==
  /\ v \in World /\ v.onDisk = w.onDisk /\ v.content = w.content /\ v.map \subseteq w.map
  /\ ~v.aborted => w.map \ v.map \subseteq BlocksIn(w.content, S)

\* A sub-file is no larger than the share of one sub-header.
LEMMA SubSizeFits ==
  ASSUME NEW size \in 1 .. MaxSize, ~(size <= Limit2), NEW i \in Direct
  PROVE  SubSize(size, i) <= Share(size)
<1>1. size \in Nat /\ i \in Nat /\ Share(size) \in Nat
  BY SharesFit, Limits DEF MaxSize, Direct
<1>2. size - i * Share(size) \in Int
  BY <1>1
<1> QED
  BY <1>1, <1>2 DEF SubSize

\* More headers have more below them.
LEMMA BelowGrows ==
  ASSUME NEW c, NEW S, NEW T, S \subseteq T
  PROVE  /\ Subs(c, S) \subseteq Subs(c, T) /\ BlocksIn(c, S) \subseteq BlocksIn(c, T)
         /\ Below1(c, S) \subseteq Below1(c, T) /\ Below2(c, S) \subseteq Below2(c, T)
         /\ Below3(c, S) \subseteq Below3(c, T)
<1>1. \A A, B : A \subseteq B => Subs(c, A) \subseteq Subs(c, B)
  BY DEF Subs
<1>2. \A A, B : A \subseteq B => Below2(c, A) \subseteq Below2(c, B)
  BY <1>1 DEF Below1, Below2
<1>3. \A A, B : A \subseteq B => Below3(c, A) \subseteq Below3(c, B)
  BY <1>1, <1>2 DEF Below3
<1> QED
  BY <1>1, <1>2, <1>3 DEF Below1, BlocksIn

\* Deallocate, for a file without sub-headers.
LEMMA BlocksUnmarked ==
  ASSUME NEW w \in World, NEW H, Shape(w.content, H),
         NEW x \in H, w.content[x].numBytes <= Limit2
  PROVE  Unmarks(w, DeallocateBlocks(w, w.content[x]), Below1(w.content, {x}))
<1> DEFINE c == w.content
           h == c[x]
           mine == {h.dataSectors[i] : i \in 0 .. h.numSectors - 1}
           v == [w EXCEPT !.map = @ \ mine]
<1>1. IsLeaf(h) /\ Sized(h, MaxSize)
  BY DEF IsLeaf, Shape
<1>2. 0 .. h.numSectors - 1 \subseteq Direct
  <2> HIDE DEF h
  <2>1. Children(h) = 0
    <3>1. h.numBytes \in Nat /\ Limit2 \in Nat /\ h.numBytes <= Limit2
      BY <1>1, Limits DEF IsLeaf, Sized, Header
    <3> QED
      BY <3>1 DEF Children
  <2> QED
    BY <1>1, <2>1, SlotsFit DEF Slots
<1>3. CASE ~(mine \subseteq w.map)
  <2>1. DeallocateBlocks(w, h) = Abort(w)
    BY <1>3 DEF DeallocateBlocks
  <2> HIDE DEF h
  <2> QED
    BY <2>1, AbortKeeps DEF Unmarks, h
<1>4. CASE mine \subseteq w.map
  <2>1. DeallocateBlocks(w, h) = v
    BY <1>4 DEF DeallocateBlocks
  <2>2. v \in World /\ v.onDisk = w.onDisk /\ v.content = c /\ v.map = w.map \ mine
    BY DEF World
  <2>3. mine \subseteq BlocksIn(c, {x})
    <3>1. mine \subseteq Sector
      BY <1>4 DEF World
    <3> QED
      BY <1>1, <1>2, <3>1 DEF BlocksIn
  <2> HIDE DEF mine, v, h
  <2> QED
    BY <2>1, <2>2, <2>3 DEF Unmarks, Below1, c, h
<1> QED
  BY <1>3, <1>4

\* The visits to sub-headers that have none, one by one.
LEMMA Visits2Are ==
  ASSUME NEW w, NEW h, NEW n \in Nat, n = DivRoundUp(h.numSectors, NumDirect)
  PROVE  /\ Visits2(w, h)[0] = w
         /\ \A i \in 0 .. n - 1 : Visits2(w, h)[i + 1] =
              VisitSub2(Visits2(w, h)[i], h, i)
<1> DEFINE Is(f, m) == f = [i \in 0 .. m |-> IF i = 0 THEN w
                                             ELSE VisitSub2(f[i - 1], h, i - 1)]
           A == {m \in Nat : \E f : Is(f, m)}
<1>1. 0 \in A
  <2>1. Is([i \in 0 .. 0 |-> w], 0)
    OBVIOUS
  <2> QED
    BY <2>1
<1>2. ASSUME NEW m \in A PROVE m + 1 \in A
  <2>1. PICK f : Is(f, m)
    OBVIOUS
  <2> DEFINE g == [i \in 0 .. m + 1 |-> IF i <= m THEN f[i] ELSE VisitSub2(f[m], h, i - 1)]
  <2>2. ASSUME NEW i \in 0 .. m + 1
        PROVE  g[i] = IF i = 0 THEN w ELSE VisitSub2(g[i - 1], h, i - 1)
    <3>1. CASE i = 0
      BY <2>1, <3>1
    <3>2. CASE i \in 1 .. m
      BY <2>1, <3>2
    <3>3. CASE i = m + 1
      BY <2>1, <3>3
    <3> QED
      BY <3>1, <3>2, <3>3
  <2>3. g = [i \in 0 .. m + 1 |-> g[i]]
    OBVIOUS
  <2> HIDE DEF g
  <2>4. Is(g, m + 1)
    BY <2>2, <2>3
  <2> QED
    BY <2>4
<1>3. A = Nat
  <2>1. A \in SUBSET Nat
    OBVIOUS
  <2> HIDE DEF A
  <2> QED
    BY <1>1, <1>2, <2>1, Induction
<1>4. PICK f : Is(f, n)
  BY <1>3
<1>5. Visits2(w, h) = CHOOSE f1 : Is(f1, n)
  BY DEF Visits2, Visits
<1> DEFINE a == Visits2(w, h)
<1>6. Is(a, n)
  BY <1>4, <1>5
<1> HIDE DEF a
<1>7. a[0] = w
  BY <1>6
<1>8. ASSUME NEW i \in 0 .. n - 1 PROVE a[i + 1] = VisitSub2(a[i], h, i)
  <2>1. i + 1 \in 0 .. n /\ i + 1 # 0 /\ (i + 1) - 1 = i
    OBVIOUS
  <2> QED
    BY <1>6, <2>1
<1> QED
  BY <1>7, <1>8 DEF a

\* Deallocate, for a file of one level of sub-headers.
LEMMA Level2Unmarks ==
  ASSUME NEW w \in World, NEW H, Shape(w.content, H),
         NEW x \in H, w.content[x].numBytes <= Limit3
  PROVE  Unmarks(w, Deallocate2(w, w.content[x]), Below2(w.content, {x}))
<1> DEFINE c == w.content
           h == c[x]
           n == DivRoundUp(h.numSectors, NumDirect)
           a == Visits2(w, h)
           B == Below2(c, {x})
<1>0. Sized(h, MaxSize) /\ Shares(c, h, H) /\ x \in Sector
  BY DEF Shape
<1>1. CASE IsLeaf(h)
  <2>1. Deallocate2(w, h) = DeallocateBlocks(w, h)
    BY <1>1 DEF Deallocate2, DeallocateOver, Visits, IsLeaf
  <2>2. Unmarks(w, DeallocateBlocks(w, h), Below1(c, {x}))
    BY <1>1, BlocksUnmarked DEF IsLeaf
  <2>3. Below1(c, {x}) \subseteq B
    BY DEF Below1, Below2, Below3, Below4
  <2> HIDE DEF h, B
  <2>4. BlocksIn(c, Below1(c, {x})) \subseteq BlocksIn(c, B)
    BY <2>3, BelowGrows
  <2> QED
    BY <2>1, <2>2, <2>4 DEF Unmarks, h, B
<1>2. CASE ~IsLeaf(h)
  <2>1. Deallocate2(w, h) = a[n]
    BY <1>2 DEF Deallocate2, DeallocateOver, Visits, IsLeaf
  <2> HIDE DEF h
  <2>2. n \in Nat
    BY <1>0, RoundedUp, Limits DEF Sized, Header
  <2>3. /\ a[0] = w
        /\ \A i \in 0 .. n - 1 : a[i + 1] = VisitSub2(a[i], h, i)
    <3>1. n = DivRoundUp(h.numSectors, NumDirect)
      OBVIOUS
    <3> HIDE DEF n
    <3> QED
      BY <2>2, <3>1, Visits2Are
  <2> DEFINE Done == {i \in Nat : Unmarks(w, a[i], B)}
  <2> HIDE DEF a, n, B
  <2>5. 0 \in Done
    BY <2>3 DEF Unmarks
  <2>6. ASSUME NEW i \in 0 .. n - 1, i \in Done PROVE i + 1 \in Done
    <3> DEFINE b == a[i]
               y == h.dataSectors[i]
    <3>1. a[i + 1] = VisitSub2(b, h, i) /\ i + 1 \in Nat
      BY <2>2, <2>3
    <3>2. Unmarks(w, b, B)
      BY <2>6
    <3> HIDE DEF b
    <3>3. b \in World /\ b.content = c
      BY <3>2 DEF Unmarks
    <3>4. CASE b.aborted
      <4>1. a[i + 1] = b
        BY <3>1, <3>4 DEF VisitSub2, Visited, SubHeader
      <4> QED
        BY <3>1, <3>2, <4>1
    <3>5. CASE ~b.aborted /\ (i \notin Direct \/ y \notin Sector)
      <4>1. a[i + 1] = Abort(b)
        BY <3>1, <3>5 DEF VisitSub2, Visited, SubHeader
      <4>2. Unmarks(w, Abort(b), B)
        BY <3>2, <3>3, AbortKeeps DEF Unmarks
      <4> QED
        BY <3>1, <4>1, <4>2
    <3>6. CASE ~b.aborted /\ i \in Direct /\ y \in Sector
      <4>1. y \in H /\ y \in Subs(c, {x})
        BY <1>2, <3>6 DEF Shape, Subs, h
      <4>2. c[y].numBytes <= Limit2
        <5>1. c[y].numBytes = SubSize(h.numBytes, i)
          BY <1>0, <3>6, <4>1 DEF Shares
        <5>2. h.numBytes \in 1 .. MaxSize /\ ~(h.numBytes <= Limit2) /\ h.numBytes <= Limit3
          BY <1>0, <1>2 DEF Sized, IsLeaf, h
        <5>3. Share(h.numBytes) \in Nat /\ Share(h.numBytes) <= Limit2
          BY <5>2, SharesFit, Limits
        <5>4. c[y].numBytes \in Nat
          BY <4>1 DEF Shape, Sized, Header
        <5>5. SubSize(h.numBytes, i) <= Share(h.numBytes)
          BY <3>6, <5>2, SubSizeFits
        <5> HIDE DEF y, h
        <5> QED
          BY <5>1, <5>3, <5>4, <5>5, Limits
      <4>3. Unmarks(b, DeallocateBlocks(b, c[y]), Below1(c, {y}))
        <5> HIDE DEF y
        <5> QED
          BY <3>3, <4>1, <4>2, BlocksUnmarked
      <4>4. a[i + 1] = DeallocateBlocks(b, c[y])
        BY <3>1, <3>3, <3>6 DEF VisitSub2, Visited, SubHeader
      <4>5. Below1(c, {y}) \subseteq B
        <5>1. {y} \subseteq Subs(c, {x})
          BY <4>1
        <5>2. Below1(c, {y}) \subseteq Below1(c, Subs(c, {x}))
          <6> HIDE DEF y
          <6> QED
            BY <5>1, BelowGrows
        <5> QED
          BY <5>2 DEF B, Below2
      <4> HIDE DEF y, c
      <4>6. BlocksIn(c, Below1(c, {y})) \subseteq BlocksIn(c, B)
        BY <4>5, BelowGrows
      <4> DEFINE d == DeallocateBlocks(b, c[y])
      <4> HIDE DEF d
      <4>7. Unmarks(w, d, B)
        BY <3>2, <3>3, <3>6, <4>3, <4>6 DEF Unmarks, d, c
      <4> QED
        BY <3>1, <4>4, <4>7 DEF d
    <3> QED
      BY <3>4, <3>5, <3>6
  <2>7. n \in Done
    <3>1. Done \in SUBSET Nat /\ n \in 0 .. n
      BY <2>2
    <3> HIDE DEF Done
    <3> QED
      BY <2>2, <2>5, <2>6, <3>1, InductionUpTo
  <2> QED
    BY <2>1, <2>7 DEF n, h, B
<1> QED
  BY <1>1, <1>2

\* The visits to sub-headers of two levels, one by one.
LEMMA Visits3Are ==
  ASSUME NEW w, NEW h, NEW n \in Nat, n = DivRoundUp(h.numSectors, NumDirect)
  PROVE  /\ Visits3(w, h)[0] = w
         /\ \A i \in 0 .. n - 1 : Visits3(w, h)[i + 1] =
              VisitSub3(Visits3(w, h)[i], h, i)
<1> DEFINE Is(f, m) == f = [i \in 0 .. m |-> IF i = 0 THEN w
                                             ELSE VisitSub3(f[i - 1], h, i - 1)]
           A == {m \in Nat : \E f : Is(f, m)}
<1>1. 0 \in A
  <2>1. Is([i \in 0 .. 0 |-> w], 0)
    OBVIOUS
  <2> QED
    BY <2>1
<1>2. ASSUME NEW m \in A PROVE m + 1 \in A
  <2>1. PICK f : Is(f, m)
    OBVIOUS
  <2> DEFINE g == [i \in 0 .. m + 1 |-> IF i <= m THEN f[i] ELSE VisitSub3(f[m], h, i - 1)]
  <2>2. ASSUME NEW i \in 0 .. m + 1
        PROVE  g[i] = IF i = 0 THEN w ELSE VisitSub3(g[i - 1], h, i - 1)
    <3>1. CASE i = 0
      BY <2>1, <3>1
    <3>2. CASE i \in 1 .. m
      BY <2>1, <3>2
    <3>3. CASE i = m + 1
      BY <2>1, <3>3
    <3> QED
      BY <3>1, <3>2, <3>3
  <2>3. g = [i \in 0 .. m + 1 |-> g[i]]
    OBVIOUS
  <2> HIDE DEF g
  <2>4. Is(g, m + 1)
    BY <2>2, <2>3
  <2> QED
    BY <2>4
<1>3. A = Nat
  <2>1. A \in SUBSET Nat
    OBVIOUS
  <2> HIDE DEF A
  <2> QED
    BY <1>1, <1>2, <2>1, Induction
<1>4. PICK f : Is(f, n)
  BY <1>3
<1>5. Visits3(w, h) = CHOOSE f1 : Is(f1, n)
  BY DEF Visits3, Visits
<1> DEFINE a == Visits3(w, h)
<1>6. Is(a, n)
  BY <1>4, <1>5
<1> HIDE DEF a
<1>7. a[0] = w
  BY <1>6
<1>8. ASSUME NEW i \in 0 .. n - 1 PROVE a[i + 1] = VisitSub3(a[i], h, i)
  <2>1. i + 1 \in 0 .. n /\ i + 1 # 0 /\ (i + 1) - 1 = i
    OBVIOUS
  <2> QED
    BY <1>6, <2>1
<1> QED
  BY <1>7, <1>8 DEF a

\* Deallocate, for a file of two levels of sub-headers.
LEMMA Level3Unmarks ==
  ASSUME NEW w \in World, NEW H, Shape(w.content, H),
         NEW x \in H, w.content[x].numBytes <= Limit4
  PROVE  Unmarks(w, Deallocate3(w, w.content[x]), Below3(w.content, {x}))
<1> DEFINE c == w.content
           h == c[x]
           n == DivRoundUp(h.numSectors, NumDirect)
           a == Visits3(w, h)
           B == Below3(c, {x})
<1>0. Sized(h, MaxSize) /\ Shares(c, h, H) /\ x \in Sector
  BY DEF Shape
<1>1. CASE IsLeaf(h)
  <2>1. Deallocate3(w, h) = DeallocateBlocks(w, h)
    BY <1>1 DEF Deallocate3, DeallocateOver, Visits, IsLeaf
  <2>2. Unmarks(w, DeallocateBlocks(w, h), Below1(c, {x}))
    BY <1>1, BlocksUnmarked DEF IsLeaf
  <2>3. Below1(c, {x}) \subseteq B
    BY DEF Below1, Below2, Below3, Below4
  <2> HIDE DEF h, B
  <2>4. BlocksIn(c, Below1(c, {x})) \subseteq BlocksIn(c, B)
    BY <2>3, BelowGrows
  <2> QED
    BY <2>1, <2>2, <2>4 DEF Unmarks, h, B
<1>2. CASE ~IsLeaf(h)
  <2>1. Deallocate3(w, h) = a[n]
    BY <1>2 DEF Deallocate3, DeallocateOver, Visits, IsLeaf
  <2> HIDE DEF h
  <2>2. n \in Nat
    BY <1>0, RoundedUp, Limits DEF Sized, Header
  <2>3. /\ a[0] = w
        /\ \A i \in 0 .. n - 1 : a[i + 1] = VisitSub3(a[i], h, i)
    <3>1. n = DivRoundUp(h.numSectors, NumDirect)
      OBVIOUS
    <3> HIDE DEF n
    <3> QED
      BY <2>2, <3>1, Visits3Are
  <2> DEFINE Done == {i \in Nat : Unmarks(w, a[i], B)}
  <2> HIDE DEF a, n, B
  <2>5. 0 \in Done
    BY <2>3 DEF Unmarks
  <2>6. ASSUME NEW i \in 0 .. n - 1, i \in Done PROVE i + 1 \in Done
    <3> DEFINE b == a[i]
               y == h.dataSectors[i]
    <3>1. a[i + 1] = VisitSub3(b, h, i) /\ i + 1 \in Nat
      BY <2>2, <2>3
    <3>2. Unmarks(w, b, B)
      BY <2>6
    <3> HIDE DEF b
    <3>3. b \in World /\ b.content = c
      BY <3>2 DEF Unmarks
    <3>4. CASE b.aborted
      <4>1. a[i + 1] = b
        BY <3>1, <3>4 DEF VisitSub3, Visited, SubHeader
      <4> QED
        BY <3>1, <3>2, <4>1
    <3>5. CASE ~b.aborted /\ (i \notin Direct \/ y \notin Sector)
      <4>1. a[i + 1] = Abort(b)
        BY <3>1, <3>5 DEF VisitSub3, Visited, SubHeader
      <4>2. Unmarks(w, Abort(b), B)
        BY <3>2, <3>3, AbortKeeps DEF Unmarks
      <4> QED
        BY <3>1, <4>1, <4>2
    <3>6. CASE ~b.aborted /\ i \in Direct /\ y \in Sector
      <4>1. y \in H /\ y \in Subs(c, {x})
        BY <1>2, <3>6 DEF Shape, Subs, h
      <4>2. c[y].numBytes <= Limit3
        <5>1. c[y].numBytes = SubSize(h.numBytes, i)
          BY <1>0, <3>6, <4>1 DEF Shares
        <5>2. h.numBytes \in 1 .. MaxSize /\ ~(h.numBytes <= Limit2) /\ h.numBytes <= Limit4
          BY <1>0, <1>2 DEF Sized, IsLeaf, h
        <5>3. Share(h.numBytes) \in Nat /\ Share(h.numBytes) <= Limit3
          BY <5>2, SharesFit, Limits
        <5>4. c[y].numBytes \in Nat
          BY <4>1 DEF Shape, Sized, Header
        <5>5. SubSize(h.numBytes, i) <= Share(h.numBytes)
          BY <3>6, <5>2, SubSizeFits
        <5> HIDE DEF y, h
        <5> QED
          BY <5>1, <5>3, <5>4, <5>5, Limits
      <4>3. Unmarks(b, Deallocate2(b, c[y]), Below2(c, {y}))
        <5> HIDE DEF y
        <5> QED
          BY <3>3, <4>1, <4>2, Level2Unmarks
      <4>4. a[i + 1] = Deallocate2(b, c[y])
        BY <3>1, <3>3, <3>6 DEF VisitSub3, Visited, SubHeader
      <4>5. Below2(c, {y}) \subseteq B
        <5>1. {y} \subseteq Subs(c, {x})
          BY <4>1
        <5>2. Below2(c, {y}) \subseteq Below2(c, Subs(c, {x}))
          <6> HIDE DEF y
          <6> QED
            BY <5>1, BelowGrows
        <5> QED
          BY <5>2 DEF B, Below3
      <4> HIDE DEF y, c
      <4>6. BlocksIn(c, Below2(c, {y})) \subseteq BlocksIn(c, B)
        BY <4>5, BelowGrows
      <4> DEFINE d == Deallocate2(b, c[y])
      <4> HIDE DEF d
      <4>7. Unmarks(w, d, B)
        BY <3>2, <3>3, <3>6, <4>3, <4>6 DEF Unmarks, d, c
      <4> QED
        BY <3>1, <4>4, <4>7 DEF d
    <3> QED
      BY <3>4, <3>5, <3>6
  <2>7. n \in Done
    <3>1. Done \in SUBSET Nat /\ n \in 0 .. n
      BY <2>2
    <3> HIDE DEF Done
    <3> QED
      BY <2>2, <2>5, <2>6, <3>1, InductionUpTo
  <2> QED
    BY <2>1, <2>7 DEF n, h, B
<1> QED
  BY <1>1, <1>2

\* The visits to sub-headers of three levels, one by one.
LEMMA Visits4Are ==
  ASSUME NEW w, NEW h, NEW n \in Nat, n = DivRoundUp(h.numSectors, NumDirect)
  PROVE  /\ Visits4(w, h)[0] = w
         /\ \A i \in 0 .. n - 1 : Visits4(w, h)[i + 1] =
              VisitSub4(Visits4(w, h)[i], h, i)
<1> DEFINE Is(f, m) == f = [i \in 0 .. m |-> IF i = 0 THEN w
                                             ELSE VisitSub4(f[i - 1], h, i - 1)]
           A == {m \in Nat : \E f : Is(f, m)}
<1>1. 0 \in A
  <2>1. Is([i \in 0 .. 0 |-> w], 0)
    OBVIOUS
  <2> QED
    BY <2>1
<1>2. ASSUME NEW m \in A PROVE m + 1 \in A
  <2>1. PICK f : Is(f, m)
    OBVIOUS
  <2> DEFINE g == [i \in 0 .. m + 1 |-> IF i <= m THEN f[i] ELSE VisitSub4(f[m], h, i - 1)]
  <2>2. ASSUME NEW i \in 0 .. m + 1
        PROVE  g[i] = IF i = 0 THEN w ELSE VisitSub4(g[i - 1], h, i - 1)
    <3>1. CASE i = 0
      BY <2>1, <3>1
    <3>2. CASE i \in 1 .. m
      BY <2>1, <3>2
    <3>3. CASE i = m + 1
      BY <2>1, <3>3
    <3> QED
      BY <3>1, <3>2, <3>3
  <2>3. g = [i \in 0 .. m + 1 |-> g[i]]
    OBVIOUS
  <2> HIDE DEF g
  <2>4. Is(g, m + 1)
    BY <2>2, <2>3
  <2> QED
    BY <2>4
<1>3. A = Nat
  <2>1. A \in SUBSET Nat
    OBVIOUS
  <2> HIDE DEF A
  <2> QED
    BY <1>1, <1>2, <2>1, Induction
<1>4. PICK f : Is(f, n)
  BY <1>3
<1>5. Visits4(w, h) = CHOOSE f1 : Is(f1, n)
  BY DEF Visits4, Visits
<1> DEFINE a == Visits4(w, h)
<1>6. Is(a, n)
  BY <1>4, <1>5
<1> HIDE DEF a
<1>7. a[0] = w
  BY <1>6
<1>8. ASSUME NEW i \in 0 .. n - 1 PROVE a[i + 1] = VisitSub4(a[i], h, i)
  <2>1. i + 1 \in 0 .. n /\ i + 1 # 0 /\ (i + 1) - 1 = i
    OBVIOUS
  <2> QED
    BY <1>6, <2>1
<1> QED
  BY <1>7, <1>8 DEF a

\* FileHeader::Deallocate clears marks of blocks of its own file only, and writes
\* nothing, although the number of sub-headers it visits is not theirs
\* (filehdr.cc:162).
LEMMA Level4Unmarks ==
  ASSUME NEW w \in World, NEW H, Shape(w.content, H),
         NEW x \in H, w.content[x].numBytes <= MaxSize
  PROVE  Unmarks(w, Deallocate(w, w.content[x]), Below4(w.content, {x}))
<1> DEFINE c == w.content
           h == c[x]
           n == DivRoundUp(h.numSectors, NumDirect)
           a == Visits4(w, h)
           B == Below4(c, {x})
<1>0. Sized(h, MaxSize) /\ Shares(c, h, H) /\ x \in Sector
  BY DEF Shape
<1>1. CASE IsLeaf(h)
  <2>1. Deallocate(w, h) = DeallocateBlocks(w, h)
    BY <1>1 DEF Deallocate, DeallocateOver, Visits, IsLeaf
  <2>2. Unmarks(w, DeallocateBlocks(w, h), Below1(c, {x}))
    BY <1>1, BlocksUnmarked DEF IsLeaf
  <2>3. Below1(c, {x}) \subseteq B
    BY DEF Below1, Below2, Below3, Below4
  <2> HIDE DEF h, B
  <2>4. BlocksIn(c, Below1(c, {x})) \subseteq BlocksIn(c, B)
    BY <2>3, BelowGrows
  <2> QED
    BY <2>1, <2>2, <2>4 DEF Unmarks, h, B
<1>2. CASE ~IsLeaf(h)
  <2>1. Deallocate(w, h) = a[n]
    BY <1>2 DEF Deallocate, DeallocateOver, Visits, IsLeaf
  <2> HIDE DEF h
  <2>2. n \in Nat
    BY <1>0, RoundedUp, Limits DEF Sized, Header
  <2>3. /\ a[0] = w
        /\ \A i \in 0 .. n - 1 : a[i + 1] = VisitSub4(a[i], h, i)
    <3>1. n = DivRoundUp(h.numSectors, NumDirect)
      OBVIOUS
    <3> HIDE DEF n
    <3> QED
      BY <2>2, <3>1, Visits4Are
  <2> DEFINE Done == {i \in Nat : Unmarks(w, a[i], B)}
  <2> HIDE DEF a, n, B
  <2>5. 0 \in Done
    BY <2>3 DEF Unmarks
  <2>6. ASSUME NEW i \in 0 .. n - 1, i \in Done PROVE i + 1 \in Done
    <3> DEFINE b == a[i]
               y == h.dataSectors[i]
    <3>1. a[i + 1] = VisitSub4(b, h, i) /\ i + 1 \in Nat
      BY <2>2, <2>3
    <3>2. Unmarks(w, b, B)
      BY <2>6
    <3> HIDE DEF b
    <3>3. b \in World /\ b.content = c
      BY <3>2 DEF Unmarks
    <3>4. CASE b.aborted
      <4>1. a[i + 1] = b
        BY <3>1, <3>4 DEF VisitSub4, Visited, SubHeader
      <4> QED
        BY <3>1, <3>2, <4>1
    <3>5. CASE ~b.aborted /\ (i \notin Direct \/ y \notin Sector)
      <4>1. a[i + 1] = Abort(b)
        BY <3>1, <3>5 DEF VisitSub4, Visited, SubHeader
      <4>2. Unmarks(w, Abort(b), B)
        BY <3>2, <3>3, AbortKeeps DEF Unmarks
      <4> QED
        BY <3>1, <4>1, <4>2
    <3>6. CASE ~b.aborted /\ i \in Direct /\ y \in Sector
      <4>1. y \in H /\ y \in Subs(c, {x})
        BY <1>2, <3>6 DEF Shape, Subs, h
      <4>2. c[y].numBytes <= Limit4
        <5>1. c[y].numBytes = SubSize(h.numBytes, i)
          BY <1>0, <3>6, <4>1 DEF Shares
        <5>2. h.numBytes \in 1 .. MaxSize /\ ~(h.numBytes <= Limit2) /\ h.numBytes <= MaxSize
          BY <1>0, <1>2 DEF Sized, IsLeaf, h
        <5>3. Share(h.numBytes) \in Nat /\ Share(h.numBytes) <= Limit4
          BY <5>2, SharesFit, Limits
        <5>4. c[y].numBytes \in Nat
          BY <4>1 DEF Shape, Sized, Header
        <5>5. SubSize(h.numBytes, i) <= Share(h.numBytes)
          BY <3>6, <5>2, SubSizeFits
        <5> HIDE DEF y, h
        <5> QED
          BY <5>1, <5>3, <5>4, <5>5, Limits
      <4>3. Unmarks(b, Deallocate3(b, c[y]), Below3(c, {y}))
        <5> HIDE DEF y
        <5> QED
          BY <3>3, <4>1, <4>2, Level3Unmarks
      <4>4. a[i + 1] = Deallocate3(b, c[y])
        BY <3>1, <3>3, <3>6 DEF VisitSub4, Visited, SubHeader
      <4>5. Below3(c, {y}) \subseteq B
        <5>1. {y} \subseteq Subs(c, {x})
          BY <4>1
        <5>2. Below3(c, {y}) \subseteq Below3(c, Subs(c, {x}))
          <6> HIDE DEF y
          <6> QED
            BY <5>1, BelowGrows
        <5> QED
          BY <5>2 DEF B, Below4
      <4> HIDE DEF y, c
      <4>6. BlocksIn(c, Below3(c, {y})) \subseteq BlocksIn(c, B)
        BY <4>5, BelowGrows
      <4> DEFINE d == Deallocate3(b, c[y])
      <4> HIDE DEF d
      <4>7. Unmarks(w, d, B)
        BY <3>2, <3>3, <3>6, <4>3, <4>6 DEF Unmarks, d, c
      <4> QED
        BY <3>1, <4>4, <4>7 DEF d
    <3> QED
      BY <3>4, <3>5, <3>6
  <2>7. n \in Done
    <3>1. Done \in SUBSET Nat /\ n \in 0 .. n
      BY <2>2
    <3> HIDE DEF Done
    <3> QED
      BY <2>2, <2>5, <2>6, <3>1, InductionUpTo
  <2> QED
    BY <2>1, <2>7 DEF n, h, B
<1> QED
  BY <1>1, <1>2

-------------------------------------------------------------------------------
(* FileHeader::ByteToSector *)

\* Where a search for byte o of the file with header h starts, and the call it makes.
Start(h, o) == [header |-> h, offset |-> o, found |-> TRUE]
Down(c, f) == Into(c, f, f.header.dataSectors[f.offset \div Share(f.header.numBytes)])

\* The search of ByteToSector, call by call.
LEMMA LocatedIs ==
  ASSUME NEW c, NEW h, NEW o
  PROVE  Located(c, h, o) = Down(c, Down(c, Down(c, Start(h, o))))
<1> DEFINE f0 == Start(h, o)
           f1 == Down(c, f0)
           f2 == Down(c, f1)
           f3 == Down(c, f2)
           Is(g) == g = [l \in 0 .. 3 |-> IF l = 0 THEN f0 ELSE Down(c, g[l - 1])]
           level == CHOOSE g : Is(g)
           e == [l \in 0 .. 3 |-> IF l = 0 THEN f0 ELSE IF l = 1 THEN f1 ELSE IF l = 2 THEN f2 ELSE f3]
<1>1. Is(e)
  <2>1. ASSUME NEW l \in 0 .. 3 PROVE e[l] = IF l = 0 THEN f0 ELSE Down(c, e[l - 1])
    <3>1. l = 0 \/ l = 1 \/ l = 2 \/ l = 3
      OBVIOUS
    <3> QED
      BY <3>1
  <2>2. e = [l \in 0 .. 3 |-> e[l]]
    OBVIOUS
  <2> HIDE DEF e
  <2> QED
    BY <2>1, <2>2
<1>2. Is(level)
  <2> HIDE DEF Is
  <2> QED
    BY <1>1
<1>3. Located(c, h, o) = level[3]
  BY DEF Located, Start, Down
<1> HIDE DEF level, f0
<1>4. level[0] = f0 /\ level[1] = Down(c, level[0]) /\ level[2] = Down(c, level[1])
      /\ level[3] = Down(c, level[2])
  <2>1. 0 \in 0 .. 3 /\ 1 \in 0 .. 3 /\ 2 \in 0 .. 3 /\ 3 \in 0 .. 3
    OBVIOUS
  <2> QED
    BY <1>2, <2>1
<1> QED
  BY <1>3, <1>4 DEF f0

\* At a header without sub-headers it stays.
LEMMA Arrived ==
  ASSUME NEW c, NEW f, f.header.numBytes <= Limit2 \/ ~f.found
  PROVE  Down(c, f) = f
BY DEF Down, Into

\* The sub-header for byte o, and the byte it is there.
LEMMA ShareOfByte ==
  ASSUME NEW h, Sized(h, MaxSize), ~IsLeaf(h), NEW o \in 0 .. h.numBytes - 1
  PROVE  /\ o \div Share(h.numBytes) \in 0 .. Children(h) - 1
         /\ o \div Share(h.numBytes) \in Direct
         /\ o % Share(h.numBytes) \in 0 .. SubSize(h.numBytes, o \div Share(h.numBytes)) - 1
<1> DEFINE n == h.numBytes
           S == Share(n)
           k == Children(h)
           j == o \div S
           r == o % S
<1>1. n \in 1 .. MaxSize /\ n \in Nat /\ o \in Nat /\ o < n /\ ~(n <= Limit2) /\ n > Limit2
  BY Limits DEF Sized, Header, IsLeaf
<1>2. S \in Nat \ {0} /\ k = DivRoundUp(n, S) /\ k \in 1 .. NumDirect
  BY <1>1, SharesFit DEF Children
<1>3. j \in Nat /\ r \in 0 .. S - 1 /\ o = j * S + r
  BY <1>1, <1>2, DivMod
<1>4. n <= k * S /\ k \in Nat
  <2> HIDE DEF S, n
  <2> QED
    BY <1>1, <1>2, RoundedUp
<1>5. SubSize(n, j) = IF n - j * S > S THEN S ELSE n - j * S
  BY DEF SubSize
<1> HIDE DEF n, S, k, j, r
<1>6. j * S \in Nat /\ k * S \in Nat
  BY <1>2, <1>3, <1>4, TimesType
<1>7. j * S <= o /\ o < k * S
  BY <1>1, <1>3, <1>4, <1>6
<1>8. j < k
  BY <1>1, <1>2, <1>3, <1>4, <1>7, TimesLess
<1>9. j \in 0 .. k - 1 /\ j \in Direct
  BY <1>2, <1>3, <1>8, Limits DEF Direct
<1>10. r \in 0 .. SubSize(n, j) - 1
  BY <1>1, <1>2, <1>3, <1>5, <1>6
<1> QED
  BY <1>9, <1>10 DEF n, S, k, j, r

\* One call goes to the sub-header for the byte.
LEMMA OneDown ==
  ASSUME NEW c, NEW H, Shape(c, H), NEW x \in H, ~IsLeaf(c[x]), NEW o \in 0 .. c[x].numBytes - 1,
         NEW S, S = Share(c[x].numBytes), NEW y, y = c[x].dataSectors[o \div S]
  PROVE  /\ y \in Sector =>
              /\ y \in H /\ c[y].numBytes = SubSize(c[x].numBytes, o \div S)
              /\ o % S \in 0 .. c[y].numBytes - 1
              /\ Down(c, Start(c[x], o)) = Start(c[y], o % S)
         /\ y \notin Sector => ~Down(c, Start(c[x], o)).found
<1> DEFINE h == c[x]
           f == Start(h, o)
<1>1. Sized(h, MaxSize) /\ Shares(c, h, H)
  BY DEF Shape
<1>2. /\ o \div S \in Direct
      /\ o % S \in 0 .. SubSize(h.numBytes, o \div S) - 1
  <2> HIDE DEF h
  <2> QED
    BY <1>1, ShareOfByte DEF h
<1>3. f.header = h /\ f.offset = o /\ f.found /\ ~(f.header.numBytes <= Limit2)
  BY DEF Start, IsLeaf
<1>4. Down(c, f) = IF y \notin Sector THEN [f EXCEPT !.found = FALSE]
                   ELSE [f EXCEPT !.header = c[y], !.offset = @ % S]
  BY <1>3 DEF Down, Into
<1>5. CASE y \notin Sector
  <2>1. Down(c, f).found = FALSE
    BY <1>4, <1>5 DEF Start
  <2> QED
    BY <1>5, <2>1
<1>6. CASE y \in Sector
  <2>1. y \in H
    BY <1>2, <1>6 DEF Shape
  <2>2. c[y].numBytes = SubSize(h.numBytes, o \div S)
    BY <1>1, <1>2, <2>1 DEF Shares
  <2>3. Down(c, f) = Start(c[y], o % S)
    BY <1>4, <1>6 DEF Start
  <2> QED
    BY <1>2, <1>6, <2>1, <2>2, <2>3
<1> QED
  BY <1>5, <1>6

\* What is left to search is a level less.
LEMMA LevelDown ==
  ASSUME NEW c, NEW H, Shape(c, H), NEW x \in H, NEW o \in 0 .. c[x].numBytes - 1,
         NEW f, f = Down(c, Start(c[x], o))
  PROVE  \/ ~f.found
         \/ \E y \in H : \E r \in 0 .. c[y].numBytes - 1 :
              /\ f = Start(c[y], r) /\ c[y].numBytes <= Limit4
              /\ c[x].numBytes <= Limit4 => c[y].numBytes <= Limit3
              /\ c[x].numBytes <= Limit3 => c[y].numBytes <= Limit2
<1> DEFINE h == c[x]
           n == h.numBytes
           S == Share(n)
           j == o \div S
           y == h.dataSectors[j]
<1>1. Sized(h, MaxSize) /\ n \in 1 .. MaxSize /\ n \in Nat
  BY Limits DEF Shape, Sized, Header
<1>2. CASE IsLeaf(h)
  <2>1. f = Start(h, o) /\ n <= Limit2
    BY <1>2, Arrived DEF IsLeaf, Start
  <2>2. n <= Limit4 /\ n <= Limit3
    BY <1>1, <2>1, Limits
  <2> QED
    BY <2>1, <2>2
<1>3. CASE ~IsLeaf(h) /\ y \notin Sector
  <2> HIDE DEF y
  <2>1. ~Down(c, Start(h, o)).found
    BY <1>3, OneDown DEF y
  <2> QED
    BY <2>1
<1>4. CASE ~IsLeaf(h) /\ y \in Sector
  <2>1. ~(n <= Limit2) /\ j \in Direct
    <3>1. o \in 0 .. n - 1
      OBVIOUS
    <3> HIDE DEF h
    <3> QED
      BY <1>1, <1>4, <3>1, ShareOfByte DEF IsLeaf
  <2>2. /\ y \in H /\ c[y].numBytes = SubSize(n, j)
        /\ o % S \in 0 .. c[y].numBytes - 1
        /\ f = Start(c[y], o % S)
    <3> DEFINE z == y
    <3>1. z = c[x].dataSectors[o \div S] /\ z \in Sector /\ S = Share(c[x].numBytes) /\ ~IsLeaf(c[x])
      BY <1>4
    <3> HIDE DEF z, S
    <3>2. /\ z \in H /\ c[z].numBytes = SubSize(c[x].numBytes, o \div S)
          /\ o % S \in 0 .. c[z].numBytes - 1
          /\ Down(c, Start(c[x], o)) = Start(c[z], o % S)
      BY <3>1, OneDown
    <3> QED
      BY <3>2 DEF z, S
  <2>3. SubSize(n, j) <= S /\ S \in Nat
    <3> HIDE DEF n, j
    <3> QED
      BY <1>1, <2>1, SubSizeFits, SharesFit
  <2>4. /\ S <= Limit4
        /\ n <= Limit3 => S = Limit2
        /\ n <= Limit4 => S <= Limit3
    <3> HIDE DEF n
    <3> QED
      BY <1>1, <2>1, SharesFit
  <2>5. c[y].numBytes \in Nat
    BY <2>2 DEF Shape, Sized, Header
  <2> HIDE DEF n, y, S, j
  <2>6. /\ c[y].numBytes <= Limit4
        /\ n <= Limit4 => c[y].numBytes <= Limit3
        /\ n <= Limit3 => c[y].numBytes <= Limit2
    BY <2>2, <2>3, <2>4, <2>5, Limits
  <2> QED
    BY <2>2, <2>6 DEF n
<1> QED
  BY <1>2, <1>3, <1>4

\* After three calls the search is at a header without sub-headers or has failed.
LEMMA ThreeCalls ==
  ASSUME NEW c, NEW H, Shape(c, H), NEW x \in H, NEW o \in 0 .. c[x].numBytes - 1,
         c[x].numBytes <= Limit4
  PROVE  Down(c, Down(c, Down(c, Start(c[x], o)))) = Down(c, Down(c, Start(c[x], o)))
<1> DEFINE f0 == Start(c[x], o)
           f1 == Down(c, f0)
           f2 == Down(c, f1)
<1>1. CASE ~f1.found
  <2>1. f2 = f1
    BY <1>1, Arrived
  <2> QED
    BY <2>1
<1>2. CASE f1.found
  <2>1. PICK y \in H : \E r \in 0 .. c[y].numBytes - 1 : f1 = Start(c[y], r) /\ c[y].numBytes <= Limit3
    BY <1>2, LevelDown
  <2>2. PICK r \in 0 .. c[y].numBytes - 1 : f1 = Start(c[y], r)
    BY <2>1
  <2>3. CASE ~f2.found
    BY <2>3, Arrived
  <2>4. CASE f2.found
    <3>1. f2 = Down(c, Start(c[y], r)) /\ c[y].numBytes <= Limit3
      BY <2>1, <2>2
    <3> HIDE DEF f2
    <3>2. PICK z \in H : \E q \in 0 .. c[z].numBytes - 1 : f2 = Start(c[z], q) /\ c[z].numBytes <= Limit2
      BY <2>4, <3>1, LevelDown
    <3>3. f2.header.numBytes <= Limit2
      BY <3>2 DEF Start
    <3>4. Down(c, f2) = f2
      BY <3>3, Arrived
    <3> QED
      BY <3>4 DEF f2
  <2> QED
    BY <2>3, <2>4
<1> QED
  BY <1>1, <1>2

\* A byte of a file is in the sector where it is in the sub-header's share of it.
LEMMA ByteBelow ==
  ASSUME NEW c, NEW H, Shape(c, H), NEW x \in H, ~IsLeaf(c[x]), NEW o \in 0 .. c[x].numBytes - 1,
         NEW S, S = Share(c[x].numBytes), NEW y, y = c[x].dataSectors[o \div S]
  PROVE  ByteToSector(c, c[x], o) = IF y \in Sector THEN ByteToSector(c, c[y], o % S) ELSE -1
<1> DEFINE f0 == Start(c[x], o)
           f1 == Down(c, f0)
<1>1. ByteToSector(c, c[x], o) = Block(Down(c, Down(c, f1)))
  BY LocatedIs DEF ByteToSector
<1>2. CASE y \notin Sector
  <2>1. ~f1.found
    BY <1>2, OneDown
  <2> HIDE DEF f1
  <2>2. Down(c, f1) = f1
    BY <2>1, Arrived
  <2> QED
    BY <1>1, <1>2, <2>1, <2>2 DEF Block
<1>3. CASE y \in Sector
  <2>1. /\ y \in H /\ c[y].numBytes = SubSize(c[x].numBytes, o \div S)
        /\ o % S \in 0 .. c[y].numBytes - 1 /\ f1 = Start(c[y], o % S)
    BY <1>3, OneDown
  <2>2. c[y].numBytes <= Limit4
    <3> DEFINE n == c[x].numBytes
    <3>1. n \in 1 .. MaxSize /\ ~(n <= Limit2) /\ Sized(c[x], MaxSize)
      BY DEF Shape, Sized, IsLeaf
    <3>2. o \div S \in Direct
      BY <3>1, ShareOfByte
    <3> HIDE DEF n
    <3>3. SubSize(n, o \div S) <= Share(n) /\ Share(n) <= Limit4 /\ Share(n) \in Nat
      BY <3>1, <3>2, SubSizeFits, SharesFit
    <3>4. c[y].numBytes \in Nat
      BY <2>1 DEF Shape, Sized, Header
    <3> QED
      BY <2>1, <3>3, <3>4, Limits DEF n
  <2> HIDE DEF f1
  <2>3. ByteToSector(c, c[y], o % S) = Block(Down(c, Down(c, Down(c, f1))))
    BY <2>1, LocatedIs DEF ByteToSector
  <2>4. Down(c, Down(c, Down(c, f1))) = Down(c, Down(c, f1))
    <3> DEFINE r == o % S
    <3>1. y \in H /\ r \in 0 .. c[y].numBytes - 1 /\ f1 = Start(c[y], r)
      BY <2>1
    <3> HIDE DEF r
    <3>2. Down(c, Down(c, Down(c, Start(c[y], r)))) = Down(c, Down(c, Start(c[y], r)))
      BY <2>2, <3>1, ThreeCalls
    <3> QED
      BY <3>1, <3>2
  <2> QED
    BY <1>1, <1>3, <2>3, <2>4
<1> QED
  BY <1>2, <1>3

\* In a file without sub-headers the byte is in the block its offset is in.
LEMMA ByteOfLeaf ==
  ASSUME NEW c, NEW h, IsLeaf(h), NEW o
  PROVE  ByteToSector(c, h, o) = h.dataSectors[o \div SectorSize]
<1> DEFINE f == Start(h, o)
<1>1. Down(c, f) = f /\ f.header = h /\ f.offset = o /\ f.found
  BY Arrived DEF IsLeaf, Start
<1> QED
  BY <1>1, LocatedIs DEF ByteToSector, Block

-------------------------------------------------------------------------------
(* The blocks of a file *)

\* The m parts are sequences over A, q long but for the last; all is the parts joined.
AreParts(A, parts, m, q) ==
  parts \in [1 .. m -> Seq(A)] /\ \A i \in 1 .. m - 1 : Len(parts[i]) = q

AreJoined(all, A, parts, m, q) ==
  /\ all \in Seq(A) /\ Len(all) = (m - 1) * q + Len(parts[m])
  /\ \A i \in 1 .. m : \A k \in 1 .. Len(parts[i]) : all[(i - 1) * q + k] = parts[i][k]

\* What FlattenSeq joins, part by part.
LEMMA Joined ==
  ASSUME NEW A, NEW m \in Nat \ {0}, NEW parts, NEW q \in Nat, AreParts(A, parts, m, q)
  PROVE  AreJoined(Seqs!FlattenSeq(parts), A, parts, m, q)
<1> DEFINE all == Seqs!FlattenSeq(parts)
<1> USE DEF AreParts
<1> DEFINE Is(f, n) == f = [i \in 1 .. n |-> IF i = 1 THEN parts[1] ELSE f[i - 1] \o parts[i]]
           E == {n \in Nat : \E f : Is(f, n)}
<1>0. Len(parts) = m /\ m # 0 /\ \A i \in 1 .. m : parts[i] \in Seq(A)
  <2>1. parts = [i \in 1 .. m |-> parts[i]]
    OBVIOUS
  <2> QED
    BY <2>1
<1>1. 0 \in E
  <2>1. Is([i \in 1 .. 0 |-> parts[1]], 0)
    OBVIOUS
  <2> QED
    BY <2>1
<1>2. ASSUME NEW n \in E PROVE n + 1 \in E
  <2>1. PICK f : Is(f, n)
    OBVIOUS
  <2> DEFINE g == [i \in 1 .. n + 1 |-> IF i <= n THEN f[i] ELSE IF i = 1 THEN parts[1] ELSE f[n] \o parts[i]]
  <2>2. ASSUME NEW i \in 1 .. n + 1
        PROVE  g[i] = IF i = 1 THEN parts[1] ELSE g[i - 1] \o parts[i]
    <3>1. CASE i <= n /\ i = 1
      <4>1. 1 \in 1 .. n
        BY <3>1
      <4>2. f[1] = parts[1]
        BY <2>1, <4>1
      <4> QED
        BY <3>1, <4>2
    <3>2. CASE i <= n /\ i # 1
      <4>1. i \in 1 .. n /\ i - 1 \in 1 .. n + 1 /\ i - 1 <= n
        BY <3>2
      <4>2. f[i] = f[i - 1] \o parts[i]
        BY <2>1, <3>2, <4>1
      <4>3. g[i - 1] = f[i - 1] /\ g[i] = f[i]
        BY <3>2, <4>1
      <4> QED
        BY <3>2, <4>2, <4>3
    <3>3. CASE i = n + 1
      <4>1. ~(i <= n) /\ i - 1 = n
        BY <3>3
      <4>2. i # 1 => n \in 1 .. n + 1 /\ g[n] = f[n]
        BY <3>3
      <4> QED
        BY <3>3, <4>1, <4>2
    <3> QED
      BY <3>1, <3>2, <3>3
  <2>3. g = [i \in 1 .. n + 1 |-> g[i]]
    OBVIOUS
  <2> HIDE DEF g
  <2>4. Is(g, n + 1)
    BY <2>2, <2>3
  <2> HIDE DEF Is
  <2>5. n + 1 \in Nat /\ \E x : Is(x, n + 1)
    BY <2>4
  <2> QED
    BY <2>5
<1>3. E = Nat
  <2>1. E \in SUBSET Nat
    OBVIOUS
  <2> HIDE DEF E
  <2> QED
    BY <1>1, <1>2, <2>1, Induction
<1> DEFINE G(f) == f = [i \in 1 .. Len(parts) |-> IF i = 1 THEN parts[i] ELSE f[i - 1] \o parts[i]]
           F == CHOOSE f : G(f)
<1>4. G(F)
  <2>1. PICK f : Is(f, m)
    BY <1>3
  <2>2. G(f)
    BY <1>0, <2>1
  <2> HIDE DEF G
  <2> QED
    BY <2>2
<1>5. all = F[m]
  BY <1>0 DEF Seqs!FlattenSeq
<1> HIDE DEF F
<1>6. F[1] = parts[1] /\ \A i \in 1 .. m - 1 : F[i + 1] = F[i] \o parts[i + 1]
  <2>1. F[1] = parts[1]
    BY <1>0, <1>4
  <2>2. ASSUME NEW i \in 1 .. m - 1 PROVE F[i + 1] = F[i] \o parts[i + 1]
    <3>1. i + 1 \in 1 .. m /\ i + 1 # 1 /\ (i + 1) - 1 = i
      OBVIOUS
    <3> QED
      BY <1>0, <1>4, <3>1
  <2> QED
    BY <2>1, <2>2
<1> DEFINE Long(n) == /\ F[n] \in Seq(A) /\ Len(F[n]) = (n - 1) * q + Len(parts[n])
                      /\ \A i \in 1 .. n : \A k \in 1 .. Len(parts[i]) :
                           F[n][(i - 1) * q + k] = parts[i][k]
           B == {n \in Nat : Long(n + 1)}
<1> HIDE DEF G, Is, E
<1>7. 0 \in B
  <2>1. (1 - 1) * q = 0 /\ 1 \in 1 .. m
    OBVIOUS
  <2>2. F[1] \in Seq(A) /\ Len(F[1]) = (1 - 1) * q + Len(parts[1])
    BY <1>6, <2>1
  <2>3. ASSUME NEW i \in 1 .. 1, NEW k \in 1 .. Len(parts[i]) PROVE F[1][(i - 1) * q + k] = parts[i][k]
    <3>1. i = 1 /\ (i - 1) * q + k = k
      BY <2>1
    <3> QED
      BY <1>6, <3>1
  <2>4. Long(1)
    BY <2>2, <2>3
  <2>5. 0 + 1 = 1
    OBVIOUS
  <2> HIDE DEF Long
  <2> QED
    BY <2>4, <2>5
<1>8. ASSUME NEW n \in 0 .. (m - 1) - 1, n \in B PROVE n + 1 \in B
  <2> DEFINE a == n + 1
             u == F[a]
             v == parts[a + 1]
  <2>1. a \in 1 .. m - 1 /\ a + 1 \in 1 .. m /\ a \in Nat /\ a \in 1 .. m
    BY <1>8
  <2>2. Long(a)
    BY <1>8
  <2> HIDE DEF a
  <2>3. Len(parts[a]) = q /\ v \in Seq(A) /\ Len(v) \in Nat
    <3>1. v \in Seq(A)
      BY <1>0, <2>1
    <3>2. Len(parts[a]) = q
      BY <2>1
    <3> HIDE DEF v
    <3> QED
      BY <3>1, <3>2
  <2>4. Len(u) = a * q /\ a * q \in Nat /\ u \in Seq(A)
    <3>1. (a - 1) * q + q = a * q
      BY <2>1
    <3> QED
      BY <2>1, <2>2, <2>3, <3>1, TimesType
  <2>5. F[a + 1] = u \o v
    BY <1>6, <2>1
  <2>6. F[a + 1] \in Seq(A) /\ Len(F[a + 1]) = ((a + 1) - 1) * q + Len(v)
    <3>1. (a + 1) - 1 = a
      BY <2>1
    <3> HIDE DEF u, v
    <3>2. u \o v \in Seq(A) /\ Len(u \o v) = Len(u) + Len(v)
      BY <2>3, <2>4, ConcatProperties
    <3> QED
      BY <2>4, <2>5, <3>1, <3>2
  <2>7. ASSUME NEW i \in 1 .. a + 1, NEW k \in 1 .. Len(parts[i])
        PROVE  F[a + 1][(i - 1) * q + k] = parts[i][k]
    <3>1. CASE i \in 1 .. a
      <4>1. k \in 1 .. q
        <5>1. i \in 1 .. m - 1
          BY <2>1, <3>1
        <5> QED
          BY <5>1
      <4>2. (i - 1) * q \in Nat /\ (i - 1) * q + q <= a * q
        <5>1. i \in Nat /\ i - 1 \in Nat /\ i <= a
          BY <2>1, <3>1
        <5>2. (i - 1) * q + q = i * q
          BY <5>1
        <5> QED
          BY <2>1, <5>1, <5>2, TimesType, TimesGrows
      <4>3. (i - 1) * q + k \in 1 .. Len(u)
        <5> DEFINE z == (i - 1) * q
        <5>1. z \in Nat /\ z + q <= Len(u) /\ Len(u) \in Nat
          BY <2>4, <4>2
        <5> HIDE DEF z, u
        <5> QED
          BY <4>1, <5>1 DEF z
      <4>4. F[a + 1][(i - 1) * q + k] = u[(i - 1) * q + k]
        <5> HIDE DEF u, v
        <5> QED
          BY <2>3, <2>4, <2>5, <4>3
      <4> QED
        BY <2>2, <3>1, <4>4
    <3>2. CASE i = a + 1
      <4>1. (i - 1) * q + k = Len(u) + k /\ k \in 1 .. Len(v) /\ parts[i] = v
        <5>1. i - 1 = a
          BY <2>1, <3>2
        <5> QED
          BY <2>4, <3>2, <5>1
      <4>2. (u \o v)[Len(u) + k] = v[k]
        <5> HIDE DEF u, v
        <5> QED
          BY <2>3, <2>4, <4>1
      <4> QED
        BY <2>5, <4>1, <4>2
    <3> QED
      BY <2>1, <3>1, <3>2
  <2>8. Long(a + 1)
    BY <2>6, <2>7
  <2> QED
    BY <2>1, <2>8 DEF a
<1>9. m - 1 \in B
  <2>1. B \in SUBSET Nat /\ m - 1 \in Nat /\ m - 1 \in 0 .. m - 1
    OBVIOUS
  <2> HIDE DEF B
  <2> QED
    BY <1>7, <1>8, <2>1, InductionUpTo
<1>10. Long(m)
  <2>1. (m - 1) + 1 = m
    OBVIOUS
  <2> HIDE DEF Long
  <2> QED
    BY <1>9, <2>1
<1> QED
  BY <1>5, <1>10 DEF AreJoined

\* The blocks of the file with header h, in order, and that it has them all.
AllFound(c, h) == \A o \in 0 .. h.numBytes - 1 : ByteToSector(c, h, o) \in Sector

AreBlocks(c, h, blocks) ==
  /\ blocks \in Seq(Sector) /\ Len(blocks) = h.numSectors
  /\ \A o \in 0 .. h.numBytes - 1 :
       /\ o \div SectorSize + 1 \in 1 .. Len(blocks)
       /\ ByteToSector(c, h, o) = blocks[o \div SectorSize + 1]

\* A byte of a file is in one of its sectors.
LEMMA InTheSectors ==
  ASSUME NEW a \in Nat, NEW S \in Nat \ {0}, NEW o \in 0 .. a - 1
  PROVE  o \div S + 1 \in 1 .. DivRoundUp(a, S)
<1> DEFINE k == DivRoundUp(a, S)
           d == o \div S
<1>1. k \in Nat /\ a <= k * S
  BY RoundedUp
<1>0. o \in Nat /\ o < a
  OBVIOUS
<1>2. d \in Nat /\ o % S \in 0 .. S - 1 /\ o = d * S + (o % S)
  BY <1>0, DivMod
<1>3. d * S <= o /\ o < k * S
  <2> HIDE DEF d, k
  <2>1. d * S \in Nat /\ k * S \in Nat
    BY <1>1, <1>2, TimesType
  <2> QED
    BY <1>0, <1>1, <1>2, <2>1
<1> HIDE DEF d, k
<1>4. d < k
  BY <1>0, <1>1, <1>2, <1>3, TimesLess
<1> QED
  BY <1>1, <1>2, <1>4 DEF d, k

\* A sub-header's share is a number of whole sectors.
LEMMA ShareInSectors ==
  ASSUME NEW n
  PROVE  \E q \in Nat \ {0} : Share(n) = q * SectorSize
<1>1. Limit2 = NumDirect * SectorSize
  BY DEF Limit2
<1>2. Limit3 = (NumDirect * NumDirect) * SectorSize
  BY Limits DEF Limit3
<1>3. Limit4 = (NumDirect * NumDirect * NumDirect) * SectorSize
  BY Limits DEF Limit4
<1>4. \A x \in Nat \ {0} : x * NumDirect \in Nat \ {0}
  <2> TAKE x \in Nat \ {0}
  <2>1. 1 * NumDirect <= x * NumDirect /\ x * NumDirect \in Nat
    BY Limits, TimesGrows, TimesType
  <2> QED
    BY <2>1, Limits
<1>5. NumDirect \in Nat \ {0} /\ NumDirect * NumDirect \in Nat \ {0}
      /\ NumDirect * NumDirect * NumDirect \in Nat \ {0}
  BY <1>4, Limits
<1>6. Share(n) = Limit2 \/ Share(n) = Limit3 \/ Share(n) = Limit4
  BY DEF Share
<1> QED
  BY <1>1, <1>2, <1>3, <1>5, <1>6

\* The blocks of a file without sub-headers.
LEMMA LeafBlocks ==
  ASSUME NEW c, NEW h, Sized(h, MaxSize), IsLeaf(h), AllFound(c, h)
  PROVE  AreBlocks(c, h, OwnBlocks(h))
<1> DEFINE n == h.numBytes
           k == h.numSectors
           S == SectorSize
<1>1. n \in Nat /\ S \in Nat \ {0} /\ k = DivRoundUp(n, S)
  BY Limits DEF Sized, Header
<1>2. k \in Nat /\ \A i \in Nat : i < k => n - i * S \in Nat \ {0}
  BY <1>1, RoundedUp
<1>3. ASSUME NEW i \in 1 .. k PROVE OwnBlocks(h)[i] \in Sector
  <2> DEFINE o == (i - 1) * S
  <2>1. i - 1 \in Nat /\ i - 1 < k
    BY <1>2, <1>3
  <2>2. o \in Nat /\ n - o \in Nat \ {0}
    <3> HIDE DEF n, k, S
    <3> QED
      BY <1>1, <1>2, <2>1, TimesType
  <2>3. o \in 0 .. n - 1
    <3> HIDE DEF o, n
    <3> QED
      BY <1>1, <2>2
  <2>4. o \div S = i - 1
    <3> DEFINE e == i - 1
    <3>1. e \in Nat /\ 0 \in 0 .. S - 1
      BY <1>1, <2>1
    <3> HIDE DEF e, S
    <3>2. (e * S + 0) \div S = e
      BY <1>1, <3>1, DivUnique
    <3>3. e * S + 0 = e * S
      BY <1>1, <3>1, TimesType
    <3> QED
      BY <3>2, <3>3 DEF e
  <2> HIDE DEF o
  <2>5. ByteToSector(c, h, o) = h.dataSectors[i - 1]
    BY <2>4, ByteOfLeaf
  <2> QED
    BY <2>3, <2>5 DEF AllFound, OwnBlocks
<1>4. OwnBlocks(h) \in Seq(Sector) /\ Len(OwnBlocks(h)) = k
  <2>1. OwnBlocks(h) = [i \in 1 .. k |-> OwnBlocks(h)[i]]
    BY DEF OwnBlocks
  <2> HIDE DEF k
  <2> QED
    BY <1>2, <1>3, <2>1
<1>5. ASSUME NEW o \in 0 .. n - 1
      PROVE  o \div S + 1 \in 1 .. k /\ ByteToSector(c, h, o) = OwnBlocks(h)[o \div S + 1]
  <2>1. o \div S + 1 \in 1 .. k
    <3> HIDE DEF n, k, S
    <3> QED
      BY <1>1, <1>5, InTheSectors
  <2>2. o \div S \in Nat
    <3>1. o \in Nat
      BY <1>1, <1>5
    <3> HIDE DEF S
    <3> QED
      BY <1>1, <3>1, DivMod
  <2>3. ByteToSector(c, h, o) = h.dataSectors[o \div S]
    BY ByteOfLeaf
  <2>4. OwnBlocks(h)[o \div S + 1] = h.dataSectors[(o \div S + 1) - 1]
    BY <2>1 DEF OwnBlocks
  <2>5. (o \div S + 1) - 1 = o \div S
    BY <2>2
  <2> QED
    BY <2>1, <2>3, <2>4, <2>5
<1> QED
  BY <1>4, <1>5 DEF AreBlocks

\* The file of a header with sub-headers is in the sectors of theirs.
LEMMA ShareFound ==
  ASSUME NEW c, NEW H, Shape(c, H), NEW x \in H, ~IsLeaf(c[x]), AllFound(c, c[x]),
         NEW j \in 0 .. Children(c[x]) - 1, NEW y, y = c[x].dataSectors[j],
         NEW S, S = Share(c[x].numBytes), NEW m, m = SubSize(c[x].numBytes, j)
  PROVE  /\ y \in H /\ c[y].numBytes = m /\ m \in 1 .. S /\ AllFound(c, c[y])
         /\ m = S \/ j = Children(c[x]) - 1
         /\ m = c[x].numBytes - j * S \/ m = S
         /\ j = Children(c[x]) - 1 => m = c[x].numBytes - j * S
         /\ \A r \in 0 .. m - 1 : ByteToSector(c, c[x], j * S + r) = ByteToSector(c, c[y], r)
<1> DEFINE h == c[x]
           n == h.numBytes
           k == Children(h)
<1>1. n \in 1 .. MaxSize /\ n \in Nat /\ ~(n <= Limit2) /\ n > Limit2 /\ Sized(h, MaxSize)
  BY Limits DEF Shape, Sized, Header, IsLeaf
<1>2. S \in Nat \ {0} /\ k = DivRoundUp(n, S) /\ k \in 1 .. NumDirect
  BY <1>1, SharesFit DEF Children
<1>3. k \in Nat /\ j \in Nat /\ j < k /\ j \in Direct /\ n <= k * S
      /\ \A i \in Nat : i < k => n - i * S \in Nat \ {0}
  <2>1. k \in Nat /\ j \in Nat /\ j < k /\ j \in Direct
    <3> HIDE DEF k
    <3>1. NumDirect \in Nat /\ j \in 0 .. k - 1
      BY Limits DEF k
    <3> QED
      BY <1>2, <3>1 DEF Direct
  <2> HIDE DEF k, n
  <2> QED
    BY <1>1, <1>2, <2>1, RoundedUp
<1>4. n - j * S \in Nat \ {0} /\ j * S \in Nat
  BY <1>2, <1>3, TimesType
<1>5. m = IF n - j * S > S THEN S ELSE n - j * S
  BY DEF SubSize
<1> HIDE DEF n, k
<1>6. m \in 1 .. S /\ (m = n - j * S \/ m = S) /\ j * S + m <= n
  BY <1>1, <1>2, <1>4, <1>5
<1>7. ASSUME NEW r \in 0 .. m - 1
      PROVE  /\ j * S + r \in 0 .. n - 1 /\ (j * S + r) \div S = j /\ (j * S + r) % S = r
             /\ ByteToSector(c, h, j * S + r) = IF y \in Sector THEN ByteToSector(c, c[y], r) ELSE -1
             /\ ByteToSector(c, h, j * S + r) \in Sector
  <2>1. r \in 0 .. S - 1 /\ r \in Nat
    BY <1>2, <1>6
  <2>2. (j * S + r) \div S = j /\ (j * S + r) % S = r
    BY <1>2, <1>3, <2>1, DivUnique
  <2>3. j * S + r \in 0 .. n - 1
    <3> DEFINE z == j * S
    <3>1. z \in Nat /\ z + m <= n
      BY <1>4, <1>6
    <3> HIDE DEF z
    <3> QED
      BY <1>1, <1>2, <1>6, <3>1, <2>1 DEF z
  <2> DEFINE o == j * S + r
  <2>4. o \in 0 .. c[x].numBytes - 1 /\ o \div S = j /\ o % S = r
    BY <2>2, <2>3 DEF n
  <2> HIDE DEF o
  <2>5. ByteToSector(c, c[x], o) = IF y \in Sector THEN ByteToSector(c, c[y], r) ELSE -1
    BY <2>4, ByteBelow
  <2>6. ByteToSector(c, c[x], o) \in Sector
    BY <2>4 DEF AllFound
  <2> QED
    BY <2>2, <2>3, <2>5, <2>6 DEF o
<1>8. y \in Sector
  <2>1. 0 \in 0 .. m - 1 /\ -1 \notin Sector
    BY <1>2, <1>6, Limits DEF Sector
  <2> QED
    BY <1>7, <2>1
<1>9. y \in H /\ c[y].numBytes = m
  <2>1. y \in H
    BY <1>3, <1>8 DEF Shape
  <2> QED
    BY <1>3, <2>1 DEF Shape, Shares, n, h
<1>10. AllFound(c, c[y])
  BY <1>7, <1>8, <1>9 DEF AllFound
<1>11. m = S \/ j = k - 1
  <2> SUFFICES ASSUME j # k - 1 PROVE m = S
    OBVIOUS
  <2>1. j + 1 \in Nat /\ j + 1 < k
    BY <1>3
  <2>2. n - (j + 1) * S \in Nat \ {0} /\ (j + 1) * S = j * S + S
    BY <1>2, <1>3, <2>1
  <2> QED
    BY <1>1, <1>2, <1>4, <1>5, <2>2
<1>12. j = k - 1 => m = n - j * S
  <2> SUFFICES ASSUME j = k - 1 PROVE m = n - j * S
    OBVIOUS
  <2>1. k * S = j * S + S
    BY <1>2, <1>3
  <2> QED
    BY <1>1, <1>2, <1>3, <1>4, <1>5, <2>1
<1> QED
  BY <1>6, <1>7, <1>8, <1>9, <1>10, <1>11, <1>12 DEF h, n, k

\* The blocks of a file with sub-headers are those of its sub-headers, in order.
LEMMA JoinedBlocks ==
  ASSUME NEW c, NEW H, Shape(c, H), NEW x \in H, ~IsLeaf(c[x]), AllFound(c, c[x]),
         NEW k, k = Children(c[x]), NEW parts, parts = [i \in 1 .. k |-> parts[i]],
         \A j \in 0 .. k - 1 : AreBlocks(c, c[c[x].dataSectors[j]], parts[j + 1])
  PROVE  AreBlocks(c, c[x], Seqs!FlattenSeq(parts))
<1> DEFINE h == c[x]
           n == h.numBytes
           S == Share(n)
           Z == SectorSize
           all == Seqs!FlattenSeq(parts)
           last == n - (k - 1) * S
<1>1. /\ n \in 1 .. MaxSize /\ n \in Nat /\ ~(n <= Limit2) /\ n > Limit2 /\ Sized(h, MaxSize)
      /\ h.numSectors = DivRoundUp(n, Z) /\ Z \in Nat \ {0}
  BY Limits DEF Shape, Sized, Header, IsLeaf
<1>2. S \in Nat \ {0} /\ k \in 1 .. NumDirect /\ k \in Nat \ {0}
  <2>1. S \in Nat \ {0} /\ k \in 1 .. NumDirect
    BY <1>1, SharesFit DEF Children
  <2> QED
    BY <2>1, Limits
<1>3. PICK q \in Nat \ {0} : S = q * Z
  BY ShareInSectors
<1>4. ASSUME NEW j \in 0 .. k - 1
      PROVE  /\ parts[j + 1] \in Seq(Sector)
             /\ Len(parts[j + 1]) = DivRoundUp(SubSize(n, j), Z)
             /\ SubSize(n, j) \in 1 .. S
             /\ SubSize(n, j) = S \/ j = k - 1
             /\ j = k - 1 => SubSize(n, j) = n - j * S
             /\ \A r \in 0 .. SubSize(n, j) - 1 :
                  /\ r \div Z + 1 \in 1 .. Len(parts[j + 1])
                  /\ ByteToSector(c, h, j * S + r) = parts[j + 1][r \div Z + 1]
  <2> DEFINE y == h.dataSectors[j]
             m == SubSize(n, j)
  <2>1. y = c[x].dataSectors[j] /\ S = Share(c[x].numBytes) /\ m = SubSize(c[x].numBytes, j)
        /\ j \in 0 .. Children(c[x]) - 1
    BY <1>4
  <2> HIDE DEF y, m, S
  <2>2. /\ y \in H /\ c[y].numBytes = m /\ m \in 1 .. S /\ AllFound(c, c[y])
        /\ m = S \/ j = Children(c[x]) - 1
        /\ j = Children(c[x]) - 1 => m = c[x].numBytes - j * S
        /\ \A r \in 0 .. m - 1 : ByteToSector(c, c[x], j * S + r) = ByteToSector(c, c[y], r)
    BY <2>1, ShareFound
  <2>3. AreBlocks(c, c[y], parts[j + 1])
    BY <2>1
  <2>4. c[y].numSectors = DivRoundUp(m, Z)
    BY <2>2 DEF Shape, Sized
  <2> QED
    BY <2>2, <2>3, <2>4 DEF AreBlocks, y, m
<1>5. DivRoundUp(S, Z) = q
  <2>1. Z - 1 \in 0 .. Z - 1 /\ (q * Z + (Z - 1)) \div Z = q
    <3>1. Z - 1 \in 0 .. Z - 1
      BY <1>1
    <3> QED
      BY <1>1, <3>1, DivUnique
  <2>2. q * Z \in Nat /\ q * Z + Z - 1 = q * Z + (Z - 1)
    BY <1>1, TimesType
  <2> HIDE DEF S, Z
  <2> QED
    BY <1>3, <2>1, <2>2 DEF DivRoundUp
<1> HIDE DEF S, Z, n
<1>6. /\ \A i \in 1 .. k : parts[i] \in Seq(Sector)
      /\ \A i \in 1 .. k - 1 : Len(parts[i]) = q
  <2>1. ASSUME NEW i \in 1 .. k PROVE parts[i] \in Seq(Sector) /\ (i # k => Len(parts[i]) = q)
    <3>1. i - 1 \in 0 .. k - 1 /\ (i - 1) + 1 = i
      BY <1>2
    <3>2. i # k => i - 1 # k - 1
      BY <1>2
    <3> QED
      BY <1>4, <1>5, <3>1, <3>2
  <2>2. \A i \in 1 .. k - 1 : i \in 1 .. k /\ i # k
    BY <1>2
  <2> QED
    BY <2>1, <2>2
<1> HIDE DEF all
<1>7. /\ all \in Seq(Sector) /\ Len(all) = (k - 1) * q + Len(parts[k])
      /\ \A i \in 1 .. k : \A e \in 1 .. Len(parts[i]) : all[(i - 1) * q + e] = parts[i][e]
  <2>1. AreParts(Sector, parts, k, q)
    BY <1>6 DEF AreParts
  <2>2. AreJoined(all, Sector, parts, k, q)
    BY <1>2, <2>1, Joined DEF all
  <2> QED
    BY <2>2 DEF AreJoined
<1>8. Len(all) = h.numSectors
  <2>1. k - 1 \in 0 .. k - 1 /\ (k - 1) + 1 = k /\ k - 1 \in Nat
    BY <1>2
  <2>2. Len(parts[k]) = DivRoundUp(last, Z) /\ last \in 1 .. S
    BY <1>4, <2>1
  <2> DEFINE a == (k - 1) * q
             b == last + Z - 1
  <2>3. a \in Nat /\ b \in Nat /\ (a * Z + b) \div Z = a + (b \div Z)
    <3>1. a \in Nat
      BY <2>1, TimesType
    <3>2. b \in Nat
      BY <1>1, <1>2, <2>2
    <3> HIDE DEF a, b
    <3> QED
      BY <1>1, <3>1, <3>2, SectorsApart
  <2>4. a * Z = (k - 1) * S
    <3> DEFINE e == k - 1
    <3>1. e \in Nat
      BY <2>1
    <3> HIDE DEF e
    <3>2. (e * q) * Z = e * (q * Z)
      BY <1>1, <1>3, <3>1
    <3> QED
      BY <1>3, <3>2 DEF e
  <2>5. a * Z + b = n + Z - 1
    <3> DEFINE e == (k - 1) * S
    <3>1. e \in Nat /\ a * Z = e /\ last = n - e
      BY <1>2, <2>1, <2>4, TimesType
    <3> HIDE DEF e, a, last
    <3> QED
      BY <1>1, <3>1
  <2> HIDE DEF a, b
  <2> QED
    BY <1>1, <1>7, <2>2, <2>3, <2>5 DEF DivRoundUp, a, b
<1>9. ASSUME NEW o \in 0 .. n - 1
      PROVE  /\ o \div Z + 1 \in 1 .. Len(all)
             /\ ByteToSector(c, h, o) = all[o \div Z + 1]
  <2> DEFINE j == o \div S
             r == o % S
  <2>1. j \in 0 .. k - 1 /\ r \in 0 .. SubSize(n, j) - 1
    <3>1. o \in 0 .. c[x].numBytes - 1 /\ Sized(c[x], MaxSize)
      BY <1>1 DEF n
    <3> QED
      BY <3>1, ShareOfByte DEF n, S
  <2>2. o \in Nat /\ j \in Nat /\ r \in Nat /\ o = j * S + r
    <3>1. o \in Nat
      BY <1>1, <1>9
    <3> QED
      BY <1>2, <3>1, DivMod
  <2> HIDE DEF j, r
  <2>3. r \div Z + 1 \in 1 .. Len(parts[j + 1]) /\ ByteToSector(c, h, o) = parts[j + 1][r \div Z + 1]
    BY <1>4, <2>1, <2>2
  <2>4. o \div Z = j * q + (r \div Z) /\ j * q \in Nat /\ r \div Z \in Nat
    <3>1. j * S = (j * q) * Z
      BY <1>1, <1>3, <2>2
    <3>2. j * q \in Nat /\ r \div Z \in Nat
      BY <1>1, <2>2, TimesType, DivMod
    <3> DEFINE e == j * q
    <3> HIDE DEF e
    <3>3. (e * Z + r) \div Z = e + (r \div Z)
      BY <1>1, <2>2, <3>2, SectorsApart DEF e
    <3> QED
      BY <2>2, <3>1, <3>2, <3>3 DEF e
  <2>5. j + 1 \in 1 .. k /\ (j + 1) - 1 = j
    BY <1>2, <2>1, <2>2
  <2>6. all[j * q + (r \div Z + 1)] = parts[j + 1][r \div Z + 1]
    BY <1>7, <2>3, <2>5
  <2>7. j * q + (r \div Z + 1) = o \div Z + 1
    <3> DEFINE u == j * q
               d == r \div Z
               v == o \div Z
    <3>1. v = u + d /\ u \in Nat /\ d \in Nat
      BY <2>4
    <3> HIDE DEF u, d, v
    <3>2. u + (d + 1) = v + 1
      BY <3>1
    <3> QED
      BY <3>2 DEF u, d, v
  <2>8. o \div Z + 1 \in 1 .. Len(all)
    BY <1>1, <1>8, <1>9, InTheSectors
  <2> QED
    BY <2>3, <2>6, <2>7, <2>8
<1> QED
  BY <1>7, <1>8, <1>9 DEF AreBlocks, n, Z, all

\* The blocks of a file of each number of levels.
LEMMA Level1Blocks ==
  ASSUME NEW c, NEW H, Shape(c, H), NEW x \in H, c[x].numBytes <= Limit2, AllFound(c, c[x])
  PROVE  AreBlocks(c, c[x], Blocks1(c, x))
<1>1. Sized(c[x], MaxSize) /\ IsLeaf(c[x])
  BY DEF Shape, IsLeaf
<1> QED
  BY <1>1, LeafBlocks DEF Blocks1

\* The blocks of a file of at most two levels of headers are where AreBlocks says.
LEMMA Level2Blocks ==
  ASSUME NEW c, NEW H, Shape(c, H), NEW x \in H, c[x].numBytes <= Limit3, AllFound(c, c[x])
  PROVE  AreBlocks(c, c[x], Blocks2(c, x))
<1> DEFINE h == c[x]
           k == Children(h)
           below == [i \in Direct |-> Blocks1(c, h.dataSectors[i])]
           parts == [i \in 1 .. k |-> below[i - 1]]
<1>1. Sized(h, MaxSize) /\ h.numBytes \in 1 .. MaxSize /\ h.numBytes \in Nat
  BY Limits DEF Shape, Sized, Header
<1>2. Blocks2(c, x) = BlocksOver(h, below)
  BY DEF Blocks2
<1>3. CASE IsLeaf(h)
  <2>1. Children(h) = 0
    BY <1>1, <1>3, Limits DEF Children, IsLeaf
  <2>2. Blocks2(c, x) = OwnBlocks(h)
    BY <1>2, <2>1 DEF BlocksOver
  <2> QED
    BY <1>1, <1>3, <2>2, LeafBlocks
<1>4. CASE ~IsLeaf(h)
  <2>1. k \in 1 .. NumDirect /\ ~(h.numBytes <= Limit2)
    BY <1>1, <1>4, SharesFit, Limits DEF Children, IsLeaf
  <2>2. Blocks2(c, x) = Seqs!FlattenSeq(parts)
    <3>1. k # 0
      BY <2>1, Limits
    <3> QED
      BY <1>2, <3>1 DEF BlocksOver
  <2>3. ASSUME NEW j \in 0 .. k - 1
        PROVE  AreBlocks(c, c[h.dataSectors[j]], parts[j + 1])
    <3> DEFINE y == h.dataSectors[j]
               S == Share(h.numBytes)
               m == SubSize(h.numBytes, j)
    <3>1. y \in H /\ c[y].numBytes = m /\ m \in 1 .. S /\ AllFound(c, c[y])
      <4>1. y = c[x].dataSectors[j] /\ S = Share(c[x].numBytes) /\ m = SubSize(c[x].numBytes, j)
            /\ j \in 0 .. Children(c[x]) - 1
        BY <2>3
      <4> HIDE DEF y, S, m
      <4> QED
        BY <1>4, <4>1, ShareFound
    <3>2. S <= Limit2 /\ S \in Nat
      BY <1>1, <2>1, SharesFit, Limits
    <3> HIDE DEF S, m, y
    <3>3. c[y].numBytes <= Limit2
      BY <3>1, <3>2, Limits
    <3>4. AreBlocks(c, c[y], Blocks1(c, y))
      BY <3>1, <3>3, Level1Blocks
    <3>5. parts[j + 1] = Blocks1(c, y)
      <4>1. j + 1 \in 1 .. k /\ (j + 1) - 1 = j /\ j \in Direct
        BY <2>1, <2>3, Limits DEF Direct
      <4> QED
        BY <4>1 DEF y
    <3> QED
      BY <3>4, <3>5 DEF y
  <2>4. parts = [i \in 1 .. k |-> parts[i]]
    OBVIOUS
  <2> HIDE DEF parts
  <2>5. AreBlocks(c, c[x], Seqs!FlattenSeq(parts))
    BY <1>4, <2>3, <2>4, JoinedBlocks
  <2> QED
    BY <2>2, <2>5
<1> QED
  BY <1>3, <1>4

\* The same with three levels.
LEMMA Level3Blocks ==
  ASSUME NEW c, NEW H, Shape(c, H), NEW x \in H, c[x].numBytes <= Limit4, AllFound(c, c[x])
  PROVE  AreBlocks(c, c[x], Blocks3(c, x))
<1> DEFINE h == c[x]
           k == Children(h)
           below == [i \in Direct |-> Blocks2(c, h.dataSectors[i])]
           parts == [i \in 1 .. k |-> below[i - 1]]
<1>1. Sized(h, MaxSize) /\ h.numBytes \in 1 .. MaxSize /\ h.numBytes \in Nat
  BY Limits DEF Shape, Sized, Header
<1>2. Blocks3(c, x) = BlocksOver(h, below)
  BY DEF Blocks3
<1>3. CASE IsLeaf(h)
  <2>1. Children(h) = 0
    BY <1>1, <1>3, Limits DEF Children, IsLeaf
  <2>2. Blocks3(c, x) = OwnBlocks(h)
    BY <1>2, <2>1 DEF BlocksOver
  <2> QED
    BY <1>1, <1>3, <2>2, LeafBlocks
<1>4. CASE ~IsLeaf(h)
  <2>1. k \in 1 .. NumDirect /\ ~(h.numBytes <= Limit2)
    BY <1>1, <1>4, SharesFit, Limits DEF Children, IsLeaf
  <2>2. Blocks3(c, x) = Seqs!FlattenSeq(parts)
    <3>1. k # 0
      BY <2>1, Limits
    <3> QED
      BY <1>2, <3>1 DEF BlocksOver
  <2>3. ASSUME NEW j \in 0 .. k - 1
        PROVE  AreBlocks(c, c[h.dataSectors[j]], parts[j + 1])
    <3> DEFINE y == h.dataSectors[j]
               S == Share(h.numBytes)
               m == SubSize(h.numBytes, j)
    <3>1. y \in H /\ c[y].numBytes = m /\ m \in 1 .. S /\ AllFound(c, c[y])
      <4>1. y = c[x].dataSectors[j] /\ S = Share(c[x].numBytes) /\ m = SubSize(c[x].numBytes, j)
            /\ j \in 0 .. Children(c[x]) - 1
        BY <2>3
      <4> HIDE DEF y, S, m
      <4> QED
        BY <1>4, <4>1, ShareFound
    <3>2. S <= Limit3 /\ S \in Nat
      BY <1>1, <2>1, SharesFit, Limits
    <3> HIDE DEF S, m, y
    <3>3. c[y].numBytes <= Limit3
      BY <3>1, <3>2, Limits
    <3>4. AreBlocks(c, c[y], Blocks2(c, y))
      BY <3>1, <3>3, Level2Blocks
    <3>5. parts[j + 1] = Blocks2(c, y)
      <4>1. j + 1 \in 1 .. k /\ (j + 1) - 1 = j /\ j \in Direct
        BY <2>1, <2>3, Limits DEF Direct
      <4> QED
        BY <4>1 DEF y
    <3> QED
      BY <3>4, <3>5 DEF y
  <2>4. parts = [i \in 1 .. k |-> parts[i]]
    OBVIOUS
  <2> HIDE DEF parts
  <2>5. AreBlocks(c, c[x], Seqs!FlattenSeq(parts))
    BY <1>4, <2>3, <2>4, JoinedBlocks
  <2> QED
    BY <2>2, <2>5
<1> QED
  BY <1>3, <1>4

\* The same with four.
LEMMA Level4Blocks ==
  ASSUME NEW c, NEW H, Shape(c, H), NEW x \in H, c[x].numBytes <= MaxSize, AllFound(c, c[x])
  PROVE  AreBlocks(c, c[x], BlocksOf(c, x))
<1> DEFINE h == c[x]
           k == Children(h)
           below == [i \in Direct |-> Blocks3(c, h.dataSectors[i])]
           parts == [i \in 1 .. k |-> below[i - 1]]
<1>1. Sized(h, MaxSize) /\ h.numBytes \in 1 .. MaxSize /\ h.numBytes \in Nat
  BY Limits DEF Shape, Sized, Header
<1>2. BlocksOf(c, x) = BlocksOver(h, below)
  BY DEF BlocksOf
<1>3. CASE IsLeaf(h)
  <2>1. Children(h) = 0
    BY <1>1, <1>3, Limits DEF Children, IsLeaf
  <2>2. BlocksOf(c, x) = OwnBlocks(h)
    BY <1>2, <2>1 DEF BlocksOver
  <2> QED
    BY <1>1, <1>3, <2>2, LeafBlocks
<1>4. CASE ~IsLeaf(h)
  <2>1. k \in 1 .. NumDirect /\ ~(h.numBytes <= Limit2)
    BY <1>1, <1>4, SharesFit, Limits DEF Children, IsLeaf
  <2>2. BlocksOf(c, x) = Seqs!FlattenSeq(parts)
    <3>1. k # 0
      BY <2>1, Limits
    <3> QED
      BY <1>2, <3>1 DEF BlocksOver
  <2>3. ASSUME NEW j \in 0 .. k - 1
        PROVE  AreBlocks(c, c[h.dataSectors[j]], parts[j + 1])
    <3> DEFINE y == h.dataSectors[j]
               S == Share(h.numBytes)
               m == SubSize(h.numBytes, j)
    <3>1. y \in H /\ c[y].numBytes = m /\ m \in 1 .. S /\ AllFound(c, c[y])
      <4>1. y = c[x].dataSectors[j] /\ S = Share(c[x].numBytes) /\ m = SubSize(c[x].numBytes, j)
            /\ j \in 0 .. Children(c[x]) - 1
        BY <2>3
      <4> HIDE DEF y, S, m
      <4> QED
        BY <1>4, <4>1, ShareFound
    <3>2. S <= Limit4 /\ S \in Nat
      BY <1>1, <2>1, SharesFit, Limits
    <3> HIDE DEF S, m, y
    <3>3. c[y].numBytes <= Limit4
      BY <3>1, <3>2, Limits
    <3>4. AreBlocks(c, c[y], Blocks3(c, y))
      BY <3>1, <3>3, Level3Blocks
    <3>5. parts[j + 1] = Blocks3(c, y)
      <4>1. j + 1 \in 1 .. k /\ (j + 1) - 1 = j /\ j \in Direct
        BY <2>1, <2>3, Limits DEF Direct
      <4> QED
        BY <4>1 DEF y
    <3> QED
      BY <3>4, <3>5 DEF y
  <2>4. parts = [i \in 1 .. k |-> parts[i]]
    OBVIOUS
  <2> HIDE DEF parts
  <2>5. AreBlocks(c, c[x], Seqs!FlattenSeq(parts))
    BY <1>4, <2>3, <2>4, JoinedBlocks
  <2> QED
    BY <2>2, <2>5
<1> QED
  BY <1>3, <1>4

\* A file that has a sector of its own for each block is laid out as ByteToSector finds it.
LEMMA CompleteIsLaid ==
  ASSUME NEW c, NEW H, Shape(c, H), NEW x \in H, Complete(c, c[x])
  PROVE  Laid(c, c[x], BlocksOf(c, x))
<1> DEFINE h == c[x]
           n == h.numBytes
           k == h.numSectors
           blocks == BlocksOf(c, x)
           S == SectorSize
<1>1. n \in 1 .. MaxSize /\ n \in Nat /\ Sized(h, MaxSize) /\ k = DivRoundUp(n, S) /\ S \in Nat \ {0}
  BY Limits DEF Shape, Sized, Header
<1>2. k \in Nat /\ n <= k * S /\ \A i \in Nat : i < k => n - i * S \in Nat \ {0}
  BY <1>1, RoundedUp
<1>3. AllFound(c, h)
  BY DEF Complete, DataOf, AllFound
<1>4. AreBlocks(c, h, blocks)
  <2>1. n <= MaxSize
    BY <1>1, Limits DEF MaxSize
  <2> QED
    BY <1>3, <2>1, Level4Blocks
<1> HIDE DEF blocks
<1>5. blocks \in Seq(Sector) /\ Len(blocks) = k /\ DOMAIN blocks = 1 .. k
  BY <1>4 DEF AreBlocks
<1>6. ASSUME NEW i \in 1 .. k
      PROVE  (i - 1) * S \in 0 .. n - 1 /\ ByteToSector(c, h, (i - 1) * S) = blocks[i]
  <2>1. i - 1 \in Nat /\ i - 1 < k
    BY <1>2
  <2>2. (i - 1) * S \in Nat /\ n - (i - 1) * S \in Nat \ {0}
    <3> HIDE DEF n, k, S
    <3> QED
      BY <1>1, <1>2, <2>1, TimesType
  <2> DEFINE o == (i - 1) * S
  <2>3. o \in 0 .. n - 1
    <3> HIDE DEF n, S
    <3> QED
      BY <1>1, <2>2
  <2>4. o \div S = i - 1
    <3> DEFINE e == i - 1
    <3>1. e \in Nat /\ 0 \in 0 .. S - 1
      BY <1>1, <2>1
    <3> HIDE DEF e, S
    <3>2. (e * S + 0) \div S = e
      BY <1>1, <3>1, DivUnique
    <3>3. e * S + 0 = e * S
      BY <1>1, <3>1, TimesType
    <3> QED
      BY <3>2, <3>3 DEF e
  <2> HIDE DEF o
  <2>5. ByteToSector(c, h, o) = blocks[o \div S + 1]
    BY <1>4, <2>3 DEF AreBlocks
  <2>6. (i - 1) + 1 = i
    BY <2>1
  <2> QED
    BY <2>3, <2>4, <2>5, <2>6 DEF o
<1> DEFINE T == DataOf(c, h)
<1>7. T = {blocks[i] : i \in 1 .. k}
  <2>1. ASSUME NEW o \in 0 .. n - 1 PROVE \E i \in 1 .. k : ByteToSector(c, h, o) = blocks[i]
    BY <1>4, <1>5 DEF AreBlocks
  <2> HIDE DEF n, k, S
  <2>2. T = {ByteToSector(c, h, o) : o \in 0 .. n - 1}
    BY DEF DataOf, n
  <2> HIDE DEF T
  <2> QED
    BY <1>6, <2>1, <2>2
<1>8. blocks \in Surjection(1 .. k, T)
  <2>1. blocks \in [1 .. k -> T]
    <3>1. blocks = [i \in 1 .. k |-> blocks[i]]
      BY <1>5
    <3> HIDE DEF T, k
    <3> QED
      BY <1>7, <3>1
  <2> HIDE DEF T, k
  <2> QED
    BY <1>7, <2>1 DEF Surjection
<1>9. IsFiniteSet(1 .. k) /\ Cardinality(1 .. k) = k /\ Cardinality(T) = k
  <2>1. IsFiniteSet(1 .. k) /\ Cardinality(1 .. k) = k
    <3>1. k = 0 => 1 .. k = {}
      OBVIOUS
    <3>2. k # 0 => k >= 1 /\ k - 1 + 1 = k
      BY <1>2
    <3> HIDE DEF k
    <3> QED
      BY <1>2, <3>1, <3>2, FS_Interval, FS_EmptySet
  <2>2. Cardinality(T) = k
    BY DEF Complete
  <2> QED
    BY <2>1, <2>2
<1> HIDE DEF T, k
<1>10. blocks \in Injection(1 .. k, T)
  BY <1>8, <1>9, FS_Surjection
<1>11. \A i, j \in 1 .. k : blocks[i] = blocks[j] => i = j
  BY <1>10 DEF Injection, IsInjective
<1> QED
  BY <1>1, <1>2, <1>5, <1>6, <1>11 DEF Laid, n, blocks, S

-------------------------------------------------------------------------------
(* What Deallocate gives back *)

\* A file fits in m sectors if and only if it has no more bytes than they have.
LEMMA RoundedIff ==
  ASSUME NEW a \in Nat, NEW S \in Nat \ {0}, NEW m \in Nat
  PROVE  DivRoundUp(a, S) <= m <=> a <= m * S
<1> DEFINE d == DivRoundUp(a, S)
<1>1. d \in Nat /\ a <= d * S /\ (a <= m * S => d <= m)
  BY RoundedUp
<1> HIDE DEF d
<1>2. ASSUME d <= m PROVE a <= m * S
  <2>1. d * S <= m * S
    BY <1>1, <1>2, TimesGrows
  <2>2. d * S \in Nat /\ m * S \in Nat
    BY <1>1, TimesType
  <2> QED
    BY <1>1, <2>1, <2>2
<1> QED
  BY <1>1, <1>2 DEF d

\* Rounding up to S and then to T of them is rounding up to T * S.
LEMMA RoundedTwice ==
  ASSUME NEW a \in Nat, NEW S \in Nat \ {0}, NEW T \in Nat \ {0}
  PROVE  DivRoundUp(DivRoundUp(a, S), T) = DivRoundUp(a, T * S)
<1> DEFINE d == DivRoundUp(a, S)
           e == DivRoundUp(d, T)
           f == DivRoundUp(a, T * S)
<1>0. T * S \in Nat \ {0}
  <2>1. T * S >= 1 * S
    BY TimesGrows
  <2> QED
    BY <2>1, TimesType
<1>1. d \in Nat
  BY RoundedUp
<1>2. e \in Nat
  <2> HIDE DEF d
  <2> QED
    BY <1>1, RoundedUp
<1>3. f \in Nat
  <2> DEFINE W == T * S
  <2>1. W \in Nat \ {0}
    BY <1>0
  <2> HIDE DEF W
  <2>2. DivRoundUp(a, W) \in Nat
    BY <2>1, RoundedUp
  <2> QED
    BY <2>2 DEF W
<1>4. ASSUME NEW m \in Nat PROVE e <= m <=> f <= m
  <2> DEFINE W == T * S
             M == m * T
  <2>1. e <= m <=> d <= M
    <3> HIDE DEF d
    <3> QED
      BY <1>1, RoundedIff
  <2>2. M \in Nat
    BY TimesType
  <2>3. M * S = m * W
    <3> QED
      BY Z3
  <2>4. W \in Nat \ {0}
    BY <1>0
  <2> HIDE DEF W, M
  <2>5. d <= M <=> a <= M * S
    BY <2>2, RoundedIff
  <2>6. DivRoundUp(a, W) <= m <=> a <= m * W
    BY <2>4, RoundedIff
  <2> QED
    BY <2>1, <2>3, <2>5, <2>6 DEF W
<1> HIDE DEF e, f
<1>5. e <= f /\ f <= e
  BY <1>2, <1>3, <1>4
<1>6. e = f
  BY <1>2, <1>3, <1>5
<1> QED
  BY <1>6 DEF e, f, d

\* Deallocate visits the sub-headers of a file of at most Limit3 bytes; of a larger
\* one it would visit more than there are places in a header.
LEMMA VisitsAre ==
  ASSUME NEW h, Sized(h, MaxSize), ~IsLeaf(h)
  PROVE  /\ Visits(h) \in Nat
         /\ h.numBytes <= Limit3 => Visits(h) = Children(h) /\ Share(h.numBytes) = Limit2
         /\ h.numBytes > Limit3 => Visits(h) > NumDirect
<1> DEFINE n == h.numBytes
           V == Visits(h)
<1>1. n \in 1 .. MaxSize /\ n \in Nat /\ ~(n <= Limit2) /\ h.numSectors = DivRoundUp(n, SectorSize)
  BY Limits DEF Sized, Header, IsLeaf
<1>2. V = DivRoundUp(DivRoundUp(n, SectorSize), NumDirect)
  BY <1>1 DEF Visits
<1>3. V = DivRoundUp(n, Limit2)
  BY <1>1, <1>2, Limits, RoundedTwice DEF Limit2
<1> HIDE DEF V
<1>4. V \in Nat
  BY <1>1, <1>3, Limits, RoundedUp
<1>5. ASSUME n <= Limit3 PROVE V = Children(h) /\ Share(n) = Limit2
  <2>1. Share(n) = Limit2
    BY <1>1, <1>5, SharesFit
  <2>2. n > Limit2
    BY <1>1, Limits
  <2> QED
    BY <1>3, <2>1, <2>2 DEF Children
<1>6. ASSUME n > Limit3 PROVE V > NumDirect
  <2>1. V <= NumDirect <=> n <= NumDirect * Limit2
    BY <1>1, <1>3, Limits, RoundedIff
  <2> QED
    BY <1>1, <1>4, <1>6, <2>1, Limits
<1> QED
  BY <1>4, <1>5, <1>6 DEF V

\* The bytes of a file without sub-headers are in its blocks.
LEMMA DataOfLeaf ==
  ASSUME NEW c, NEW h, Sized(h, MaxSize), IsLeaf(h)
  PROVE  DataOf(c, h) = {h.dataSectors[i] : i \in 0 .. h.numSectors - 1}
<1> DEFINE n == h.numBytes
           S == SectorSize
<1>1. n \in Nat /\ S \in Nat \ {0} /\ h.numSectors = DivRoundUp(n, S)
  BY Limits DEF Sized, Header
<1>2. \A o : ByteToSector(c, h, o) = h.dataSectors[o \div S]
  BY ByteOfLeaf
<1> HIDE DEF S, n
<1>3. DataOf(c, h) = {h.dataSectors[o \div S] : o \in 0 .. n - 1}
  BY <1>2 DEF DataOf, n
<1>4. ASSUME NEW o \in 0 .. n - 1 PROVE o \div S \in 0 .. h.numSectors - 1
  <2>1. o \div S + 1 \in 1 .. DivRoundUp(n, S)
    BY <1>1, InTheSectors
  <2>2. o \div S \in Nat
    <3>1. o \in Nat
      BY <1>1
    <3> QED
      BY <1>1, <3>1, DivMod
  <2>3. DivRoundUp(n, S) \in Nat
    BY <1>1, RoundedUp
  <2> DEFINE z == o \div S
  <2> HIDE DEF z
  <2> QED
    BY <1>1, <2>1, <2>2, <2>3 DEF z
<1>5. ASSUME NEW i \in 0 .. h.numSectors - 1 PROVE \E o \in 0 .. n - 1 : i = o \div S
  <2>1. DivRoundUp(n, S) \in Nat
    BY <1>1, RoundedUp
  <2>2. i \in Nat /\ i < DivRoundUp(n, S)
    BY <1>1, <2>1
  <2>3. n - i * S \in Nat \ {0}
    BY <1>1, <2>2, RoundedUp
  <2>4. i * S \in Nat
    BY <1>1, <2>2, TimesType
  <2>5. i * S \in 0 .. n - 1
    BY <1>1, <2>3, <2>4
  <2>6. (i * S + 0) \div S = i
    BY <1>1, <2>2, DivUnique
  <2>7. (i * S) \div S = i
    BY <2>4, <2>6
  <2> QED
    BY <2>5, <2>7
<1> QED
  BY <1>3, <1>4, <1>5

\* The bytes of a file with sub-headers are those of its sub-headers.
LEMMA DataOfSubs ==
  ASSUME NEW c, NEW H, Shape(c, H), NEW x \in H, ~IsLeaf(c[x]),
         \A j \in 0 .. Children(c[x]) - 1 : c[x].dataSectors[j] \in Sector
  PROVE  DataOf(c, c[x]) =
           UNION {DataOf(c, c[c[x].dataSectors[j]]) : j \in 0 .. Children(c[x]) - 1}
<1> DEFINE h == c[x]
           n == h.numBytes
           S == Share(n)
           k == Children(h)
           y(j) == h.dataSectors[j]
<1>0. Sized(h, MaxSize) /\ Shares(c, h, H)
  BY DEF Shape
<1>1. n \in 1 .. MaxSize /\ n \in Nat /\ ~(n <= Limit2) /\ n > Limit2
  BY <1>0, Limits DEF Sized, Header, IsLeaf
<1>2. S \in Nat \ {0} /\ k = DivRoundUp(n, S) /\ k \in 1 .. NumDirect
  BY <1>1, SharesFit DEF Children
<1>3. ASSUME NEW j \in 0 .. k - 1
      PROVE  /\ j \in Direct /\ y(j) \in H /\ y(j) \in Sector
             /\ c[y(j)].numBytes = SubSize(n, j) /\ c[y(j)].numBytes \in Nat
  <2>1. j \in Direct
    BY <1>2, Limits DEF Direct
  <2>2. y(j) \in Sector
    OBVIOUS
  <2>3. y(j) \in H
    BY <2>1, <2>2 DEF Shape
  <2> QED
    BY <1>0, <2>1, <2>2, <2>3 DEF Shape, Shares, Sized, Header
<1>4. ASSUME NEW o \in 0 .. n - 1
      PROVE  \E j \in 0 .. k - 1 : ByteToSector(c, h, o) \in DataOf(c, c[y(j)])
  <2> DEFINE j == o \div S
             r == o % S
  <2>1. j \in 0 .. k - 1 /\ r \in 0 .. SubSize(n, j) - 1
    BY <1>0, ShareOfByte
  <2>2. ByteToSector(c, h, o) = IF y(j) \in Sector THEN ByteToSector(c, c[y(j)], r) ELSE -1
    BY ByteBelow
  <2> HIDE DEF j, r, n, k, S, h
  <2>3. y(j) \in Sector /\ c[y(j)].numBytes = SubSize(n, j)
    BY <1>3, <2>1
  <2>4. ByteToSector(c, h, o) = ByteToSector(c, c[y(j)], r)
    BY <2>2, <2>3
  <2>5. r \in 0 .. c[y(j)].numBytes - 1
    BY <2>1, <2>3
  <2> QED
    BY <2>1, <2>4, <2>5 DEF DataOf
<1>5. ASSUME NEW j \in 0 .. k - 1, NEW r \in 0 .. c[y(j)].numBytes - 1
      PROVE  \E o \in 0 .. n - 1 : ByteToSector(c, h, o) = ByteToSector(c, c[y(j)], r)
  <2>1. y(j) \in H /\ y(j) \in Sector /\ c[y(j)].numBytes = SubSize(n, j) /\ c[y(j)].numBytes \in Nat
    BY <1>3
  <2>2. SubSize(n, j) = IF n - j * S > S THEN S ELSE n - j * S
    BY DEF SubSize
  <2>3. j \in Nat /\ j * S \in Nat
    BY <1>2, TimesType
  <2>4. r \in Nat /\ r < c[y(j)].numBytes
    BY <2>1
  <2>5. r \in 0 .. S - 1 /\ j * S + r \in 0 .. n - 1
    <3> HIDE DEF S, n, h
    <3> QED
      BY <1>1, <1>2, <2>1, <2>2, <2>3, <2>4
  <2> DEFINE o == j * S + r
  <2>6. o \div S = j /\ o % S = r
    BY <1>2, <2>3, <2>5, DivUnique
  <2>7. ByteToSector(c, h, o) = IF y(j) \in Sector THEN ByteToSector(c, c[y(j)], r) ELSE -1
    BY <2>5, <2>6, ByteBelow
  <2> QED
    BY <2>1, <2>5, <2>7
<1> HIDE DEF h, n, k
<1>6. DataOf(c, h) \subseteq UNION {DataOf(c, c[y(j)]) : j \in 0 .. k - 1}
  <2>1. DataOf(c, h) = {ByteToSector(c, h, o) : o \in 0 .. n - 1}
    BY DEF DataOf, n
  <2> QED
    BY <1>4, <2>1
<1>7. ASSUME NEW j \in 0 .. k - 1 PROVE DataOf(c, c[y(j)]) \subseteq DataOf(c, h)
  <2>1. DataOf(c, h) = {ByteToSector(c, h, o) : o \in 0 .. n - 1}
    BY DEF DataOf, n
  <2> QED
    BY <1>5, <2>1 DEF DataOf
<1>8. UNION {DataOf(c, c[y(j)]) : j \in 0 .. k - 1} \subseteq DataOf(c, h)
  BY <1>7
<1>9. DataOf(c, h) = UNION {DataOf(c, c[y(j)]) : j \in 0 .. k - 1}
  BY <1>6, <1>8
<1> QED
  BY <1>9 DEF h, k

\* Deallocate, for a file without sub-headers.
LEMMA BlocksFreed ==
  ASSUME NEW w \in World, NEW h, Sized(h, MaxSize), IsLeaf(h), NEW v, v = DeallocateBlocks(w, h),
         ~v.aborted
  PROVE  v.map = w.map \ DataOf(w.content, h)
<1> DEFINE mine == {h.dataSectors[i] : i \in 0 .. h.numSectors - 1}
<1>1. mine = DataOf(w.content, h)
  BY DataOfLeaf
<1>2. mine \subseteq w.map
  <2>1. ASSUME ~(mine \subseteq w.map) PROVE FALSE
    <3>1. v = Abort(w)
      BY <2>1 DEF DeallocateBlocks
    <3> QED
      BY <3>1, AbortKeeps
  <2> QED
    BY <2>1
<1>3. v = [w EXCEPT !.map = @ \ mine]
  BY <1>2 DEF DeallocateBlocks
<1> HIDE DEF mine
<1> QED
  BY <1>1, <1>3 DEF World

\* The visits of Deallocate to sub-headers without any: after i of them the blocks
\* of i sub-headers are free.
FreedUpTo(w, h, v, i) ==
  /\ v \in World /\ v.content = w.content
  /\ ~v.aborted =>
       /\ \A j \in 0 .. i - 1 : h.dataSectors[j] \in Sector
       /\ v.map = w.map \ UNION {DataOf(w.content, w.content[h.dataSectors[j]]) : j \in 0 .. i - 1}

\* One more sub-header: Deallocate has given back the data of one more sub-file.
LEMMA VisitFrees ==
  ASSUME NEW w \in World, NEW H, Shape(w.content, H), NEW x \in H,
         NEW h, h = w.content[x], ~IsLeaf(h), h.numBytes <= Limit3,
         NEW i \in Nat, NEW b, FreedUpTo(w, h, b, i), NEW v, v = VisitSub4(b, h, i)
  PROVE  FreedUpTo(w, h, v, i + 1)
<1> DEFINE c == w.content
           y == h.dataSectors[i]
<1>1. b \in World /\ b.content = c
  BY DEF FreedUpTo
<1>2. CASE b.aborted
  <2>1. v = b
    BY <1>2 DEF VisitSub4, Visited
  <2> QED
    BY <1>1, <1>2, <2>1 DEF FreedUpTo
<1>3. CASE ~b.aborted /\ (i \notin Direct \/ y \notin Sector)
  <2>1. v = Abort(b)
    BY <1>3 DEF VisitSub4, Visited
  <2> QED
    BY <1>1, <2>1, AbortKeeps DEF FreedUpTo
<1>4. CASE ~b.aborted /\ i \in Direct /\ y \in Sector
  <2>1. y \in H /\ Sized(h, MaxSize) /\ Shares(c, h, H)
    BY <1>4 DEF Shape
  <2>2. Sized(c[y], MaxSize) /\ c[y].numBytes <= Limit2 /\ IsLeaf(c[y])
    <3>1. Sized(c[y], MaxSize) /\ c[y].numBytes = SubSize(h.numBytes, i)
      BY <1>4, <2>1 DEF Shape, Shares
    <3>2. Share(h.numBytes) = Limit2 /\ h.numBytes \in 1 .. MaxSize /\ ~(h.numBytes <= Limit2)
      BY <2>1, VisitsAre DEF Sized, IsLeaf
    <3>3. c[y].numBytes <= Limit2
      BY <1>4, <3>1, <3>2, SubSizeFits
    <3> QED
      BY <3>1, <3>3 DEF IsLeaf
  <2>3. v = DeallocateBlocks(b, c[y])
    BY <1>1, <1>4, <2>2 DEF VisitSub4, Visited, SubHeader, Deallocate3, DeallocateOver
  <2>4. v \in World /\ v.content = c
    <3>1. Shape(b.content, H) /\ c[y] = b.content[y] /\ y \in H /\ b.content[y].numBytes <= Limit2
      BY <1>1, <2>1, <2>2
    <3>2. Unmarks(b, DeallocateBlocks(b, b.content[y]), Below1(b.content, {y}))
      BY <1>1, <3>1, BlocksUnmarked
    <3> QED
      BY <1>1, <2>3, <3>1, <3>2 DEF Unmarks
  <2>5. ASSUME ~v.aborted
        PROVE  /\ \A j \in 0 .. i : h.dataSectors[j] \in Sector
               /\ v.map = w.map \ UNION {DataOf(c, c[h.dataSectors[j]]) : j \in 0 .. i}
    <3>1. v.map = b.map \ DataOf(c, c[y])
      <4> DEFINE g == c[y]
      <4>1. Sized(g, MaxSize) /\ IsLeaf(g) /\ v = DeallocateBlocks(b, g) /\ b \in World
        BY <1>1, <2>2, <2>3
      <4> HIDE DEF g
      <4>2. v.map = b.map \ DataOf(b.content, g)
        BY <2>5, <4>1, BlocksFreed
      <4> QED
        BY <1>1, <4>2 DEF g
    <3>2. /\ \A j \in 0 .. i - 1 : h.dataSectors[j] \in Sector
          /\ b.map = w.map \ UNION {DataOf(c, c[h.dataSectors[j]]) : j \in 0 .. i - 1}
      BY <1>4 DEF FreedUpTo
    <3>3. \A j : j \in 0 .. i <=> j \in 0 .. i - 1 \/ j = i
      OBVIOUS
    <3> DEFINE U(m) == UNION {DataOf(c, c[h.dataSectors[j]]) : j \in m}
    <3>4. U(0 .. i) = U(0 .. i - 1) \cup DataOf(c, c[y])
      BY <3>3
    <3> QED
      BY <1>4, <3>1, <3>2, <3>3, <3>4
  <2>6. (i + 1) - 1 = i
    OBVIOUS
  <2> QED
    BY <2>4, <2>5, <2>6 DEF FreedUpTo
<1> QED
  BY <1>2, <1>3, <1>4

\* FileHeader::Deallocate gives back the blocks of its file and no other sector,
\* unless it is aborted.
LEMMA DeallocateFrees ==
  ASSUME NEW w \in World, ~w.aborted, NEW H, Shape(w.content, H), NEW x \in H,
         NEW h, h = w.content[x], NEW v, v = Deallocate(w, h), ~v.aborted
  PROVE  v.map = w.map \ DataOf(w.content, h)
<1> DEFINE c == w.content
           n == Visits(h)
           a == Visits4(w, h)
<1>0. Sized(h, MaxSize) /\ Shares(c, h, H) /\ x \in Sector
  BY DEF Shape
<1>1. CASE IsLeaf(h)
  <2>1. v = DeallocateBlocks(w, h)
    BY <1>1 DEF Deallocate, DeallocateOver, IsLeaf
  <2> QED
    BY <1>0, <1>1, <2>1, BlocksFreed
<1>2. ASSUME ~IsLeaf(h)
      PROVE  /\ v = a[n] /\ n \in Nat /\ a[0] = w
             /\ \A i \in 0 .. n - 1 : a[i + 1] = VisitSub4(a[i], h, i)
  <2>1. v = a[n] /\ n \in Nat
    BY <1>0, <1>2, VisitsAre DEF Deallocate, DeallocateOver, IsLeaf
  <2>2. n = DivRoundUp(h.numSectors, NumDirect)
    BY DEF Visits
  <2> HIDE DEF n
  <2> QED
    BY <2>1, <2>2, Visits4Are
<1> HIDE DEF a, n
<1>3. CASE ~IsLeaf(h) /\ h.numBytes <= Limit3
  <2> DEFINE Good == {i \in Nat : FreedUpTo(w, h, a[i], i)}
  <2>0. n = Children(h)
    BY <1>0, <1>3, VisitsAre DEF n
  <2>1. 0 \in Good
    <3>1. \A j : j \notin 0 .. 0 - 1
      OBVIOUS
    <3>2. w.map = w.map \ UNION {DataOf(c, c[h.dataSectors[j]]) : j \in 0 .. 0 - 1}
      BY <3>1
    <3> QED
      BY <1>2, <1>3, <3>1, <3>2 DEF FreedUpTo
  <2>2. ASSUME NEW i \in 0 .. n - 1, i \in Good PROVE i + 1 \in Good
    <3>1. a[i + 1] = VisitSub4(a[i], h, i) /\ FreedUpTo(w, h, a[i], i) /\ i \in Nat
      BY <1>2, <1>3, <2>2
    <3>2. FreedUpTo(w, h, a[i + 1], i + 1)
      BY <1>3, <3>1, VisitFrees
    <3> QED
      BY <3>1, <3>2
  <2>3. \A i \in 0 .. n : i \in Good
    <3>1. Good \in SUBSET Nat /\ n \in Nat
      BY <1>2, <1>3
    <3> HIDE DEF Good
    <3> QED
      BY <2>1, <2>2, <3>1, InductionUpTo
  <2>4. FreedUpTo(w, h, v, n)
    BY <1>2, <1>3, <2>3
  <2>5. /\ \A j \in 0 .. Children(h) - 1 : h.dataSectors[j] \in Sector
        /\ v.map = w.map \ UNION {DataOf(c, c[h.dataSectors[j]]) : j \in 0 .. Children(h) - 1}
    BY <2>0, <2>4 DEF FreedUpTo
  <2>6. DataOf(c, h) = UNION {DataOf(c, c[h.dataSectors[j]]) : j \in 0 .. Children(h) - 1}
    BY <1>3, <2>5, DataOfSubs
  <2> QED
    BY <2>5, <2>6
<1>4. CASE ~IsLeaf(h) /\ ~(h.numBytes <= Limit3)
  <2> DEFINE Good == {i \in Nat : a[i] \in World /\ a[i].content = c /\ (i > NumDirect => a[i].aborted)}
  <2>0. n > NumDirect
    <3>1. h.numBytes > Limit3
      BY <1>0, <1>4, Limits DEF Sized
    <3> QED
      BY <1>0, <1>4, <3>1, VisitsAre DEF n
  <2>1. 0 \in Good
    BY <1>2, <1>4, Limits
  <2>2. ASSUME NEW i \in 0 .. n - 1, i \in Good PROVE i + 1 \in Good
    <3>1. a[i + 1] = VisitSub4(a[i], h, i) /\ i \in Nat
      BY <1>2, <1>4, <2>2
    <3> DEFINE b == a[i]
               y == h.dataSectors[i]
    <3>2. i + 1 > NumDirect => b.aborted \/ i \notin Direct
      BY <3>1, Limits DEF Direct
    <3>3. b \in World /\ b.content = c
      BY <2>2
    <3> HIDE DEF b
    <3>4. CASE b.aborted
      <4>1. a[i + 1] = b
        BY <3>1, <3>4 DEF VisitSub4, Visited, b
      <4> QED
        BY <3>1, <3>3, <3>4, <4>1
    <3>5. CASE ~b.aborted /\ (i \notin Direct \/ y \notin Sector)
      <4>1. a[i + 1] = Abort(b)
        BY <3>1, <3>5 DEF VisitSub4, Visited, b
      <4> QED
        BY <3>1, <3>3, <4>1, AbortKeeps
    <3>6. CASE ~b.aborted /\ i \in Direct /\ y \in Sector
      <4>1. y \in H
        BY <1>4, <3>6 DEF Shape
      <4>2. c[y].numBytes <= Limit4
        <5>1. c[y].numBytes = SubSize(h.numBytes, i)
          BY <1>0, <3>6, <4>1 DEF Shares
        <5>2. h.numBytes \in 1 .. MaxSize /\ ~(h.numBytes <= Limit2)
          BY <1>0, <1>4 DEF Sized, IsLeaf
        <5>3. Share(h.numBytes) \in Nat /\ Share(h.numBytes) <= Limit4
          BY <5>2, SharesFit, Limits
        <5>4. c[y].numBytes \in Nat
          BY <4>1 DEF Shape, Sized, Header
        <5>5. SubSize(h.numBytes, i) <= Share(h.numBytes)
          BY <3>6, <5>2, SubSizeFits
        <5> QED
          BY <5>1, <5>3, <5>4, <5>5, Limits
      <4>3. a[i + 1] = Deallocate3(b, c[y])
        BY <3>1, <3>3, <3>6 DEF VisitSub4, Visited, SubHeader, b
      <4>4. Unmarks(b, Deallocate3(b, b.content[y]), Below3(b.content, {y}))
        <5>1. Shape(b.content, H) /\ b.content[y].numBytes <= Limit4
          BY <3>3, <4>2
        <5> QED
          BY <3>3, <4>1, <5>1, Level3Unmarks
      <4>5. a[i + 1] \in World /\ a[i + 1].content = c
        BY <3>3, <4>3, <4>4 DEF Unmarks
      <4> QED
        BY <3>1, <3>2, <3>6, <4>5
    <3> QED
      BY <3>4, <3>5, <3>6
  <2>3. \A i \in 0 .. n : i \in Good
    <3>1. Good \in SUBSET Nat /\ n \in Nat
      BY <1>2, <1>4
    <3> HIDE DEF Good
    <3> QED
      BY <2>1, <2>2, <3>1, InductionUpTo
  <2> QED
    BY <1>2, <1>4, <2>0, <2>3
<1> QED
  BY <1>1, <1>3, <1>4

-------------------------------------------------------------------------------
(* A file keeps its data where it is as long as its headers are kept *)

\* A header whose sub-headers are in N, with all theirs.
Held(c, h, N, new) ==
  /\ Sized(h, MaxSize) /\ Names(h, N, new) /\ Shares(c, h, N) /\ N \subseteq new
  /\ \A x \in N : Sized(c[x], MaxSize) /\ Names(c[x], N, new) /\ Shares(c, c[x], N)

\* Where ByteToSector can be: nowhere, or in a header of the file at one of its bytes.
Where(c, f, N, new) ==
  /\ f = [header |-> f.header, offset |-> f.offset, found |-> f.found]
  /\ f.found => f.offset \in 0 .. f.header.numBytes - 1 /\ Held(c, f.header, N, new)

\* A call of ByteToSector reads headers of the file only.
LEMMA DownSame ==
  ASSUME NEW c, NEW N, NEW new, NEW b, \A x \in N : b[x] = c[x],
         NEW f, Where(c, f, N, new)
  PROVE  Down(b, f) = Down(c, f) /\ Where(c, Down(c, f), N, new)
<1> DEFINE h == f.header
           o == f.offset
           S == Share(h.numBytes)
           i == o \div S
           s == h.dataSectors[i]
<1>1. CASE IsLeaf(h) \/ ~f.found
  <2>1. Down(b, f) = f /\ Down(c, f) = f
    BY <1>1, Arrived DEF IsLeaf
  <2> QED
    BY <2>1
<1>2. CASE ~IsLeaf(h) /\ f.found /\ s \notin Sector
  <2>1. \A x : Down(x, f) = [f EXCEPT !.found = FALSE]
    BY <1>2 DEF Down, Into, IsLeaf
  <2>2. Down(c, f) = [header |-> h, offset |-> o, found |-> FALSE]
    BY <2>1 DEF Where
  <2> QED
    BY <2>1, <2>2 DEF Where
<1>3. CASE ~IsLeaf(h) /\ f.found /\ s \in Sector
  <2>1. Held(c, h, N, new) /\ o \in 0 .. h.numBytes - 1
    BY <1>3 DEF Where
  <2>2. i \in Direct /\ o % S \in 0 .. SubSize(h.numBytes, i) - 1
    <3> HIDE DEF h, o
    <3> QED
      BY <1>3, <2>1, ShareOfByte DEF Held
  <2>3. s \in N /\ c[s].numBytes = SubSize(h.numBytes, i) /\ b[s] = c[s]
    <3>1. s \in N
      BY <1>3, <2>1, <2>2 DEF Held, Names
    <3> QED
      BY <2>1, <2>2, <3>1 DEF Held, Shares
  <2>4. f = Start(h, o)
    BY <1>3 DEF Start, Where
  <2>5. \A x : Down(x, f) = Start(x[s], o % S)
    <3> DEFINE r == o % S
    <3> SUFFICES ASSUME NEW x PROVE Down(x, f) = Start(x[s], r)
      OBVIOUS
    <3>1. Down(x, f) = [f EXCEPT !.header = x[s], !.offset = r]
      BY <1>3 DEF Down, Into, IsLeaf
    <3> HIDE DEF h, o, S, i, s, r
    <3> DEFINE y == x[s]
    <3>2. Down(x, f) = [f EXCEPT !.header = y, !.offset = r]
      BY <3>1
    <3> HIDE DEF y
    <3>3. Down(x, f) = Start(y, r)
      BY <2>4, <3>2 DEF Start
    <3> QED
      BY <3>3 DEF y
  <2>6. Held(c, c[s], N, new)
    BY <2>1, <2>3 DEF Held
  <2>7. Down(b, f) = Start(b[s], o % S) /\ Down(c, f) = Start(c[s], o % S)
    BY <2>5
  <2> HIDE DEF s, i, S, h, o
  <2>8. Where(c, Start(c[s], o % S), N, new)
    BY <2>2, <2>3, <2>6 DEF Where, Start
  <2> QED
    BY <2>3, <2>7, <2>8
<1> QED
  BY <1>1, <1>2, <1>3

\* The data of a file stays where it is.
LEMMA DataSame ==
  ASSUME NEW c, NEW N, NEW new, NEW b, \A x \in N : b[x] = c[x], NEW h, Held(c, h, N, new)
  PROVE  DataOf(b, h) = DataOf(c, h)
<1>1. ASSUME NEW o \in 0 .. h.numBytes - 1
      PROVE  ByteToSector(b, h, o) = ByteToSector(c, h, o)
  <2> DEFINE f == Start(h, o)
  <2>1. Where(c, f, N, new)
    BY DEF Where, Start
  <2> HIDE DEF f
  <2>2. PICK g : g = Down(c, f) /\ Down(b, f) = g /\ Where(c, g, N, new)
    BY <2>1, DownSame
  <2>3. PICK k : k = Down(c, g) /\ Down(b, g) = k /\ Where(c, k, N, new)
    BY <2>2, DownSame
  <2>4. Down(b, k) = Down(c, k)
    BY <2>3, DownSame
  <2>5. Located(b, h, o) = Located(c, h, o)
    BY <2>2, <2>3, <2>4, LocatedIs DEF f
  <2> QED
    BY <2>5 DEF ByteToSector
<1> QED
  BY <1>1 DEF DataOf

\* What Takes says of the headers, without what it says of other files.
LEMMA TakesHolds ==
  ASSUME NEW c, NEW h, NEW N, NEW new, Takes(c, h, N, new), Sized(h, MaxSize)
  PROVE  Held(c, h, N, new) /\ \A x \in N : Held(c, c[x], N, new)
BY DEF Takes, Held

\* The header of a file, put on the disk with the headers below it.
LEMMA HeaderStored ==
  ASSUME NEW c \in Content, NEW h, NEW N, NEW new, Takes(c, h, N, new), Sized(h, MaxSize),
         new \subseteq Sector, NEW x \in Sector, x \notin new, NEW b, b = Put(c, x, h)
  PROVE  /\ Shape(b, N \cup {x}) /\ b[x] = h /\ \A y \in N : b[y] = c[y]
         /\ DataOf(b, h) = DataOf(c, h)
         /\ \A y \in N : DataOf(b, c[y]) = DataOf(c, c[y])
<1>1. N \subseteq new /\ N \subseteq Sector /\ x \notin N
  BY DEF Takes
<1>2. b[x] = h /\ \A y \in N : b[y] = c[y]
  <2>1. h \in Stored
    BY DEF Sized, Stored
  <2> QED
    BY <1>1, <2>1, PutIs
<1>3. Held(c, h, N, new) /\ \A y \in N : Held(c, c[y], N, new)
  BY TakesHolds
<1>4. Shape(b, N \cup {x})
  <2>1. \A y \in N \cup {x}, i \in Direct : b[y].dataSectors[i] \in N \cup {x}
          => b[y].dataSectors[i] \in N
    <3> TAKE y \in N \cup {x}, i \in Direct
    <3>1. Names(b[y], N, new)
      BY <1>2, <1>3 DEF Held
    <3> QED
      BY <1>1, <3>1 DEF Names
  <2>2. \A y \in N \cup {x} : Sized(b[y], MaxSize) /\ Shares(b, b[y], N \cup {x})
    <3> TAKE y \in N \cup {x}
    <3>1. Held(c, b[y], N, new)
      BY <1>2, <1>3
    <3>2. Shares(c, b[y], N)
      BY <3>1 DEF Held
    <3> QED
      BY <1>2, <2>1, <3>1, <3>2 DEF Held, Shares
  <2>3. \A y \in N \cup {x}, i \in Direct :
          ~IsLeaf(b[y]) /\ b[y].dataSectors[i] \in Sector => b[y].dataSectors[i] \in N \cup {x}
    BY <1>2, <1>3 DEF Held, Names
  <2> QED
    BY <1>1, <2>2, <2>3 DEF Shape
<1>5. DataOf(b, h) = DataOf(c, h) /\ \A y \in N : DataOf(b, c[y]) = DataOf(c, c[y])
  BY <1>2, <1>3, DataSame
<1> QED
  BY <1>2, <1>4, <1>5

-------------------------------------------------------------------------------
(* A disk with room *)

\* As many values as places, when no value is at two of them.
LEMMA CountImage ==
  ASSUME NEW n \in Nat, NEW f, \A i, j \in 0 .. n - 1 : f[i] = f[j] => i = j,
         NEW T, T = {f[i] : i \in 0 .. n - 1}
  PROVE  IsFiniteSet(T) /\ Cardinality(T) = n
<1> DEFINE I == 0 .. n - 1
           g == [i \in I |-> f[i]]
<1>1. IsFiniteSet(I) /\ Cardinality(I) = n
  <2>1. n - 1 \in Int /\ (0 > n - 1 <=> n = 0) /\ (n - 1) - 0 + 1 = n
    OBVIOUS
  <2> QED
    BY <2>1, FS_Interval
<1> HIDE DEF I
<1>2. g \in [I -> T] /\ \A t \in T : \E i \in I : g[i] = t
  BY DEF I
<1>3. \A i, j \in I : g[i] = g[j] => i = j
  BY DEF I
<1>4. g \in Surjection(I, T) /\ g \in Injection(I, T)
  BY <1>2, <1>3 DEF Surjection, Injection, IsInjective
<1> QED
  BY <1>1, <1>4, FS_Surjection

\* Sectors that are taken are no longer free.
LEMMA LessClear ==
  ASSUME NEW w, w.map \subseteq Sector, NEW new \in SUBSET Sector, new \cap w.map = {},
         NEW v, v.map = w.map \cup new
  PROVE  NumClear(w) \in Nat /\ Cardinality(new) \in Nat /\ NumClear(v) = NumClear(w) - Cardinality(new)
<1> DEFINE F == Free(w)
<1>1. F \subseteq Sector /\ Free(v) = F \ new /\ F \cap new = new
  BY DEF Free
<1>2. IsFiniteSet(F) /\ Cardinality(F) \in Nat /\ Cardinality(new) \in Nat
  BY <1>1, SectorsAreFinite
<1> HIDE DEF F
<1>3. Cardinality(F \ new) = Cardinality(F) - Cardinality(F \cap new)
  BY <1>2, FS_Difference
<1> QED
  BY <1>1, <1>2, <1>3 DEF NumClear, F

\* Allocate has taken need sectors, with that of the header, and each block has
\* one of its own.
Filled(w, need, a) ==
  /\ ~a.w.aborted /\ Complete(a.w.content, a.header)
  /\ DataOf(a.w.content, a.header) \subseteq a.w.map \ w.map
  /\ NumClear(a.w) = NumClear(w) - (need - 1)

\* Without sub-headers, room for the blocks is enough (filehdr.cc:86).
LEMMA BlocksFill ==
  ASSUME NEW w \in World, ~w.aborted, NEW size \in 1 .. Limit2,
         NumClear(w) >= DivRoundUp(size, SectorSize),
         NEW a, a = AllocateBlocks(w, size)
  PROVE  a.ok /\ Filled(w, Needed1(size), a)
<1> DEFINE n == DivRoundUp(size, SectorSize)
           new == {FoundAfter(w, i) : i \in 0 .. n - 1}
           v == [w EXCEPT !.map = @ \cup new]
           d == [i \in Direct |-> IF i < n THEN FoundAfter(w, i) ELSE -1]
           h == [NewHeader(size) EXCEPT !.dataSectors = d]
<1>1. size \in Nat /\ size <= Limit2 /\ size \in 1 .. MaxSize /\ n \in 0 .. NumDirect /\ n \in Nat
  <2>1. size \in Nat /\ size <= Limit2 /\ size \in 1 .. MaxSize
    BY Limits DEF MaxSize
  <2>2. n \in 0 .. NumDirect
    BY <2>1, BlocksFit
  <2> QED
    BY <2>1, <2>2, Limits
<1>2. n <= NumClear(w)
  <2>1. NumClear(w) \in Nat
    BY SectorsAreFinite DEF NumClear, Free
  <2> QED
    BY <1>1, <2>1
<1>3. /\ \A i \in 0 .. n - 1 : FoundAfter(w, i) \in Sector \ w.map
      /\ \A i, j \in 0 .. n - 1 : FoundAfter(w, i) = FoundAfter(w, j) => i = j
  BY <1>1, <1>2, FoundAfterIs DEF Free
<1>4. a = [w |-> v, header |-> h, ok |-> TRUE]
  BY DEF AllocateBlocks, Enough
<1>5. a.w = v /\ a.header = h /\ a.ok
  BY <1>4
<1>6. v.map = w.map \cup new /\ v.aborted = w.aborted /\ v.content = w.content /\ w.map \subseteq Sector
  BY DEF World
<1> DEFINE g == [i \in 0 .. n - 1 |-> FoundAfter(w, i)]
<1>7. Cardinality(new) = n
  <2>1. \A i, j \in 0 .. n - 1 : g[i] = g[j] => i = j
    BY <1>3
  <2>2. new = {g[i] : i \in 0 .. n - 1}
    OBVIOUS
  <2> HIDE DEF g, n, new
  <2> QED
    BY <1>1, <2>1, <2>2, CountImage
<1>8. Sized(h, MaxSize) /\ IsLeaf(h) /\ h.numSectors = n /\ h.dataSectors = d
  <2>1. Allocated(w, size, a)
    BY BlocksAllocated
  <2>2. Sized(h, MaxSize) /\ h.numBytes = size
    BY <1>5, <2>1 DEF Allocated
  <2>3. h.dataSectors = d
    BY DEF NewHeader
  <2> HIDE DEF h, d, n
  <2> QED
    BY <1>1, <2>2, <2>3 DEF Sized, IsLeaf, n
<1>9. DataOf(v.content, h) = new
  <2>1. DataOf(v.content, h) = {d[i] : i \in 0 .. n - 1}
    <3> HIDE DEF h, d, n, v
    <3> QED
      BY <1>8, DataOfLeaf
  <2>2. \A i \in 0 .. n - 1 : i \in Direct /\ d[i] = FoundAfter(w, i)
    <3>1. \A i \in 0 .. n - 1 : i \in Direct /\ i < n
      <4> HIDE DEF n
      <4> QED
        BY <1>1, Limits DEF Direct
    <3> HIDE DEF n
    <3> QED
      BY <3>1
  <2> HIDE DEF d, n, h, v
  <2> QED
    BY <2>1, <2>2
<1> HIDE DEF n, h, v
<1>10. new \subseteq Sector /\ new \cap w.map = {}
  BY <1>3
<1> HIDE DEF new
<1>11. NumClear(v) = NumClear(w) - n
  BY <1>6, <1>7, <1>10, LessClear
<1>12. Complete(v.content, h)
  BY <1>7, <1>8, <1>9, <1>10 DEF Complete
<1>13. Needed1(size) - 1 = n
  BY <1>1 DEF Needed1, n
<1> QED
  BY <1>5, <1>6, <1>9, <1>10, <1>11, <1>12, <1>13 DEF Filled

\* The data of the first i sub-files of h.
DataUpTo(c, h, i) == UNION {DataOf(c, c[h.dataSectors[j]]) : j \in 0 .. i - 1}

\* After i turns of the loop over the sub-headers: need sectors are taken, and each
\* of the blocks so far has one of its own.
Filling(w, size, a, i, need, blocks) ==
  /\ AllocatedUpTo(w, size, a, i) /\ ~a.w.aborted
  /\ \A j \in 0 .. i - 1 : a.header.dataSectors[j] \in Sector
  /\ NumClear(a.w) = NumClear(w) - need
  /\ DataUpTo(a.w.content, a.header, i) \subseteq a.w.map \ w.map
  /\ Cardinality(DataUpTo(a.w.content, a.header, i)) = blocks

\* A turn with enough free sectors takes one for the sub-header and those of the
\* sub-file, and none of those before (filehdr.cc:91).
LEMMA TurnFills ==
  ASSUME NEW w \in World, NEW size \in 1 .. MaxSize, ~(size <= Limit2), NEW i \in Direct,
         NEW a, NEW need \in Int, NEW blocks \in Nat, Filling(w, size, a, i, need, blocks),
         NEW s, s = FindAndSet(a.w), NEW m \in 1 .. Share(size), m = SubSize(size, i),
         NEW more \in Nat \ {0}, NumClear(a.w) >= more,
         NEW sub, Allocated(Marked(a.w, s), m, sub), Filled(Marked(a.w, s), more, sub),
         NEW v, v = Turned(a, i, s, sub)
  PROVE  Filling(w, size, v, i + 1, need + more, blocks + DivRoundUp(m, SectorSize))
<1> DEFINE b == a.w
           u == Marked(b, s)
           x == sub.w
           g == sub.header
           y == WriteSector(x, s, g)
           h == a.header
           f == WithSub(h, i, s)
<1>1. /\ OnlyMarks(w, b) /\ b \in World /\ ~b.aborted /\ Sized(h, MaxSize) /\ h.numBytes = size
      /\ h \in Header
  BY DEF Filling, AllocatedUpTo, Allocated, OnlyMarks, Sized
<1>2. s \in Sector /\ s \notin b.map
  <2>1. s = FindAndSet(b)
    OBVIOUS
  <2> HIDE DEF b
  <2>2. Free(b) # {}
    BY FS_EmptySet DEF NumClear, b
  <2>3. FindAndSet(b) \in Free(b) \/ FindAndSet(b) = -1
    BY FoundIsFree
  <2>4. FindAndSet(b) # -1
    <3>1. \A t \in Free(b) : t \in Nat
      BY Limits DEF Free, Sector
    <3>2. FindAndSet(b) = CHOOSE t \in Free(b) : \A r \in Free(b) : t <= r
      BY <2>2 DEF FindAndSet
    <3>3. \E t \in Free(b) : \A r \in Free(b) : t <= r
      BY <2>2, <3>1, LeastExists
    <3> QED
      BY <3>1, <3>2, <3>3
  <2> QED
    BY <2>1, <2>3, <2>4 DEF Free
<1>3. /\ u \in World /\ u.content = b.content /\ u.map = b.map \cup {s} /\ u.aborted = b.aborted
  BY <1>1, <1>2, MarkedIs
<1>4. /\ OnlyMarks(u, x) /\ x \in World /\ ~x.aborted /\ g \in Stored /\ Sized(g, MaxSize)
      /\ g.numBytes = m
  BY DEF Allocated, OnlyMarks, Stored, Sized, Filled
<1>5. y \in World /\ ~y.aborted /\ y.map = x.map /\ y.content = Put(x.content, s, g)
  BY <1>2, <1>4, WriteSectorIs
<1>6. v.w = y /\ v.header = f
  BY <1>1 DEF Turned, WithSub
<1>7. /\ f.dataSectors[i] = s /\ \A j \in Direct : j # i => f.dataSectors[j] = h.dataSectors[j]
  <2>1. s \in Int
    BY <1>2, Limits DEF Sector
  <2>2. h \in Header /\ f = WithSub(h, i, s)
    BY <1>1
  <2> HIDE DEF h, f
  <2> QED
    BY ONLY i \in Direct, <2>1, <2>2, WithSubIs
<1>8. AllocatedUpTo(w, size, v, i + 1)
  <2>1. AllocatedUpTo(w, size, a, i) /\ ~a.w.aborted
    BY DEF Filling
  <2>2. AllocatedUpTo(w, size, Turned(a, i, s, sub), i + 1)
    BY <2>1, TurnAllocates
  <2> QED
    BY <2>2
<1> HIDE DEF b, u, x, g, y, h, f
<1>9. NumClear(y) = NumClear(w) - (need + more)
  <2>1. NumClear(b) = NumClear(w) - need
    BY DEF Filling, b
  <2>2. NumClear(u) = NumClear(b) - 1
    <3>1. {s} \subseteq Sector /\ {s} \cap b.map = {} /\ b.map \subseteq Sector
      BY <1>1, <1>2 DEF World
    <3>2. Cardinality({s}) = 1
      BY FS_Singleton
    <3> QED
      BY <1>3, <3>1, <3>2, LessClear
  <2>3. NumClear(x) = NumClear(u) - (more - 1)
    BY DEF Filled, x, u, b
  <2>4. NumClear(y) = NumClear(x)
    BY <1>5 DEF NumClear, Free
  <2>5. NumClear(w) \in Int
    BY SectorsAreFinite DEF NumClear, Free
  <2> QED
    BY <2>1, <2>2, <2>3, <2>4, <2>5
<1>10. PICK N1 : Takes(b.content, h, N1, b.map \ w.map)
  BY DEF Filling, AllocatedUpTo, Allocated, b, h
<1>11. PICK N2 : Takes(x.content, g, N2, x.map \ u.map)
  BY <1>4 DEF Allocated, x, g, u, b
<1>12. y.content[s] = g /\ \A t \in Sector : t # s => y.content[t] = x.content[t]
  BY <1>2, <1>4, <1>5, PutIs DEF World
<1>13. \A t \in N1 : y.content[t] = b.content[t]
  <2>1. N1 \subseteq b.map \ w.map /\ b.map \subseteq Sector
    BY <1>1, <1>10 DEF Takes, World
  <2>2. \A t \in b.map : x.content[t] = b.content[t]
    BY <1>1, <1>3, <1>4 DEF OnlyMarks, World
  <2> QED
    BY <1>2, <1>12, <2>1, <2>2
<1>14. \A t \in N2 : y.content[t] = x.content[t]
  <2>1. N2 \subseteq x.map \ u.map /\ x.map \subseteq Sector
    BY <1>4, <1>11 DEF Takes, World
  <2> QED
    BY <1>3, <1>12, <2>1
<1>15. ASSUME NEW j \in 0 .. i - 1
       PROVE  /\ j \in Direct /\ j # i /\ h.dataSectors[j] \in Sector
              /\ DataOf(y.content, y.content[f.dataSectors[j]]) = DataOf(b.content, b.content[h.dataSectors[j]])
  <2>1. j \in Direct /\ j # i
    BY Limits DEF Direct
  <2> DEFINE t == h.dataSectors[j]
  <2>2. t \in Sector
    BY DEF Filling, h
  <2>3. t \in N1
    <3>1. ~IsLeaf(h) /\ Names(h, N1, b.map \ w.map)
      BY <1>1, <1>10 DEF IsLeaf, Takes
    <3> QED
      BY <2>1, <2>2, <3>1 DEF Names
  <2>4. Held(b.content, b.content[t], N1, b.map \ w.map)
    BY <1>1, <1>10, <2>3, TakesHolds
  <2> HIDE DEF t
  <2>5. DataOf(y.content, b.content[t]) = DataOf(b.content, b.content[t])
    BY <1>13, <2>4, DataSame
  <2> QED
    BY <1>7, <1>13, <2>1, <2>2, <2>3, <2>5 DEF t
<1>16. DataOf(y.content, g) = DataOf(x.content, g)
  <2>1. Held(x.content, g, N2, x.map \ u.map)
    BY <1>4, <1>11, TakesHolds
  <2> QED
    BY <1>14, <2>1, DataSame
<1> DEFINE old == DataUpTo(b.content, h, i)
           new == DataOf(x.content, g)
           all == DataUpTo(y.content, f, i + 1)
<1>17. i \in Nat /\ i \in 0 .. (i + 1) - 1 /\ \A j \in 0 .. (i + 1) - 1 : j = i \/ j \in 0 .. i - 1
  BY Limits DEF Direct
<1>18. all = old \cup new
  <2>1. DataOf(y.content, y.content[f.dataSectors[i]]) = new
    BY <1>7, <1>12, <1>16
  <2>2. \A j \in 0 .. i - 1 : j \in 0 .. (i + 1) - 1
    BY <1>17
  <2> HIDE DEF new
  <2> QED
    BY <1>15, <1>17, <2>1, <2>2 DEF DataUpTo
<1>19. old \subseteq b.map \ w.map /\ Cardinality(old) = blocks
  BY DEF Filling, b, h
<1>20. new \subseteq x.map \ u.map /\ Cardinality(new) = DivRoundUp(m, SectorSize)
  <2>1. new \subseteq x.map \ u.map /\ Cardinality(new) = g.numSectors
    BY DEF Filled, Complete, x, g, u, b
  <2> QED
    BY <1>4, <2>1 DEF Sized
<1> HIDE DEF old, new, all
<1>21. w.map \subseteq b.map /\ b.map \subseteq u.map /\ u.map \subseteq y.map /\ y.map \subseteq Sector
  BY <1>1, <1>3, <1>4, <1>5 DEF OnlyMarks, World
<1>22. all \subseteq y.map \ w.map
  BY <1>5, <1>18, <1>19, <1>20, <1>21
<1>23. Cardinality(all) = blocks + DivRoundUp(m, SectorSize)
  <2>1. old \subseteq Sector /\ new \subseteq Sector /\ old \cap new = {}
    BY <1>5, <1>19, <1>20, <1>21
  <2>2. IsFiniteSet(old) /\ IsFiniteSet(new) /\ Cardinality(new) \in Nat
    BY <2>1, SectorsAreFinite
  <2>3. Cardinality(all) = Cardinality(old) + Cardinality(new) - Cardinality({})
    BY <1>18, <2>1, <2>2, FS_Union
  <2> QED
    BY <1>19, <1>20, <2>2, <2>3, FS_EmptySet
<1>24. \A j \in 0 .. (i + 1) - 1 : f.dataSectors[j] \in Sector
  BY <1>2, <1>7, <1>15, <1>17
<1> QED
  BY <1>5, <1>6, <1>8, <1>9, <1>22, <1>23, <1>24 DEF Filling, all

\* A file of sub-files: all but the last are whole shares, and the last is the rest.
LEMMA LastShare ==
  ASSUME NEW size \in 1 .. MaxSize, ~(size <= Limit2), NEW S, S = Share(size),
         NEW n, n = SubHeaders(size), NEW m, m = SubSize(size, n - 1)
  PROVE  /\ n \in 1 .. NumDirect /\ S \in Nat \ {0} /\ m \in 1 .. S
         /\ size = ((n - 1) * S) + m
         /\ \A i \in 0 .. n - 2 : SubSize(size, i) = S
         /\ m = S => size \div S = n /\ size % S = 0
         /\ m # S => size \div S = n - 1 /\ size % S = m
<1>1. S \in Nat \ {0} /\ n \in 1 .. NumDirect /\ n = DivRoundUp(size, S)
  BY SharesFit DEF SubHeaders
<1>2. n \in Nat /\ n - 1 \in Nat /\ n - 1 < n /\ size \in Nat /\ NumDirect \in Nat
  BY <1>1, Limits DEF MaxSize
<1> DEFINE z == (n - 1) * S
<1>3. z \in Nat /\ n * S = z + S
  BY <1>1, <1>2, TimesType
<1>4. size <= n * S /\ size - z \in Nat \ {0}
  BY <1>1, <1>2, RoundedUp
<1>5. m = size - z
  <2>1. m = IF size - z > S THEN S ELSE size - z
    BY DEF SubSize
  <2> HIDE DEF z
  <2> QED
    BY <1>1, <1>2, <1>3, <1>4, <2>1
<1>6. m \in 1 .. S /\ size = z + m
  <2> HIDE DEF z
  <2> QED
    BY <1>1, <1>2, <1>3, <1>4, <1>5
<1>7. ASSUME NEW i \in 0 .. n - 2 PROVE SubSize(size, i) = S
  <2>1. i \in Nat /\ i < n - 1
    BY <1>2
  <2>2. (i * S) + S <= z /\ i * S \in Nat
    BY <1>1, <1>2, <2>1, TimesNext, TimesType
  <2>3. SubSize(size, i) = IF size - i * S > S THEN S ELSE size - i * S
    BY DEF SubSize
  <2> DEFINE y == i * S
  <2>4. y + S <= z /\ y \in Nat /\ SubSize(size, i) = IF size - y > S THEN S ELSE size - y
    BY <2>2, <2>3
  <2> HIDE DEF y, z
  <2> QED
    BY <1>1, <1>3, <1>6, <2>4
<1>8. m = S => size \div S = n /\ size % S = 0
  <2> SUFFICES ASSUME m = S PROVE size \div S = n /\ size % S = 0
    OBVIOUS
  <2>1. size = (n * S) + 0 /\ 0 \in 0 .. S - 1
    BY <1>1, <1>3, <1>6
  <2>2. ((n * S) + 0) \div S = n /\ ((n * S) + 0) % S = 0
    BY <1>1, <1>2, <2>1, DivUnique
  <2> QED
    BY <2>1, <2>2
<1>9. m # S => size \div S = n - 1 /\ size % S = m
  <2> SUFFICES ASSUME m # S PROVE size \div S = n - 1 /\ size % S = m
    OBVIOUS
  <2>1. size = ((n - 1) * S) + m /\ m \in 0 .. S - 1
    BY <1>1, <1>6
  <2> DEFINE k == n - 1
  <2>2. k \in Nat
    BY <1>2
  <2> HIDE DEF k
  <2>3. ((k * S) + m) \div S = k /\ ((k * S) + m) % S = m
    BY <1>1, <2>1, <2>2, DivUnique
  <2> QED
    BY <2>1, <2>3 DEF k
<1> QED
  BY <1>1, <1>6, <1>7, <1>8, <1>9

\* The sectors of such a file are those of its sub-files, and one more.
LEMMA NeedIs ==
  ASSUME NEW size \in 1 .. MaxSize, ~(size <= Limit2), NEW S, S = Share(size),
         NEW n, n = SubHeaders(size), NEW m, m = SubSize(size, n - 1),
         NEW whole \in Nat, NEW rest \in Nat,
         NEW last, last = IF m = S THEN whole ELSE rest
  PROVE  NeededOver(whole, rest, size) = 1 + ((n - 1) * whole) + last
<1>1. /\ n \in 1 .. NumDirect /\ S \in Nat \ {0} /\ m \in 1 .. S
      /\ m = S => size \div S = n /\ size % S = 0
      /\ m # S => size \div S = n - 1 /\ size % S = m
  BY LastShare
<1>2. n \in Nat /\ n - 1 \in Nat
  BY <1>1, Limits
<1> DEFINE d == size \div S
           r == size % S
<1>3. NeededOver(whole, rest, size) = 1 + (d * whole) + (IF r = 0 THEN 0 ELSE rest)
  BY DEF NeededOver
<1>4. CASE m = S
  <2>1. NeededOver(whole, rest, size) = 1 + (n * whole) + 0
    <3> HIDE DEF d, r
    <3> QED
      BY <1>1, <1>3, <1>4 DEF d, r
  <2>2. n * whole = ((n - 1) * whole) + whole /\ (n - 1) * whole \in Nat
    BY <1>2, TimesType
  <2> QED
    BY <1>4, <2>1, <2>2
<1>5. CASE m # S
  <2>1. d = n - 1 /\ r # 0
    BY <1>1, <1>5
  <2> HIDE DEF d, r
  <2> QED
    BY <1>3, <1>5, <2>1
<1> QED
  BY <1>4, <1>5

\* Its blocks are those of its sub-files.
LEMMA BlocksAdd ==
  ASSUME NEW k \in Nat, NEW S, NEW q \in Nat, S = q * SectorSize, NEW m \in Nat
  PROVE  DivRoundUp((k * S) + m, SectorSize) = (k * q) + DivRoundUp(m, SectorSize)
<1> DEFINE f == k * q
           x == m + SectorSize - 1
<1>1. f \in Nat /\ x \in Nat /\ SectorSize \in Nat \ {0}
  BY TimesType, Limits
<1>2. k * S = f * SectorSize
  BY <1>1, Z3
<1>3. f * SectorSize \in Nat
  BY <1>1, TimesType
<1>4. ((k * S) + m) + SectorSize - 1 = (f * SectorSize) + x
  <2> DEFINE y == f * SectorSize
  <2>1. y \in Nat /\ k * S = y
    BY <1>2, <1>3
  <2> HIDE DEF y
  <2>2. ((k * S) + m) + SectorSize - 1 = y + (m + SectorSize - 1)
    BY <1>1, <2>1
  <2> QED
    BY <2>2 DEF y
<1>5. ((f * SectorSize) + x) \div SectorSize = f + (x \div SectorSize)
  <2> HIDE DEF f, x
  <2> QED
    BY <1>1, SectorsApart
<1>6. DivRoundUp((k * S) + m, SectorSize) = (((k * S) + m) + SectorSize - 1) \div SectorSize
  BY DEF DivRoundUp
<1>7. DivRoundUp(m, SectorSize) = x \div SectorSize
  BY DEF DivRoundUp
<1> HIDE DEF f, x
<1> QED
  BY <1>4, <1>5, <1>6, <1>7 DEF f

\* A whole number of sectors is divided without rounding.
LEMMA WholeShare ==
  ASSUME NEW q \in Nat
  PROVE  DivRoundUp(q * SectorSize, SectorSize) = q
<1>1. DivRoundUp((1 * (q * SectorSize)) + 0, SectorSize) = (1 * q) + DivRoundUp(0, SectorSize)
  <2> DEFINE S == q * SectorSize
  <2>1. S = q * SectorSize
    OBVIOUS
  <2> HIDE DEF S
  <2>2. DivRoundUp((1 * S) + 0, SectorSize) = (1 * q) + DivRoundUp(0, SectorSize)
    BY <2>1, BlocksAdd
  <2> QED
    BY <2>2 DEF S
<1>2. DivRoundUp(0, SectorSize) = 0
  <2>1. 0 * SectorSize = 0 /\ SectorSize \in Nat \ {0}
    BY Limits
  <2>2. DivRoundUp(0, SectorSize) \in Nat /\ DivRoundUp(0, SectorSize) <= 0
    BY <2>1, RoundedUp
  <2> QED
    BY <2>2
<1>3. q * SectorSize \in Nat
  BY Limits, TimesType
<1> DEFINE S == q * SectorSize
<1>4. (1 * S) + 0 = S
  <2>1. S \in Nat
    BY <1>3
  <2> HIDE DEF S
  <2> QED
    BY <2>1
<1> QED
  BY <1>1, <1>2, <1>4

\* Before the first sub-header.
LEMMA FirstFills ==
  ASSUME NEW w \in World, ~w.aborted, NEW size \in 1 .. MaxSize
  PROVE  Filling(w, size, FirstTurn(w, size), 0, 0, 0)
<1> DEFINE a == FirstTurn(w, size)
<1>1. AllocatedUpTo(w, size, a, 0)
  BY NothingTaken DEF FirstTurn
<1>2. a.w = w
  BY DEF FirstTurn
<1>3. DataUpTo(a.w.content, a.header, 0) = {}
  BY DEF DataUpTo
<1>4. NumClear(w) \in Nat
  BY SectorsAreFinite DEF NumClear, Free
<1> HIDE DEF a
<1>5. NumClear(a.w) = NumClear(w) - 0 /\ ~a.w.aborted
  BY <1>2, <1>4
<1> DEFINE all == DataUpTo(a.w.content, a.header, 0)
<1>6. all \subseteq a.w.map \ w.map /\ Cardinality(all) = 0
  <2>1. all = {}
    BY <1>3
  <2> HIDE DEF all
  <2> QED
    BY <2>1, FS_EmptySet
<1>7. \A j \in 0 .. 0 - 1 : a.header.dataSectors[j] \in Sector
  OBVIOUS
<1>8. Filling(w, size, a, 0, 0, 0)
  BY <1>1, <1>5, <1>6, <1>7 DEF Filling
<1> QED
  BY <1>8 DEF a

\* The turns of the loop: sub[i] is what Allocate made of the sub-header of turn i,
\* which needs whole sectors for a whole share, and last for the rest.
Looped(w, size, n, turns, sub, whole, last) ==
  /\ turns[0] = FirstTurn(w, size)
  /\ \A i \in 0 .. n - 1 :
       LET u == turns[i].w
           need == IF i = n - 1 THEN last ELSE whole
       IN  /\ turns[i + 1] = Turned(turns[i], i, FindAndSet(u), sub[i])
           /\ u \in World /\ ~u.aborted =>
                Allocated(ForHeader(u), SubSize(size, i), sub[i])
           /\ u \in World /\ ~u.aborted /\ NumClear(u) >= need =>
                Filled(ForHeader(u), need, sub[i])

\* One turn of the loop.
LEMMA LoopTurnFills ==
  ASSUME NEW w \in World, NEW size \in 1 .. MaxSize, ~(size <= Limit2), NEW n \in Nat,
         NEW turns, NEW sub, NEW whole, NEW last, Looped(w, size, n, turns, sub, whole, last),
         NEW i \in Direct, i \in 0 .. n - 1,
         NEW more \in Nat \ {0}, more = IF i = n - 1 THEN last ELSE whole,
         NEW m \in 1 .. Share(size), m = SubSize(size, i), NEW need \in Int, NEW blocks \in Nat,
         Filling(w, size, turns[i], i, need, blocks), NumClear(w) - need >= more
  PROVE  Filling(w, size, turns[i + 1], i + 1, need + more, blocks + DivRoundUp(m, SectorSize))
<1> DEFINE u == turns[i].w
           s == FindAndSet(u)
           v == Marked(u, s)
<1>1. u \in World /\ ~u.aborted /\ NumClear(u) >= more /\ u.map \subseteq Sector
  BY DEF Filling, AllocatedUpTo, Allocated, OnlyMarks, World
<1>2. ForHeader(u) = v
  BY DEF ForHeader
<1>3. /\ turns[i + 1] = Turned(turns[i], i, s, sub[i])
      /\ Allocated(v, m, sub[i]) /\ Filled(v, more, sub[i])
  BY <1>1, <1>2 DEF Looped
<1> HIDE DEF u, s, v
<1> DEFINE a == turns[i]
           g == sub[i]
           z == turns[i + 1]
<1>4. z = Turned(a, i, s, g) /\ Allocated(Marked(a.w, s), m, g) /\ Filled(Marked(a.w, s), more, g)
      /\ s = FindAndSet(a.w) /\ NumClear(a.w) >= more /\ Filling(w, size, a, i, need, blocks)
  BY <1>1, <1>3 DEF u, s, v
<1> HIDE DEF a, g, z
<1>5. Filling(w, size, z, i + 1, need + more, blocks + DivRoundUp(m, SectorSize))
  BY <1>4, TurnFills
<1> QED
  BY <1>5 DEF z

\* The whole loop, on a disk with room for what it takes.
LEMMA LoopFills ==
  ASSUME NEW w \in World, ~w.aborted, NEW size \in 1 .. MaxSize, ~(size <= Limit2),
         NEW n, n = SubHeaders(size), NEW whole \in Nat \ {0}, NEW last \in Nat \ {0},
         NEW turns, NEW sub, Looped(w, size, n, turns, sub, whole, last),
         NumClear(w) >= ((n - 1) * whole) + last
  PROVE  Filling(w, size, turns[n], n, ((n - 1) * whole) + last, DivRoundUp(size, SectorSize))
<1> DEFINE S == Share(size)
           m == SubSize(size, n - 1)
           k == n - 1
<1>1. /\ n \in 1 .. NumDirect /\ S \in Nat \ {0} /\ m \in 1 .. S
      /\ size = (k * S) + m
      /\ \A i \in 0 .. n - 2 : SubSize(size, i) = S
  BY LastShare
<1>2. n \in Nat /\ k \in Nat /\ \A i \in 0 .. n - 1 : i \in Direct
  BY <1>1, Limits DEF Direct
<1>3. PICK q \in Nat \ {0} : S = q * SectorSize
  BY ShareInSectors
<1> DEFINE A == {i \in Nat : Filling(w, size, turns[i], i, i * whole, i * q)}
<1>4. 0 \in A
  <2>1. turns[0] = FirstTurn(w, size)
    BY DEF Looped
  <2>2. 0 * whole = 0 /\ 0 * q = 0
    OBVIOUS
  <2>3. Filling(w, size, turns[0], 0, 0, 0)
    BY <2>1, FirstFills
  <2> QED
    BY <2>2, <2>3
<1>5. NumClear(w) \in Nat
  BY SectorsAreFinite DEF NumClear, Free
<1> HIDE DEF m, S, k
<1>6. ASSUME NEW i \in 0 .. k - 1, i \in A PROVE i + 1 \in A
  <2>1. i \in Nat /\ i \in 0 .. n - 1 /\ i # n - 1 /\ i \in 0 .. n - 2 /\ i < k
    BY <1>2 DEF k
  <2> DEFINE need == i * whole
             blocks == i * q
  <2>2. need \in Nat /\ blocks \in Nat /\ Filling(w, size, turns[i], i, need, blocks)
    BY <1>3, <1>6, <2>1, TimesType
  <2>3. NumClear(w) - need >= whole
    <3>1. need + whole <= k * whole /\ k * whole \in Nat
      BY <1>2, <2>1, TimesNext, TimesType
    <3>2. NumClear(w) >= (k * whole) + last
      BY DEF k
    <3> DEFINE y == k * whole
    <3>3. need + whole <= y /\ y \in Nat /\ NumClear(w) >= y + last
      BY <3>1, <3>2
    <3> HIDE DEF need, y
    <3> QED
      BY <1>5, <2>2, <3>3
  <2>4. S \in 1 .. Share(size) /\ S = SubSize(size, i)
    BY <1>1, <2>1 DEF S
  <2>5. whole = IF i = n - 1 THEN last ELSE whole
    BY <2>1
  <2>6. (i + 1) * whole = need + whole /\ (i + 1) * q = blocks + q
    BY <1>3, <2>1
  <2>7. DivRoundUp(S, SectorSize) = q
    BY <1>3, WholeShare
  <2> HIDE DEF need, blocks
  <2>8. i \in Direct
    BY <1>2, <2>1
  <2>9. Filling(w, size, turns[i + 1], i + 1, need + whole, blocks + DivRoundUp(S, SectorSize))
    BY <1>2, <2>1, <2>2, <2>3, <2>4, <2>5, <2>8, LoopTurnFills
  <2> QED
    BY <2>1, <2>6, <2>7, <2>9
<1>7. Filling(w, size, turns[k], k, k * whole, k * q)
  <2>1. k \in A
    <3> HIDE DEF A
    <3>1. A \in SUBSET Nat
      BY DEF A
    <3> QED
      BY <1>2, <1>4, <1>6, <3>1, InductionUpTo
  <2> QED
    BY <2>1
<1> HIDE DEF A
<1> DEFINE need == k * whole
           blocks == k * q
<1>8. need \in Nat /\ blocks \in Nat /\ k \in 0 .. n - 1 /\ k \in Direct /\ k + 1 = n
  BY <1>1, <1>2, <1>3, TimesType DEF k
<1>9. NumClear(w) - need >= last
  <2>1. NumClear(w) >= (k * whole) + last
    BY DEF k
  <2>2. NumClear(w) >= need + last
    BY <2>1
  <2> HIDE DEF need
  <2> QED
    BY <1>5, <1>8, <2>2
<1>10. m \in 1 .. Share(size) /\ m = SubSize(size, k) /\ last = IF k = n - 1 THEN last ELSE whole
  BY <1>1 DEF m, S, k
<1>11. Filling(w, size, turns[k], k, need, blocks)
  BY <1>7
<1>12. DivRoundUp(size, SectorSize) = blocks + DivRoundUp(m, SectorSize)
  <2>1. m \in Nat
    BY <1>1
  <2>2. DivRoundUp((k * S) + m, SectorSize) = (k * q) + DivRoundUp(m, SectorSize)
    BY <1>2, <1>3, <2>1, BlocksAdd
  <2> QED
    BY <1>1, <2>2
<1> HIDE DEF need, blocks
<1>13. Filling(w, size, turns[k + 1], k + 1, need + last, blocks + DivRoundUp(m, SectorSize))
  BY <1>2, <1>8, <1>9, <1>10, <1>11, LoopTurnFills
<1> QED
  BY <1>8, <1>12, <1>13 DEF need, k

\* With a free sector, the disk on which a sub-header's Allocate works.
LEMMA ForHeaderIs ==
  ASSUME NEW u \in World, ~u.aborted, NEW need \in Nat \ {0}, NumClear(u) >= need
  PROVE  /\ ForHeader(u) \in World /\ ~ForHeader(u).aborted /\ ForHeader(u).map # {}
         /\ NumClear(ForHeader(u)) >= need - 1
<1> DEFINE s == FindAndSet(u)
           v == ForHeader(u)
<1>1. s \in Sector /\ s \notin u.map
  <2>1. Free(u) # {}
    <3>1. NumClear(u) # 0
      <4>1. NumClear(u) \in Nat
        BY SectorsAreFinite DEF NumClear, Free
      <4> QED
        BY <4>1
    <3>2. Free(u) = {} => NumClear(u) = 0
      BY FS_EmptySet DEF NumClear
    <3> QED
      BY <3>1, <3>2
  <2>2. s \in Free(u) \/ s = -1
    BY FoundIsFree
  <2>3. s # -1
    <3>1. \A t \in Free(u) : t \in Nat
      BY Limits DEF Free, Sector
    <3>2. s = CHOOSE t \in Free(u) : \A r \in Free(u) : t <= r
      BY <2>1 DEF FindAndSet
    <3>3. \E t \in Free(u) : \A r \in Free(u) : t <= r
      BY <2>1, <3>1, LeastExists
    <3> QED
      BY <3>1, <3>2, <3>3
  <2> QED
    BY <2>2, <2>3 DEF Free
<1>2. v = Marked(u, s)
  BY DEF ForHeader
<1> HIDE DEF s, v
<1>3. v \in World /\ v.aborted = u.aborted /\ v.map = u.map \cup {s}
  BY <1>1, <1>2, MarkedIs
<1>4. NumClear(v) = NumClear(u) - 1 /\ NumClear(u) \in Nat
  <2>1. {s} \subseteq Sector /\ {s} \cap u.map = {} /\ u.map \subseteq Sector
    BY <1>1 DEF World
  <2>2. Cardinality({s}) = 1
    BY FS_Singleton
  <2> QED
    BY <1>3, <2>1, <2>2, LessClear
<1>5. NumClear(v) >= need - 1
  BY <1>4
<1> QED
  BY <1>3, <1>5 DEF v

\* When the loop is done, the header is that of a file with all its blocks, and
\* there was room for them.
LEMMA LoopIsFilled ==
  ASSUME NEW w \in World, w.map # {}, NEW size \in 1 .. MaxSize, ~(size <= Limit2),
         NEW n, n = SubHeaders(size), NEW need \in Nat, NEW a,
         Filling(w, size, a, n, need, DivRoundUp(size, SectorSize))
  PROVE  Filled(w, 1 + need, a) /\ Enough(w, size)
<1> DEFINE b == a.w
           c == b.content
           h == a.header
           new == b.map \ w.map
           total == DivRoundUp(size, SectorSize)
           all == DataUpTo(c, h, n)
<1>1. /\ OnlyMarks(w, b) /\ b \in World /\ ~b.aborted /\ Sized(h, MaxSize) /\ h.numBytes = size
      /\ c \in Content /\ new \subseteq Sector
      /\ \A j \in 0 .. n - 1 : h.dataSectors[j] \in Sector
  BY DEF Filling, AllocatedUpTo, Allocated, OnlyMarks, World
<1>2. PICK N : Takes(c, h, N, new)
  BY DEF Filling, AllocatedUpTo, Allocated
<1>3. PICK x \in Sector : x \in w.map
  BY DEF World
<1>4. ~IsLeaf(h) /\ Children(h) = n /\ n \in Nat /\ \A j \in 0 .. n - 1 : j \in Direct
  <2>1. size \in Nat /\ n \in 1 .. NumDirect /\ n = DivRoundUp(size, Share(size))
    BY Limits, SharesFit DEF SubHeaders, MaxSize
  <2>2. ~IsLeaf(h) /\ Children(h) = n
    BY <1>1, <2>1, Limits DEF IsLeaf, Children
  <2>3. NumDirect \in Nat
    BY Limits
  <2> QED
    BY <2>1, <2>2, <2>3 DEF Direct
<1>5. total \in Nat /\ h.numSectors = total /\ all \subseteq new /\ Cardinality(all) = total
      /\ NumClear(b) = NumClear(w) - need
  <2>1. size \in Nat
    BY Limits DEF MaxSize
  <2>2. total \in Nat
    BY <2>1, RoundedUp, Limits
  <2> QED
    BY <1>1, <2>2 DEF Filling, Sized
<1> HIDE DEF b, c, h, new, total
<1>6. DataOf(c, h) = all
  <2> DEFINE d == Put(c, x, h)
             H == N \cup {x}
  <2>1. x \notin new
    BY <1>3 DEF new
  <2>2. /\ Shape(d, H) /\ d[x] = h /\ \A y \in N : d[y] = c[y]
        /\ DataOf(d, h) = DataOf(c, h) /\ \A y \in N : DataOf(d, c[y]) = DataOf(c, c[y])
    BY <1>1, <1>2, <1>3, <2>1, HeaderStored
  <2>3. \A j \in 0 .. n - 1 : h.dataSectors[j] \in N
    BY <1>1, <1>2, <1>4 DEF Takes, Names
  <2> HIDE DEF d, all
  <2>4. DataOf(d, d[x]) = UNION {DataOf(d, d[d[x].dataSectors[j]]) : j \in 0 .. Children(d[x]) - 1}
    <3> HIDE DEF H
    <3>1. x \in H
      BY DEF H
    <3> QED
      BY <1>1, <1>4, <2>2, <3>1, DataOfSubs
  <2>5. \A j \in 0 .. n - 1 : DataOf(d, d[h.dataSectors[j]]) = DataOf(c, c[h.dataSectors[j]])
    BY <2>2, <2>3
  <2>6. DataOf(c, h) = UNION {DataOf(d, d[h.dataSectors[j]]) : j \in 0 .. n - 1}
    BY <1>4, <2>2, <2>4
  <2> QED
    BY <2>5, <2>6 DEF all, DataUpTo
<1> HIDE DEF all
<1>7. Complete(c, h)
  BY <1>1, <1>5, <1>6 DEF Complete
<1>8. NumClear(w) \in Nat /\ total <= NumClear(w)
  <2>1. all \subseteq Free(w) /\ Free(w) \subseteq Sector
    BY <1>1, <1>5 DEF Free, new
  <2>2. IsFiniteSet(Free(w)) /\ Cardinality(Free(w)) \in Nat
    BY <2>1, SectorsAreFinite
  <2>3. Cardinality(all) <= Cardinality(Free(w))
    BY <2>1, <2>2, FS_Subset
  <2> QED
    BY <1>5, <2>2, <2>3 DEF NumClear
<1>9. NumClear(b) = NumClear(w) - ((1 + need) - 1)
  BY <1>5, <1>8
<1>10. Enough(w, size)
  BY <1>8 DEF Enough, total
<1> QED
  BY <1>1, <1>5, <1>6, <1>7, <1>9, <1>10 DEF Filled, b, c, h, new

\* A file takes a sector at least, that of its header.
LEMMA NeededOverType ==
  ASSUME NEW size \in Nat, NEW whole \in Nat, NEW rest \in Nat
  PROVE  NeededOver(whole, rest, size) \in Nat \ {0}
<1> DEFINE S == Share(size)
<1>1. S \in Nat \ {0}
  BY Limits DEF Share
<1>2. size \div S \in Nat /\ (size \div S) * whole \in Nat
  <2> HIDE DEF S
  <2>1. size \div S \in Nat
    BY <1>1, DivMod
  <2> QED
    BY <2>1, TimesType
<1>3. DivRoundUp(size, SectorSize) \in Nat
  BY RoundedUp, Limits
<1>4. NeededOver(whole, rest, size) =
        IF size <= Limit2 THEN 1 + DivRoundUp(size, SectorSize)
        ELSE 1 + (size \div S) * whole + (IF size % S = 0 THEN 0 ELSE rest)
  BY DEF NeededOver
<1> DEFINE y == (size \div S) * whole
           e == IF size % S = 0 THEN 0 ELSE rest
<1>5. e \in Nat /\ y \in Nat
  BY <1>2
<1>6. NeededOver(whole, rest, size) = IF size <= Limit2 THEN 1 + DivRoundUp(size, SectorSize)
                                      ELSE 1 + y + e
  BY <1>4
<1> HIDE DEF y, e, S
<1> QED
  BY <1>3, <1>5, <1>6

\* A file takes a sector at least, on each level.
LEMMA NeededTypes ==
  ASSUME NEW size \in Nat
  PROVE  /\ Needed1(size) \in Nat \ {0} /\ Needed2(size) \in Nat \ {0}
         /\ Needed3(size) \in Nat \ {0} /\ Needed(size) \in Nat \ {0}
<1>1. ASSUME NEW x \in Nat
      PROVE  Needed1(x) \in Nat \ {0} /\ Share(x) \in Nat \ {0} /\ x % Share(x) \in Nat
  <2>1. DivRoundUp(x, SectorSize) \in Nat /\ Share(x) \in Nat \ {0}
    BY RoundedUp, Limits DEF Share
  <2> HIDE DEF Share
  <2>2. x % Share(x) \in Nat
    BY <2>1
  <2> QED
    BY <2>1, <2>2 DEF Needed1
<1>2. ASSUME NEW x \in Nat PROVE Needed2(x) \in Nat \ {0}
  BY <1>1, NeededOverType DEF Needed2
<1>3. ASSUME NEW x \in Nat PROVE Needed3(x) \in Nat \ {0}
  BY <1>1, <1>2, NeededOverType DEF Needed3
<1>4. ASSUME NEW x \in Nat PROVE Needed(x) \in Nat \ {0}
  BY <1>1, <1>3, NeededOverType DEF Needed
<1> QED
  BY <1>1, <1>2, <1>3, <1>4

\* A level of Allocate, when the one below takes what its sub-files need.
LEMMA OverFills ==
  ASSUME NEW w \in World, ~w.aborted, w.map # {}, NEW size \in 1 .. MaxSize, ~(size <= Limit2),
         NEW n, n = SubHeaders(size), NEW m, m = SubSize(size, n - 1),
         NEW whole \in Nat \ {0}, NEW rest \in Nat \ {0},
         NEW last, last = IF m = Share(size) THEN whole ELSE rest,
         NEW turns, NEW sub, Looped(w, size, n, turns, sub, whole, last),
         NEW need, need = NeededOver(whole, rest, size), NumClear(w) >= need - 1
  PROVE  Filled(w, need, AllocateOver(turns, w, size))
<1> DEFINE y == (n - 1) * whole
           a == turns[n]
<1>1. need = 1 + y + last /\ y \in Nat /\ last \in Nat \ {0}
  <2>1. NeededOver(whole, rest, size) = 1 + ((n - 1) * whole) + last
    BY NeedIs
  <2>2. n \in 1 .. NumDirect /\ NumDirect \in Nat
    BY SharesFit, Limits DEF SubHeaders
  <2>3. n - 1 \in Nat
    BY <2>2
  <2> QED
    BY <2>1, <2>3, TimesType
<1>2. NumClear(w) \in Nat
  BY SectorsAreFinite DEF NumClear, Free
<1>3. NumClear(w) >= y + last
  <2> HIDE DEF y
  <2> QED
    BY <1>1, <1>2
<1>4. Filling(w, size, a, n, y + last, DivRoundUp(size, SectorSize))
  BY <1>1, <1>3, LoopFills
<1> HIDE DEF y, a
<1>5. Filled(w, 1 + (y + last), a) /\ Enough(w, size)
  <2>1. y + last \in Nat
    BY <1>1
  <2> DEFINE k == y + last
  <2>2. k \in Nat /\ Filling(w, size, a, n, k, DivRoundUp(size, SectorSize))
    BY <1>4, <2>1
  <2> HIDE DEF k
  <2>3. Filled(w, 1 + k, a) /\ Enough(w, size)
    BY <2>2, LoopIsFilled
  <2> QED
    BY <2>3 DEF k
<1>6. need = 1 + (y + last)
  BY <1>1
<1>7. AllocateOver(turns, w, size) = a
  BY <1>5 DEF AllocateOver, a
<1> QED
  BY <1>5, <1>6, <1>7

\* The sizes of the sub-files.
LEMMA SubSizesAre ==
  ASSUME NEW size \in 1 .. MaxSize, ~(size <= Limit2), NEW S, S = Share(size),
         NEW n, n = SubHeaders(size), NEW m, m = SubSize(size, n - 1), NEW i \in 0 .. n - 1
  PROVE  /\ i \in Direct /\ SubSize(size, i) \in 1 .. S
         /\ i = n - 1 => SubSize(size, i) = m
         /\ i # n - 1 => SubSize(size, i) = S
         /\ m = S \/ m = size % S
<1>1. /\ n \in 1 .. NumDirect /\ S \in Nat \ {0} /\ m \in 1 .. S
      /\ \A j \in 0 .. n - 2 : SubSize(size, j) = S
      /\ m # S => size % S = m
  BY LastShare
<1>2. NumDirect \in Nat
  BY Limits
<1>3. i \in Direct /\ (i # n - 1 => i \in 0 .. n - 2)
  BY <1>1, <1>2 DEF Direct
<1>4. i = n - 1 => SubSize(size, i) = m
  OBVIOUS
<1>5. SubSize(size, i) = m \/ SubSize(size, i) = S
  BY <1>1, <1>3, <1>4
<1>6. SubSize(size, i) \in 1 .. S
  BY <1>1, <1>5
<1> QED
  BY <1>1, <1>3, <1>4, <1>6

\* On a disk with room for a file and its headers, its header and its sub-headers
\* have a sector for each of its blocks: on each level, as on the one below.
LEMMA Level1Fills ==
  ASSUME NEW w \in World, ~w.aborted, NEW size \in 1 .. Limit2,
         NumClear(w) >= Needed1(size) - 1
  PROVE  Filled(w, Needed1(size), AllocateBlocks(w, size))
<1>1. Needed1(size) - 1 = DivRoundUp(size, SectorSize)
  <2>1. size \in Nat
    BY Limits
  <2>2. DivRoundUp(size, SectorSize) \in Nat
    BY <2>1, RoundedUp, Limits
  <2> QED
    BY <2>2 DEF Needed1
<1> QED
  BY <1>1, BlocksFill

\* The same with a level of sub-headers.
LEMMA Level2Fills ==
  ASSUME NEW w \in World, ~w.aborted, w.map # {}, NEW size \in 1 .. Limit3,
         NumClear(w) >= Needed2(size) - 1
  PROVE  Filled(w, Needed2(size), Allocate2(w, size))
<1> DEFINE S == Share(size)
           n == SubHeaders(size)
           m == SubSize(size, n - 1)
           a == Turns2(w, size)
           whole == Needed1(S)
           rest == Needed1(size % S)
           last == IF m = S THEN whole ELSE rest
           need == Needed2(size)
           sub == [i \in Direct |-> AllocateBlocks(ForHeader(a[i].w), SubSize(size, i))]
<1>1. size \in 1 .. MaxSize /\ size \in Nat /\ size <= Limit3
  BY Limits DEF MaxSize
<1>2. Allocate2(w, size) = AllocateOver(a, w, size) /\ need = NeededOver(whole, rest, size)
  BY DEF Allocate2, Needed2
<1>3. CASE size <= Limit2
  <2>1. size \in 1 .. Limit2 /\ AllocateOver(a, w, size) = AllocateBlocks(w, size)
    BY <1>1, <1>3, Limits DEF AllocateOver
  <2>2. need = Needed1(size)
    BY <1>2, <1>3 DEF NeededOver, Needed1
  <2> HIDE DEF need, a
  <2> QED
    BY <1>2, <2>1, <2>2, Level1Fills DEF need
<1>4. CASE ~(size <= Limit2)
  <2>1. S \in 1 .. Limit2 /\ S \in Nat \ {0} /\ n \in 1 .. NumDirect /\ NumDirect \in Nat
    BY <1>1, <1>4, SharesFit, Limits DEF SubHeaders
  <2>2. size % S \in Nat
    <3> HIDE DEF S
    <3> QED
      BY <1>1, <2>1
  <2>3. whole \in Nat \ {0} /\ rest \in Nat \ {0}
    <3> HIDE DEF S
    <3> QED
      BY <2>1, <2>2, NeededTypes
  <2>4. ASSUME NEW i \in 0 .. n - 1
        PROVE  /\ i \in Direct /\ SubSize(size, i) \in 1 .. Limit2
               /\ Needed1(SubSize(size, i)) = IF i = n - 1 THEN last ELSE whole
    <3>1. /\ i \in Direct /\ SubSize(size, i) \in 1 .. S
          /\ i = n - 1 => SubSize(size, i) = m
          /\ i # n - 1 => SubSize(size, i) = S
          /\ m = S \/ m = size % S
      BY <1>1, <1>4, SubSizesAre
    <3> HIDE DEF S, m, n
    <3>2. SubSize(size, i) \in 1 .. Limit2
      BY <2>1, <3>1, Limits
    <3> QED
      BY <3>1, <3>2
  <2>5. a[0] = FirstTurn(w, size) /\ \A i \in 0 .. n - 1 : a[i + 1] = NextSub2(a[i], i, size)
    <3> DEFINE k == n
    <3>1. k \in Nat /\ k = SubHeaders(size)
      BY <2>1
    <3> HIDE DEF k
    <3>2. /\ a[0] = FirstTurn(w, size)
          /\ \A i \in 0 .. k - 1 : a[i + 1] = NextSub2(a[i], i, size)
      BY <3>1, Turns2Are
    <3> QED
      BY <3>2 DEF k
  <2> HIDE DEF S, n, m, a, whole, rest
  <2>6. ASSUME NEW i \in 0 .. n - 1, NEW u, u = a[i].w, NEW k, k = IF i = n - 1 THEN last ELSE whole
        PROVE  /\ a[i + 1] = Turned(a[i], i, FindAndSet(u), sub[i])
               /\ u \in World /\ ~u.aborted => Allocated(ForHeader(u), SubSize(size, i), sub[i])
               /\ u \in World /\ ~u.aborted /\ NumClear(u) >= k => Filled(ForHeader(u), k, sub[i])
    <3> DEFINE v == ForHeader(u)
               z == SubSize(size, i)
               g == sub[i]
    <3>1. i \in Direct /\ z \in 1 .. Limit2 /\ Needed1(z) = k
      BY <2>4, <2>6
    <3>2. g = AllocateBlocks(v, z)
      BY <2>6, <3>1
    <3>3. a[i + 1] = Turned(a[i], i, FindAndSet(u), g)
      <4>1. a[i + 1] = NextSub2(a[i], i, size)
        BY <2>5
      <4> HIDE DEF g
      <4> QED
        BY <2>6, <3>2, <4>1 DEF NextSub2
    <3>4. u \in World /\ ~u.aborted => Allocated(v, z, g)
      <4>1. u \in World => v \in World
        BY MarkedIs DEF ForHeader
      <4> HIDE DEF v, z, g
      <4> QED
        BY <3>1, <3>2, <4>1, BlocksAllocated
    <3>5. k \in Nat \ {0}
      BY <2>3, <2>6
    <3>6. u \in World /\ ~u.aborted /\ NumClear(u) >= k => Filled(v, k, g)
      <4> SUFFICES ASSUME u \in World /\ ~u.aborted /\ NumClear(u) >= k PROVE Filled(v, k, g)
        OBVIOUS
      <4>1. v \in World /\ ~v.aborted /\ v.map # {} /\ NumClear(v) >= k - 1
        BY <3>5, ForHeaderIs
      <4> HIDE DEF v, z, g, last
      <4> QED
        BY <3>1, <3>2, <4>1, Level1Fills
    <3> QED
      BY <3>3, <3>4, <3>6
  <2>7. Looped(w, size, n, a, sub, whole, last)
    <3> HIDE DEF sub, last
    <3> QED
      BY <2>5, <2>6 DEF Looped
  <2>8. Filled(w, need, AllocateOver(a, w, size))
    <3> HIDE DEF sub, need
    <3>1. n = SubHeaders(size) /\ m = SubSize(size, n - 1)
      BY DEF n, m
    <3>2. last = IF m = Share(size) THEN whole ELSE rest
      BY DEF S
    <3>3. NumClear(w) >= need - 1
      BY DEF need
    <3> HIDE DEF last
    <3> QED
      BY <1>1, <1>2, <1>4, <2>3, <2>7, <3>1, <3>2, <3>3, OverFills
  <2> QED
    BY <1>2, <2>8
<1> QED
  BY <1>3, <1>4

\* The same with two.
LEMMA Level3Fills ==
  ASSUME NEW w \in World, ~w.aborted, w.map # {}, NEW size \in 1 .. Limit4,
         NumClear(w) >= Needed3(size) - 1
  PROVE  Filled(w, Needed3(size), Allocate3(w, size))
<1> DEFINE S == Share(size)
           n == SubHeaders(size)
           m == SubSize(size, n - 1)
           a == Turns3(w, size)
           whole == Needed2(S)
           rest == Needed2(size % S)
           last == IF m = S THEN whole ELSE rest
           need == Needed3(size)
           sub == [i \in Direct |-> Allocate2(ForHeader(a[i].w), SubSize(size, i))]
<1>1. size \in 1 .. MaxSize /\ size \in Nat /\ size <= Limit4
  BY Limits DEF MaxSize
<1>2. Allocate3(w, size) = AllocateOver(a, w, size) /\ need = NeededOver(whole, rest, size)
  BY DEF Allocate3, Needed3
<1>3. CASE size <= Limit2
  <2>1. size \in 1 .. Limit2 /\ AllocateOver(a, w, size) = AllocateBlocks(w, size)
    BY <1>1, <1>3, Limits DEF AllocateOver
  <2>2. need = Needed1(size)
    BY <1>2, <1>3 DEF NeededOver, Needed1
  <2> HIDE DEF need, a
  <2> QED
    BY <1>2, <2>1, <2>2, Level1Fills DEF need
<1>4. CASE ~(size <= Limit2)
  <2>1. S \in 1 .. Limit3 /\ S \in Nat \ {0} /\ n \in 1 .. NumDirect /\ NumDirect \in Nat
    BY <1>1, <1>4, SharesFit, Limits DEF SubHeaders
  <2>2. size % S \in Nat
    <3> HIDE DEF S
    <3> QED
      BY <1>1, <2>1
  <2>3. whole \in Nat \ {0} /\ rest \in Nat \ {0}
    <3> HIDE DEF S
    <3> QED
      BY <2>1, <2>2, NeededTypes
  <2>4. ASSUME NEW i \in 0 .. n - 1
        PROVE  /\ i \in Direct /\ SubSize(size, i) \in 1 .. Limit3
               /\ Needed2(SubSize(size, i)) = IF i = n - 1 THEN last ELSE whole
    <3>1. /\ i \in Direct /\ SubSize(size, i) \in 1 .. S
          /\ i = n - 1 => SubSize(size, i) = m
          /\ i # n - 1 => SubSize(size, i) = S
          /\ m = S \/ m = size % S
      BY <1>1, <1>4, SubSizesAre
    <3> HIDE DEF S, m, n
    <3>2. SubSize(size, i) \in 1 .. Limit3
      BY <2>1, <3>1, Limits
    <3> QED
      BY <3>1, <3>2
  <2>5. a[0] = FirstTurn(w, size) /\ \A i \in 0 .. n - 1 : a[i + 1] = NextSub3(a[i], i, size)
    <3> DEFINE k == n
    <3>1. k \in Nat /\ k = SubHeaders(size)
      BY <2>1
    <3> HIDE DEF k
    <3>2. /\ a[0] = FirstTurn(w, size)
          /\ \A i \in 0 .. k - 1 : a[i + 1] = NextSub3(a[i], i, size)
      BY <3>1, Turns3Are
    <3> QED
      BY <3>2 DEF k
  <2> HIDE DEF S, n, m, a, whole, rest
  <2>6. ASSUME NEW i \in 0 .. n - 1, NEW u, u = a[i].w, NEW k, k = IF i = n - 1 THEN last ELSE whole
        PROVE  /\ a[i + 1] = Turned(a[i], i, FindAndSet(u), sub[i])
               /\ u \in World /\ ~u.aborted => Allocated(ForHeader(u), SubSize(size, i), sub[i])
               /\ u \in World /\ ~u.aborted /\ NumClear(u) >= k => Filled(ForHeader(u), k, sub[i])
    <3> DEFINE v == ForHeader(u)
               z == SubSize(size, i)
               g == sub[i]
    <3>1. i \in Direct /\ z \in 1 .. Limit3 /\ Needed2(z) = k
      BY <2>4, <2>6
    <3>2. g = Allocate2(v, z)
      BY <2>6, <3>1
    <3>3. a[i + 1] = Turned(a[i], i, FindAndSet(u), g)
      <4>1. a[i + 1] = NextSub3(a[i], i, size)
        BY <2>5
      <4> HIDE DEF g
      <4> QED
        BY <2>6, <3>2, <4>1 DEF NextSub3
    <3>4. u \in World /\ ~u.aborted => Allocated(v, z, g)
      <4>1. u \in World => v \in World
        BY MarkedIs DEF ForHeader
      <4> HIDE DEF v, z, g
      <4> QED
        BY <3>1, <3>2, <4>1, Level2Allocates
    <3>5. k \in Nat \ {0}
      BY <2>3, <2>6
    <3>6. u \in World /\ ~u.aborted /\ NumClear(u) >= k => Filled(v, k, g)
      <4> SUFFICES ASSUME u \in World /\ ~u.aborted /\ NumClear(u) >= k PROVE Filled(v, k, g)
        OBVIOUS
      <4>1. v \in World /\ ~v.aborted /\ v.map # {} /\ NumClear(v) >= k - 1
        BY <3>5, ForHeaderIs
      <4> HIDE DEF v, z, g, last
      <4> QED
        BY <3>1, <3>2, <4>1, Level2Fills
    <3> QED
      BY <3>3, <3>4, <3>6
  <2>7. Looped(w, size, n, a, sub, whole, last)
    <3> HIDE DEF sub, last
    <3> QED
      BY <2>5, <2>6 DEF Looped
  <2>8. Filled(w, need, AllocateOver(a, w, size))
    <3> HIDE DEF sub, need
    <3>1. n = SubHeaders(size) /\ m = SubSize(size, n - 1)
      BY DEF n, m
    <3>2. last = IF m = Share(size) THEN whole ELSE rest
      BY DEF S
    <3>3. NumClear(w) >= need - 1
      BY DEF need
    <3> HIDE DEF last
    <3> QED
      BY <1>1, <1>2, <1>4, <2>3, <2>7, <3>1, <3>2, <3>3, OverFills
  <2> QED
    BY <1>2, <2>8
<1> QED
  BY <1>3, <1>4

\* On a disk with room for a file of any size, as Needed counts it, Allocate gives each
\* block of the file a free sector of its own, and takes the sectors Needed counts (filehdr.cc:72).
THEOREM AllocateFills ==
  ASSUME NEW w \in World, ~w.aborted, w.map # {}, NEW size \in 1 .. MaxSize,
         NumClear(w) >= Needed(size) - 1
  PROVE  Filled(w, Needed(size), Allocate(w, size))
<1> DEFINE S == Share(size)
           n == SubHeaders(size)
           m == SubSize(size, n - 1)
           a == Turns4(w, size)
           whole == Needed3(S)
           rest == Needed3(size % S)
           last == IF m = S THEN whole ELSE rest
           need == Needed(size)
           sub == [i \in Direct |-> Allocate3(ForHeader(a[i].w), SubSize(size, i))]
<1>1. size \in 1 .. MaxSize /\ size \in Nat /\ size <= MaxSize
  BY Limits DEF MaxSize
<1>2. Allocate(w, size) = AllocateOver(a, w, size) /\ need = NeededOver(whole, rest, size)
  BY DEF Allocate, Needed
<1>3. CASE size <= Limit2
  <2>1. size \in 1 .. Limit2 /\ AllocateOver(a, w, size) = AllocateBlocks(w, size)
    BY <1>1, <1>3, Limits DEF AllocateOver
  <2>2. need = Needed1(size)
    BY <1>2, <1>3 DEF NeededOver, Needed1
  <2> HIDE DEF need, a
  <2> QED
    BY <1>2, <2>1, <2>2, Level1Fills DEF need
<1>4. CASE ~(size <= Limit2)
  <2>1. S \in 1 .. Limit4 /\ S \in Nat \ {0} /\ n \in 1 .. NumDirect /\ NumDirect \in Nat
    BY <1>1, <1>4, SharesFit, Limits DEF SubHeaders
  <2>2. size % S \in Nat
    <3> HIDE DEF S
    <3> QED
      BY <1>1, <2>1
  <2>3. whole \in Nat \ {0} /\ rest \in Nat \ {0}
    <3> HIDE DEF S
    <3> QED
      BY <2>1, <2>2, NeededTypes
  <2>4. ASSUME NEW i \in 0 .. n - 1
        PROVE  /\ i \in Direct /\ SubSize(size, i) \in 1 .. Limit4
               /\ Needed3(SubSize(size, i)) = IF i = n - 1 THEN last ELSE whole
    <3>1. /\ i \in Direct /\ SubSize(size, i) \in 1 .. S
          /\ i = n - 1 => SubSize(size, i) = m
          /\ i # n - 1 => SubSize(size, i) = S
          /\ m = S \/ m = size % S
      BY <1>1, <1>4, SubSizesAre
    <3> HIDE DEF S, m, n
    <3>2. SubSize(size, i) \in 1 .. Limit4
      BY <2>1, <3>1, Limits
    <3> QED
      BY <3>1, <3>2
  <2>5. a[0] = FirstTurn(w, size) /\ \A i \in 0 .. n - 1 : a[i + 1] = NextSub4(a[i], i, size)
    <3> DEFINE k == n
    <3>1. k \in Nat /\ k = SubHeaders(size)
      BY <2>1
    <3> HIDE DEF k
    <3>2. /\ a[0] = FirstTurn(w, size)
          /\ \A i \in 0 .. k - 1 : a[i + 1] = NextSub4(a[i], i, size)
      BY <3>1, Turns4Are
    <3> QED
      BY <3>2 DEF k
  <2> HIDE DEF S, n, m, a, whole, rest
  <2>6. ASSUME NEW i \in 0 .. n - 1, NEW u, u = a[i].w, NEW k, k = IF i = n - 1 THEN last ELSE whole
        PROVE  /\ a[i + 1] = Turned(a[i], i, FindAndSet(u), sub[i])
               /\ u \in World /\ ~u.aborted => Allocated(ForHeader(u), SubSize(size, i), sub[i])
               /\ u \in World /\ ~u.aborted /\ NumClear(u) >= k => Filled(ForHeader(u), k, sub[i])
    <3> DEFINE v == ForHeader(u)
               z == SubSize(size, i)
               g == sub[i]
    <3>1. i \in Direct /\ z \in 1 .. Limit4 /\ Needed3(z) = k
      BY <2>4, <2>6
    <3>2. g = Allocate3(v, z)
      BY <2>6, <3>1
    <3>3. a[i + 1] = Turned(a[i], i, FindAndSet(u), g)
      <4>1. a[i + 1] = NextSub4(a[i], i, size)
        BY <2>5
      <4> HIDE DEF g
      <4> QED
        BY <2>6, <3>2, <4>1 DEF NextSub4
    <3>4. u \in World /\ ~u.aborted => Allocated(v, z, g)
      <4>1. u \in World => v \in World
        BY MarkedIs DEF ForHeader
      <4> HIDE DEF v, z, g
      <4> QED
        BY <3>1, <3>2, <4>1, Level3Allocates
    <3>5. k \in Nat \ {0}
      BY <2>3, <2>6
    <3>6. u \in World /\ ~u.aborted /\ NumClear(u) >= k => Filled(v, k, g)
      <4> SUFFICES ASSUME u \in World /\ ~u.aborted /\ NumClear(u) >= k PROVE Filled(v, k, g)
        OBVIOUS
      <4>1. v \in World /\ ~v.aborted /\ v.map # {} /\ NumClear(v) >= k - 1
        BY <3>5, ForHeaderIs
      <4> HIDE DEF v, z, g, last
      <4> QED
        BY <3>1, <3>2, <4>1, Level3Fills
    <3> QED
      BY <3>3, <3>4, <3>6
  <2>7. Looped(w, size, n, a, sub, whole, last)
    <3> HIDE DEF sub, last
    <3> QED
      BY <2>5, <2>6 DEF Looped
  <2>8. Filled(w, need, AllocateOver(a, w, size))
    <3> HIDE DEF sub, need
    <3>1. n = SubHeaders(size) /\ m = SubSize(size, n - 1)
      BY DEF n, m
    <3>2. last = IF m = Share(size) THEN whole ELSE rest
      BY DEF S
    <3>3. NumClear(w) >= need - 1
      BY DEF need
    <3> HIDE DEF last
    <3> QED
      BY <1>1, <1>2, <1>4, <2>3, <2>7, <3>1, <3>2, <3>3, OverFills
  <2> QED
    BY <1>2, <2>8
<1> QED
  BY <1>3, <1>4
===============================================================================
