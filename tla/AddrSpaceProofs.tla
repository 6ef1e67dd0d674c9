---------------------------- MODULE AddrSpaceProofs ----------------------------
(***************************************************************************)
(* Theorems about AddrSpace, for any programs, sizes and page size: its    *)
(* invariants, and that it implements PrivateMemory.                       *)
(***************************************************************************)
EXTENDS AddrSpace, FiniteSetTheorems, TLAPS

-------------------------------------------------------------------------------
(* The free frames, in their order *)

LEMMA FreeIsFinite ==
  /\ IsFiniteSet(Free)
  /\ Cardinality(Free) \in Nat
  /\ Free \subseteq Int
<1>1. IsFiniteSet(0 .. NumPhysPages - 1)
  BY FS_Interval, SpaceAssumption
<1>2. Free \subseteq 0 .. NumPhysPages - 1
  BY DEF Free, Frame
<1>3. IsFiniteSet(Free)
  BY <1>1, <1>2, FS_Subset
<1>4. QED
  BY <1>2, <1>3, FS_CardinalityType

Rank(f) == Cardinality({g \in Free : g < f})

LEMMA RankType ==
  ASSUME NEW f \in Free
  PROVE  Rank(f) \in 0 .. Cardinality(Free) - 1
<1> DEFINE B == {g \in Free : g < f}
<1>1. B \in SUBSET (Free \ {f})
  BY FreeIsFinite
<1>2. IsFiniteSet(Free \ {f}) /\ Cardinality(Free \ {f}) = Cardinality(Free) - 1
  BY FreeIsFinite, FS_RemoveElement
<1>3. IsFiniteSet(B) /\ Cardinality(B) <= Cardinality(Free) - 1
  BY <1>1, <1>2, FS_Subset
<1>4. Cardinality(B) \in Nat
  BY <1>3, FS_CardinalityType
<1>5. Cardinality(B) \in 0 .. Cardinality(Free) - 1
  BY <1>3, <1>4, FreeIsFinite
<1>6. QED
  BY <1>5 DEF Rank

LEMMA RankGrows ==
  ASSUME NEW f \in Free, NEW g \in Free, f < g
  PROVE  Rank(f) < Rank(g)
<1> DEFINE B == {h \in Free : h < f}
           C == {h \in Free : h < g}
<1>1. C \in SUBSET Free /\ B \in SUBSET (C \ {f}) /\ f \in C
  <2>1. \A h \in Free : h \in Int
    BY FreeIsFinite
  <2>2. \A h \in Free : h < f => h < g /\ h # f
    BY <2>1
  <2>3. QED
    BY <2>2
<1>2. IsFiniteSet(C)
  BY <1>1, FreeIsFinite, FS_Subset
<1>3. IsFiniteSet(C \ {f}) /\ Cardinality(C \ {f}) = Cardinality(C) - 1
  BY <1>1, <1>2, FS_RemoveElement
<1>4. IsFiniteSet(B) /\ Cardinality(B) <= Cardinality(C) - 1
  BY <1>1, <1>3, FS_Subset
<1>5. Cardinality(B) \in Nat /\ Cardinality(C) \in Nat
  BY <1>2, <1>4, FS_CardinalityType
<1>6. Cardinality(B) < Cardinality(C)
  BY <1>4, <1>5
<1>7. QED
  BY <1>6 DEF Rank

\* The search of Load finds a frame for each page: ranks are different and
\* there are as many as free frames.
LEMMA FrameOfIsFree ==
  ASSUME NEW i \in 0 .. Cardinality(Free) - 1
  PROVE  FrameOf(i) \in Free /\ Rank(FrameOf(i)) = i
<1> DEFINE N == Cardinality(Free)
           rank == [f \in Free |-> Rank(f)]
<1>1. rank \in [Free -> 0 .. N - 1]
  BY RankType
<1>2. \A f, g \in Free : rank[f] = rank[g] => f = g
  <2> SUFFICES ASSUME NEW f \in Free, NEW g \in Free, f # g
               PROVE  Rank(f) # Rank(g)
    OBVIOUS
  <2>1. f < g \/ g < f
    BY FreeIsFinite
  <2>2. Rank(f) < Rank(g) \/ Rank(g) < Rank(f)
    BY <2>1, RankGrows
  <2>3. Rank(f) \in Int /\ Rank(g) \in Int
    BY RankType, FreeIsFinite
  <2>4. QED
    BY <2>2, <2>3
<1>3. rank \in Injection(Free, 0 .. N - 1)
  BY <1>1, <1>2 DEF Injection, IsInjective
<1>4. IsFiniteSet(0 .. N - 1) /\ Cardinality(0 .. N - 1) = N
  <2>1. 0 \in Int /\ N - 1 \in Int /\ N \in Nat
    BY FreeIsFinite
  <2> HIDE DEF N
  <2>2. IsFiniteSet(0 .. N - 1) /\ Cardinality(0 .. N - 1) = IF 0 > N - 1 THEN 0 ELSE (N - 1) - 0 + 1
    BY <2>1, FS_Interval
  <2>3. QED
    BY <2>1, <2>2
<1>5. rank \in Surjection(Free, 0 .. N - 1)
  BY <1>3, <1>4, FS_Injection
<1>6. PICK f \in Free : rank[f] = i
  BY <1>5 DEF Surjection
<1>7. Rank(f) = i
  BY <1>6
<1>8. QED
  BY <1>7 DEF FrameOf, Rank

\* What Load takes, and what it leaves.
LEMMA TakenFrames ==
  ASSUME NEW n \in Nat, n <= Cardinality(Free),
         NEW table, table = [i \in 0 .. n - 1 |-> FrameOf(i)]
  PROVE  LET taken == {table[i] : i \in DOMAIN table}
         IN  /\ taken \subseteq Free
             /\ \A i, j \in DOMAIN table : table[i] = table[j] => i = j
             /\ Cardinality(Free \ taken) = Cardinality(Free) - n
<1> DEFINE taken == {table[i] : i \in DOMAIN table}
<1>1. \A i \in 0 .. n - 1 : i \in 0 .. Cardinality(Free) - 1
  BY FreeIsFinite
<1>2. \A i \in 0 .. n - 1 : table[i] \in Free /\ Rank(table[i]) = i
  BY <1>1, FrameOfIsFree
<1>3. taken \subseteq Free
  BY <1>2
<1>4. \A i, j \in DOMAIN table : table[i] = table[j] => i = j
  BY <1>2
<1>5. table \in Bijection(0 .. n - 1, taken)
  BY <1>4 DEF Bijection, Injection, Surjection, IsInjective
<1>6. Cardinality(taken) = n
  <2>1. IsFiniteSet(0 .. n - 1) /\ Cardinality(0 .. n - 1) = IF 0 > n - 1 THEN 0 ELSE (n - 1) - 0 + 1
    BY FS_Interval
  <2>2. ExistsBijection(0 .. n - 1, taken)
    BY <1>5 DEF ExistsBijection
  <2>3. Cardinality(taken) = Cardinality(0 .. n - 1)
    BY <2>1, <2>2, FS_Bijection
  <2>4. QED
    BY <2>1, <2>3
<1>7. Cardinality(Free \ taken) = Cardinality(Free) - n
  <2>1. Cardinality(Free \ taken) = Cardinality(Free) - Cardinality(Free \cap taken)
    BY FreeIsFinite, FS_Difference
  <2>2. Free \cap taken = taken
    BY <1>3
  <2>3. QED
    BY <1>6, <2>1, <2>2
<1>8. QED
  BY <1>3, <1>4, <1>7

-------------------------------------------------------------------------------
(* Addresses and pages *)

LEMMA Divide ==
  ASSUME NEW a \in Nat
  PROVE  /\ a \div PageSize \in Nat /\ a % PageSize \in 0 .. PageSize - 1
         /\ a % PageSize = a - PageSize * (a \div PageSize)
         /\ PageSize * (a \div PageSize) <= a
         /\ a < PageSize * (a \div PageSize) + PageSize
<1>1. PageSize \in Nat /\ PageSize > 0
  BY SpaceAssumption
<1>2. a \div PageSize \in Nat /\ a % PageSize \in 0 .. PageSize - 1
  BY <1>1
<1>3. a % PageSize = a - PageSize * (a \div PageSize)
  BY <1>1
<1>4. PageSize * (a \div PageSize) <= a
  BY <1>1
<1>5. a < PageSize * (a \div PageSize) + PageSize
  BY <1>1
<1>6. QED
  BY <1>2, <1>3, <1>4, <1>5

LEMMA PageBelow ==
  ASSUME NEW a \in Nat, NEW n \in Nat, a < PageSize * n
  PROVE  a \div PageSize < n
<1> DEFINE q == a \div PageSize
<1>1. q \in Nat /\ PageSize * q <= a
  BY Divide, SpaceAssumption
<1>2. PageSize * q < PageSize * n
  BY <1>1, SpaceAssumption
<1>3. ASSUME q >= n PROVE PageSize * q >= PageSize * n
  BY <1>1, <1>3, SpaceAssumption
<1>4. QED
  BY <1>1, <1>2, <1>3, SpaceAssumption

LEMMA PageAt ==
  ASSUME NEW q \in Nat, NEW k \in Nat
  PROVE  (PageSize * q + k * PageSize) \div PageSize = q + k
BY SpaceAssumption, SMT

-------------------------------------------------------------------------------
(* The parts LoadData reads a segment in *)

Segment == [va : Nat, size : Nat]

LEMMA FirstPartBounds ==
  ASSUME NEW seg \in Segment
  PROVE  /\ FirstPart(seg) \in 0 .. PageSize - 1
         /\ \E q \in Nat : seg.va + FirstPart(seg) = PageSize * q
<1> DEFINE a == seg.va + PageSize - 1
           q == a \div PageSize
           r == a % PageSize
<1>1. a \in Nat /\ seg.va \in Nat /\ PageSize \in Nat
  BY SpaceAssumption DEF Segment
<1>2. q \in Nat /\ r \in 0 .. PageSize - 1 /\ r = a - PageSize * q
  <2> HIDE DEF a
  <2>1. QED
    BY <1>1, Divide
<1>3. FirstPart(seg) = PageSize - (r + 1)
  BY DEF FirstPart
<1> HIDE DEF q, r
<1>4. PageSize * q \in Int
  BY <1>1, <1>2
<1>5. seg.va + FirstPart(seg) = PageSize * q
  BY <1>1, <1>2, <1>3, <1>4
<1>6. FirstPart(seg) \in 0 .. PageSize - 1
  BY <1>1, <1>2, <1>3
<1>7. QED
  BY <1>2, <1>5, <1>6

LEMMA WholePagesBounds ==
  ASSUME NEW seg \in Segment
  PROVE  /\ WholePages(seg) \in Nat
         /\ WholePages(seg) # 0 => FirstPart(seg) + WholePages(seg) * PageSize <= seg.size
<1> DEFINE rest == seg.size - FirstPart(seg)
<1>1. FirstPart(seg) \in Nat /\ seg.size \in Nat /\ PageSize \in Nat
  BY FirstPartBounds, SpaceAssumption DEF Segment
<1>2. rest \in Int
  BY <1>1
<1>3. WholePages(seg) = IF rest < PageSize THEN 0 ELSE rest \div PageSize
  BY DEF WholePages
<1>4. CASE rest < PageSize
  BY <1>3, <1>4
<1>5. CASE ~(rest < PageSize)
  <2> DEFINE w == rest \div PageSize
  <2>1. rest \in Nat
    BY <1>1, <1>2, <1>5
  <2>2. w \in Nat /\ PageSize * w <= rest
    <3> HIDE DEF rest
    <3>1. QED
      BY <2>1, Divide
  <2>3. w = WholePages(seg)
    BY <1>3, <1>5
  <2> HIDE DEF w
  <2>4. PageSize * w = w * PageSize /\ PageSize * w \in Int
    BY <1>1, <2>2
  <2>5. FirstPart(seg) + w * PageSize <= seg.size
    BY <1>1, <2>2, <2>4
  <2>6. QED
    BY <2>2, <2>3, <2>5
<1>6. QED
  BY <1>4, <1>5

\* The stack is at least a page, so every part is read into a page of the table.
LEMMA PartsHavePages ==
  ASSUME NEW seg \in Segment, seg.size # 0, NEW n \in Nat,
         seg.va + seg.size + UserStackSize <= PageSize * n
  PROVE  \A part \in Parts(seg) :
           /\ part.va \in Nat /\ part.size \in Nat
           /\ part.va \div PageSize \in 0 .. n - 1
<1> DEFINE F == FirstPart(seg)
           W == WholePages(seg)
<1>1. /\ seg.va \in Nat /\ seg.size \in Nat /\ seg.size >= 1
      /\ PageSize \in Nat \ {0} /\ UserStackSize \in Nat /\ PageSize <= UserStackSize
  BY SpaceAssumption DEF Segment
<1>2. F \in 0 .. PageSize - 1
  BY FirstPartBounds
<1>3. W \in Nat /\ (W # 0 => F + W * PageSize <= seg.size)
  BY WholePagesBounds
<1>4. PageSize * n \in Nat
  BY <1>1
<1>5. \A a \in Nat : a < PageSize * n => a \div PageSize \in 0 .. n - 1
  BY Divide, PageBelow
<1>6. seg.va < PageSize * n
  BY <1>1, <1>4
<1>7. ASSUME NEW k \in 0 .. W
      PROVE  seg.va + F + k * PageSize \in Nat /\ seg.va + F + k * PageSize < PageSize * n
  <2> HIDE DEF F, W
  <2>1. k * PageSize \in Nat /\ W * PageSize \in Nat /\ k * PageSize <= W * PageSize
    BY <1>1, <1>3
  <2>2. CASE W = 0
    BY <1>1, <1>2, <1>4, <2>1, <2>2
  <2>3. CASE W # 0
    BY <1>1, <1>2, <1>3, <1>4, <2>1, <2>3
  <2>4. QED
    BY <2>2, <2>3
<1>8. \A part \in Parts(seg) :
        /\ part.va \in Nat /\ part.va < PageSize * n /\ part.size \in Nat
  <2>1. Parts(seg) = {[va |-> seg.va, size |-> F]}
                     \cup {[va |-> seg.va + F + k * PageSize, size |-> PageSize] : k \in 0 .. W}
    BY DEF Parts
  <2> HIDE DEF F, W
  <2>2. QED
    BY <1>1, <1>2, <1>6, <1>7, <2>1
<1>9. QED
  BY <1>5, <1>8

\* The pages that become read-only are pages of the table, and they hold
\* nothing but the segment.
LEMMA ProtectedPagesAreItsOwn ==
  ASSUME NEW seg \in Segment, NEW k \in 0 .. WholePages(seg) - 1
  PROVE  LET page == (seg.va + FirstPart(seg)) \div PageSize + k
         IN  /\ page \in Nat
             /\ PageSize * page + PageSize <= seg.va + seg.size
<1> DEFINE F == FirstPart(seg)
           W == WholePages(seg)
<1>1. seg.va \in Nat /\ seg.size \in Nat /\ PageSize \in Nat \ {0}
  BY SpaceAssumption DEF Segment
<1>2. F \in 0 .. PageSize - 1
  BY FirstPartBounds
<1>3. PICK q \in Nat : seg.va + F = PageSize * q
  BY FirstPartBounds
<1>4. W \in Nat /\ W # 0 /\ F + W * PageSize <= seg.size /\ k \in Nat /\ k + 1 <= W
  BY WholePagesBounds
<1>5. (seg.va + F) \div PageSize = q
  <2>1. (PageSize * q + 0 * PageSize) \div PageSize = q + 0
    BY PageAt
  <2>2. PageSize * q + 0 * PageSize = PageSize * q
    BY <1>1
  <2>3. QED
    BY <1>3, <2>1, <2>2
<1> HIDE DEF F, W
<1>6. PageSize * (q + k) + PageSize = PageSize * q + (k + 1) * PageSize
  BY <1>1, <1>4
<1>7. (k + 1) * PageSize <= W * PageSize
  BY <1>1, <1>4
<1>8. /\ PageSize * q \in Int /\ (k + 1) * PageSize \in Int /\ W * PageSize \in Int
  BY <1>1, <1>4
<1>9. PageSize * q + (k + 1) * PageSize <= seg.va + seg.size
  BY <1>1, <1>2, <1>3, <1>4, <1>7, <1>8
<1>10. PageSize * (q + k) + PageSize <= seg.va + seg.size
  BY <1>6, <1>9
<1>11. QED
  BY <1>4, <1>5, <1>10 DEF F

-------------------------------------------------------------------------------
(* Layouts *)

LEMMA NumPagesBounds ==
  ASSUME NEW l \in Layout
  PROVE  /\ NumPages(l) \in Nat
         /\ FileLength(l) \in Nat
         /\ FileLength(l) + UserStackSize <= PageSize * NumPages(l)
<1> DEFINE total == l.code + l.rdata + l.data + l.bss + UserStackSize
           a == total + PageSize - 1
<1>1. /\ l.code \in Nat /\ l.rdata \in Nat /\ l.data \in Nat /\ l.bss \in Nat
      /\ PageSize \in Nat \ {0} /\ UserStackSize \in Nat
  BY SpaceAssumption
<1>2. total \in Nat /\ a \in Nat
  BY <1>1
<1>3. NumPages(l) = a \div PageSize
  BY DEF NumPages
<1>4. FileLength(l) \in Nat /\ FileLength(l) + UserStackSize <= total
  BY <1>1 DEF FileLength
<1>5. a \div PageSize \in Nat /\ a < PageSize * (a \div PageSize) + PageSize
  <2> HIDE DEF a
  <2>1. QED
    BY <1>2, Divide
<1>6. PageSize * NumPages(l) \in Nat
  BY <1>1, <1>3, <1>5
<1>7. total + PageSize - 1 < PageSize * NumPages(l) + PageSize
  BY <1>3, <1>5
<1> HIDE DEF total, a
<1>8. QED
  BY <1>1, <1>2, <1>3, <1>4, <1>5, <1>6, <1>7

Segments(l) == {CodeSegment(l), InitData(l), ReadonlyData(l)}

LEMMA SegmentsHavePages ==
  ASSUME NEW l \in Layout, NEW seg \in Segments(l)
  PROVE  /\ seg \in Segment
         /\ HasPages(seg, NumPages(l))
         /\ seg.size # 0 =>
              \A part \in Parts(seg) : /\ part.va \in Nat /\ part.size \in Nat
                                       /\ part.va \div PageSize \in 0 .. NumPages(l) - 1
<1>1. /\ l.code \in Nat /\ l.rdata \in Nat /\ l.data \in Nat /\ l.bss \in Nat
      /\ UserStackSize \in Nat
  BY SpaceAssumption
<1>2. seg \in Segment /\ seg.va + seg.size <= FileLength(l)
  BY <1>1 DEF Segments, CodeSegment, InitData, ReadonlyData, Segment, FileLength
<1>3. seg.va + seg.size + UserStackSize <= PageSize * NumPages(l)
  <2>1. /\ seg.va + seg.size \in Nat /\ FileLength(l) \in Nat
        /\ PageSize * NumPages(l) \in Int
    BY <1>2, NumPagesBounds, SpaceAssumption DEF Segment
  <2>2. QED
    BY <1>1, <1>2, <2>1, NumPagesBounds
<1>4. seg.size # 0 =>
        \A part \in Parts(seg) : /\ part.va \in Nat /\ part.size \in Nat
                                 /\ part.va \div PageSize \in 0 .. NumPages(l) - 1
  BY <1>2, <1>3, NumPagesBounds, PartsHavePages
<1>5. HasPages(seg, NumPages(l))
  BY <1>4, NumPagesBounds DEF HasPages
<1>6. QED
  BY <1>2, <1>4, <1>5

\* A page that becomes read-only is a page of the table, and no address that may
\* be written is on it.
LEMMA ProtectedPagesAreReadOnlyData ==
  ASSUME NEW l \in Layout, NEW page \in ProtectedPages(ReadonlyData(l))
  PROVE  /\ page \in 0 .. NumPages(l) - 1
         /\ \A va \in MayWrite(l) : va \div PageSize # page
<1> DEFINE seg == ReadonlyData(l)
<1>1. /\ l.code \in Nat /\ l.rdata \in Nat /\ l.data \in Nat /\ l.bss \in Nat
      /\ UserStackSize \in Nat /\ PageSize \in Nat \ {0}
  BY SpaceAssumption
<1>2. seg \in Segment /\ seg.va + seg.size = l.code + l.rdata
  BY <1>1 DEF ReadonlyData, Segment
<1>3. page \in Nat /\ PageSize * page + PageSize <= l.code + l.rdata
  BY <1>2, ProtectedPagesAreItsOwn DEF ProtectedPages
<1>4. page < NumPages(l)
  <2>1. l.code + l.rdata <= FileLength(l)
    BY <1>1 DEF FileLength
  <2>2. /\ PageSize * page \in Nat /\ PageSize * NumPages(l) \in Nat
        /\ NumPages(l) \in Nat /\ FileLength(l) \in Nat
    BY <1>1, <1>3, NumPagesBounds
  <2>3. PageSize * page < PageSize * NumPages(l)
    BY <1>1, <1>3, <2>1, <2>2, NumPagesBounds
  <2>4. ASSUME page >= NumPages(l) PROVE PageSize * page >= PageSize * NumPages(l)
    BY <1>1, <1>3, <2>2, <2>4
  <2>5. QED
    BY <1>3, <2>2, <2>3, <2>4
<1>5. ASSUME NEW va \in MayWrite(l), va \div PageSize = page
      PROVE  FALSE
  <2>1. va \in Nat /\ va >= l.code + l.rdata
    <3>1. PageSize * NumPages(l) \in Int /\ NumPages(l) * PageSize \in Int
      BY <1>1, NumPagesBounds
    <3>2. QED
      BY <1>1, <3>1 DEF MayWrite
  <2>2. va < PageSize * page + PageSize
    BY <1>5, <2>1, Divide
  <2>3. PageSize * page \in Int
    BY <1>1, <1>3
  <2>4. QED
    BY <1>1, <1>3, <2>1, <2>2, <2>3
<1>6. QED
  BY <1>3, <1>4, <1>5, NumPagesBounds

LEMMA WritableAddressesHavePages ==
  ASSUME NEW l \in Layout, NEW va \in MayWrite(l)
  PROVE  va \in Nat /\ va \div PageSize \in 0 .. NumPages(l) - 1
<1>1. l.code \in Nat /\ l.rdata \in Nat /\ PageSize \in Nat \ {0} /\ NumPages(l) \in Nat
  BY SpaceAssumption, NumPagesBounds
<1>2. NumPages(l) * PageSize = PageSize * NumPages(l) /\ NumPages(l) * PageSize \in Int
  BY <1>1
<1>3. va \in Nat /\ va < PageSize * NumPages(l)
  BY <1>1, <1>2 DEF MayWrite
<1>4. va \div PageSize \in Nat /\ va \div PageSize < NumPages(l)
  BY <1>1, <1>3, Divide, PageBelow
<1>5. QED
  BY <1>1, <1>3, <1>4

-------------------------------------------------------------------------------
(* The invariant *)

(***************************************************************************)
(* The tables are there from Load on and are as long as the program needs, *)
(* the read-only bits are those Load set, and the machine uses the table   *)
(* of the program that runs.                                               *)
(***************************************************************************)
TablesInv ==
  /\ pageTable = [p \in Process |-> pageTable[p]]
  /\ readOnly = [p \in Process |-> readOnly[p]]
  /\ \A p \in Process :
       status[p] = "running" =>
         /\ layout[p] \in Layout
         /\ DOMAIN pageTable[p] = 0 .. NumPages(layout[p]) - 1
         /\ readOnly[p] = ProtectedPages(ReadonlyData(layout[p]))
  /\ current \in Process /\ status[current] = "running" => machineTable = current

Inv == TypeOK /\ FramesHaveOneOwner /\ LegalStoresSucceed /\ TablesInv

LEMMA WordUnchanged ==
  ASSUME layout' = layout
  PROVE  Word' = Word
BY DEF Word, Executable, FileLength

LEMMA InitInv == Init => Inv
<1> SUFFICES ASSUME Init PROVE Inv
  OBVIOUS
<1> USE DEF Init
<1>1. Cardinality(Free) = NumPhysPages
  <2>1. Free = 0 .. NumPhysPages - 1
    BY DEF Free, Frame
  <2>2. NumPhysPages - 1 \in Int /\ 0 \in Int
    BY SpaceAssumption
  <2>3. Cardinality(0 .. NumPhysPages - 1) =
          IF 0 > NumPhysPages - 1 THEN 0 ELSE (NumPhysPages - 1) - 0 + 1
    BY <2>2, FS_Interval
  <2>4. QED
    BY <2>1, <2>3, SpaceAssumption
<1>2. \A p \in Process : DOMAIN pageTable[p] = {} /\ readOnly[p] = {}
  OBVIOUS
<1>3. TypeOK
  <2>1. numAvailPhysPage \in 0 .. NumPhysPages
    BY SpaceAssumption
  <2>2. mainMemory \in [0 .. NumPhysPages * PageSize - 1 -> Word]
    BY DEF Word
  <2>3. QED
    BY <1>2, <2>1, <2>2 DEF TypeOK
<1>4. FramesHaveOneOwner
  BY <1>1, <1>2 DEF FramesHaveOneOwner
<1>5. LegalStoresSucceed
  BY DEF LegalStoresSucceed
<1>6. TablesInv
  BY SpaceAssumption DEF TablesInv
<1>7. QED
  BY <1>3, <1>4, <1>5, <1>6 DEF Inv

\* A step that leaves the frames and the tables as they are.
LEMMA FramesUnchanged ==
  ASSUME FramesHaveOneOwner, UNCHANGED <<usedPhysPage, numAvailPhysPage, pageTable>>
  PROVE  FramesHaveOneOwner'
BY DEF FramesHaveOneOwner, Free, Frame

LEMMA DispatchKeepsInv ==
  ASSUME Inv, NEW p \in Process, Dispatch(p)
  PROVE  Inv'
<1> USE DEF Dispatch
<1>1. TypeOK'
  BY WordUnchanged DEF Inv, TypeOK
<1>2. FramesHaveOneOwner'
  BY FramesUnchanged DEF Inv
<1>3. LegalStoresSucceed'
  BY DEF Inv, LegalStoresSucceed
<1>4. TablesInv'
  BY DEF Inv, TablesInv, TypeOK
<1>5. QED
  BY <1>1, <1>2, <1>3, <1>4 DEF Inv

LEMMA LoadFailsKeepsInv ==
  ASSUME Inv, NEW p \in Process, LoadFails(p)
  PROVE  Inv'
<1> USE DEF LoadFails
<1>1. TypeOK'
  BY WordUnchanged DEF Inv, TypeOK
<1>2. FramesHaveOneOwner'
  BY FramesUnchanged DEF Inv
<1>3. LegalStoresSucceed'
  BY DEF Inv, LegalStoresSucceed
<1>4. TablesInv'
  BY DEF Inv, TablesInv, TypeOK
<1>5. QED
  BY <1>1, <1>2, <1>3, <1>4 DEF Inv

LEMMA MemoryLimitKeepsInv ==
  ASSUME Inv, NEW p \in Process, MemoryLimit(p)
  PROVE  Inv'
<1> USE DEF MemoryLimit
<1>1. TypeOK'
  BY WordUnchanged DEF Inv, TypeOK
<1>2. FramesHaveOneOwner'
  BY FramesUnchanged DEF Inv
<1>3. LegalStoresSucceed'
  BY DEF LegalStoresSucceed
<1>4. TablesInv'
  BY DEF Inv, TablesInv
<1>5. QED
  BY <1>1, <1>2, <1>3, <1>4 DEF Inv

LEMMA ExitKeepsInv ==
  ASSUME Inv, NEW p \in Process, Exit(p)
  PROVE  Inv'
<1> USE DEF Exit
<1>1. TypeOK'
  BY WordUnchanged DEF Inv, TypeOK
<1>2. FramesHaveOneOwner'
  BY FramesUnchanged DEF Inv
<1>3. LegalStoresSucceed'
  BY DEF Inv, LegalStoresSucceed
<1>4. TablesInv'
  BY DEF Inv, TablesInv, TypeOK
<1>5. QED
  BY <1>1, <1>2, <1>3, <1>4 DEF Inv

\* A program may store where it does: its page is in the table of the machine
\* and is not read-only.
LEMMA StoreKeepsInv ==
  ASSUME Inv, NEW p \in Executable, NEW va \in MayWrite(layout[p]), Store(p, va)
  PROVE  Inv'
<1> DEFINE table == pageTable[machineTable]
           page  == va \div PageSize
<1>1. p \in Process /\ status[p] = "running" /\ current = p /\ halted = "no"
  BY DEF Store, Executable
<1>2. /\ machineTable = p /\ layout[p] \in Layout
      /\ DOMAIN pageTable[p] = 0 .. NumPages(layout[p]) - 1
      /\ readOnly[p] = ProtectedPages(ReadonlyData(layout[p]))
  BY <1>1 DEF Inv, TablesInv
<1>3. page \in DOMAIN table
  BY <1>2, WritableAddressesHavePages
<1>4. page \notin readOnly[machineTable]
  BY <1>2, ProtectedPagesAreReadOnlyData
<1>5. /\ mainMemory' = [mainMemory EXCEPT ![Physical(table, va)] = Stored(p)]
      /\ UNCHANGED <<layout, usedPhysPage, numAvailPhysPage, pageTable, readOnly, status,
                     current, machineTable, halted>>
  BY <1>3, <1>4 DEF Store
<1>6. Stored(p) \in Word
  <2>1. FileLength(layout[p]) \in 0 .. FileLength(layout[p])
    BY <1>2, NumPagesBounds
  <2>2. QED
    BY <2>1 DEF Stored, Word
<1>7. TypeOK'
  BY <1>5, <1>6, WordUnchanged DEF Inv, TypeOK
<1>8. FramesHaveOneOwner'
  BY <1>5, FramesUnchanged DEF Inv
<1>9. LegalStoresSucceed'
  BY <1>5 DEF Inv, LegalStoresSucceed
<1>10. TablesInv'
  BY <1>5 DEF Inv, TablesInv
<1>11. QED
  BY <1>7, <1>8, <1>9, <1>10 DEF Inv

-------------------------------------------------------------------------------
(* Load *)

\* What is read into memory are words of the program's file.
LEMMA LoadDataType ==
  ASSUME NEW memory, NEW A, memory \in [A -> Word], A \subseteq Int,
         NEW p \in Executable, NEW n, NEW table, NEW seg,
         \A i \in 0 .. n - 1 : table[i] \in Frame,
         seg.size # 0 => \A part \in Parts(seg) : /\ part.va \in Nat /\ part.size \in Nat
                                                  /\ part.va \div PageSize \in 0 .. n - 1,
         FileLength(layout[p]) \in Nat
  PROVE  LoadData(memory, p, table, seg) \in [A -> Word]
<1>1. CASE seg.size = 0
  BY <1>1 DEF LoadData
<1>2. CASE seg.size # 0
  <2>0. \A part \in Parts(seg) :
          part.va \in Nat /\ part.size \in Nat /\ part.va \div PageSize \in 0 .. n - 1
    BY <1>2
  <2> DEFINE Hits(a) == {part \in Parts(seg) :
               LET from == Physical(table, part.va)
               IN  a \in from .. from + part.size - 1
                   /\ part.va + (a - from) < FileLength(layout[p])}
             Chosen(a) == CHOOSE part \in Hits(a) : TRUE
  <2>1. LoadData(memory, p, table, seg) =
          [a \in A |-> IF Hits(a) = {} THEN memory[a]
                       ELSE <<p, Chosen(a).va + (a - Physical(table, Chosen(a).va))>>]
    BY <1>2, Zenon DEF LoadData, ReadIn
  <2>2. ASSUME NEW a \in A, NEW part \in Hits(a)
        PROVE  <<p, part.va + (a - Physical(table, part.va))>> \in Word
    <3> DEFINE from == Physical(table, part.va)
    <3>1. /\ part \in Parts(seg)
          /\ part.va + (a - from) < FileLength(layout[p])
          /\ a \in from .. from + part.size - 1
      OBVIOUS
    <3>2. part.va \in Nat /\ part.size \in Nat /\ part.va \div PageSize \in 0 .. n - 1
      BY <2>0, <3>1
    <3>3. from \in Int
      <4>1. table[part.va \div PageSize] \in Int
        <5>1. table[part.va \div PageSize] \in Frame
          BY <3>2
        <5>2. Frame \subseteq Int
          BY SpaceAssumption DEF Frame
        <5>3. QED
          BY <5>1, <5>2
      <4>2. part.va % PageSize \in Int
        BY <3>2, Divide
      <4>3. \A f, r \in Int : f * PageSize + r \in Int
        BY SpaceAssumption
      <4>4. QED
        BY <4>1, <4>2, <4>3 DEF Physical
    <3> HIDE DEF from
    <3>4. part.va + (a - from) \in 0 .. FileLength(layout[p])
      BY <3>1, <3>2, <3>3
    <3>5. <<p, part.va + (a - from)>> \in Word
      BY <3>4 DEF Word
    <3>6. QED
      BY <3>5 DEF from
  <2>3. ASSUME NEW a \in A, Hits(a) # {}
        PROVE  <<p, Chosen(a).va + (a - Physical(table, Chosen(a).va))>> \in Word
    <3>1. Chosen(a) \in Hits(a)
      BY <2>3
    <3> HIDE DEF Hits, Chosen
    <3>2. QED
      BY <2>2, <3>1
  <2>4. QED
    BY <2>1, <2>3
<1>3. QED
  BY <1>1, <1>2

LEMMA FreeIsBounded == Cardinality(Free) <= NumPhysPages
<1>1. IsFiniteSet(0 .. NumPhysPages - 1)
      /\ Cardinality(0 .. NumPhysPages - 1) = IF 0 > NumPhysPages - 1 THEN 0
                                              ELSE (NumPhysPages - 1) - 0 + 1
  <2>1. NumPhysPages - 1 \in Int /\ 0 \in Int
    BY SpaceAssumption
  <2>2. QED
    BY <2>1, FS_Interval
<1>2. Free \in SUBSET (0 .. NumPhysPages - 1)
  BY DEF Free, Frame
<1>3. Cardinality(Free) <= Cardinality(0 .. NumPhysPages - 1)
  BY <1>1, <1>2, FS_Subset
<1>4. QED
  BY <1>1, <1>3, SpaceAssumption

LEMMA LoadKeepsInv ==
  ASSUME Inv, NEW p \in Executable, Load(p)
  PROVE  Inv'
<1> DEFINE l == layout[p]
           n == NumPages(l)
           table == [i \in 0 .. n - 1 |-> FrameOf(i)]
           taken == {table[i] : i \in DOMAIN table}
           A == 0 .. NumPhysPages * PageSize - 1
           zeroed == [a \in DOMAIN mainMemory |->
                        IF \E i \in DOMAIN table : a \div PageSize = table[i]
                        THEN Zero ELSE mainMemory[a]]
           withCode == LoadData(zeroed, p, table, CodeSegment(l))
           withData == LoadData(withCode, p, table, InitData(l))
           loaded == LoadData(withData, p, table, ReadonlyData(l))
<1>1. p \in Process /\ l \in Layout /\ current = p /\ halted = "no"
  BY DEF Load, Executable, Inv, TypeOK
<1>2. n \in Nat /\ FileLength(l) \in Nat
  BY <1>1, NumPagesBounds
<1>3. \A seg \in Segments(l) : HasPages(seg, n)
  BY <1>1, SegmentsHavePages
<1>4. /\ n <= numAvailPhysPage
      /\ pageTable' = [pageTable EXCEPT ![p] = table]
      /\ usedPhysPage' = usedPhysPage \cup taken
      /\ numAvailPhysPage' = numAvailPhysPage - n
      /\ mainMemory' = loaded
      /\ readOnly' = [readOnly EXCEPT ![p] = ProtectedPages(ReadonlyData(l))]
      /\ status' = [status EXCEPT ![p] = "running"]
      /\ machineTable' = p
      /\ UNCHANGED <<halted, layout, current>>
  BY <1>3, Zenon DEF Load, MarkUsed, Segments
<1>5. numAvailPhysPage = Cardinality(Free) /\ usedPhysPage \subseteq Frame
  BY DEF Inv, FramesHaveOneOwner, TypeOK
<1>6. /\ taken \subseteq Free
      /\ \A i, j \in DOMAIN table : table[i] = table[j] => i = j
      /\ Cardinality(Free \ taken) = Cardinality(Free) - n
  <2> HIDE DEF n
  <2>1. QED
    BY <1>2, <1>4, <1>5, TakenFrames
<1>7. \A i \in 0 .. n - 1 : table[i] \in Free /\ table[i] \in Frame
  BY <1>6 DEF Free
<1>8. mainMemory' \in [A -> Word]
  <2>1. /\ Segments(l) \subseteq Segment
        /\ \A seg \in Segments(l) : seg.size # 0 =>
             \A part \in Parts(seg) : /\ part.va \in Nat /\ part.size \in Nat
                                      /\ part.va \div PageSize \in 0 .. n - 1
    BY <1>1, SegmentsHavePages
  <2>2. zeroed \in [A -> Word]
    BY DEF Inv, TypeOK, Word
  <2>3. A \subseteq Int
    OBVIOUS
  <2>4. {CodeSegment(l), InitData(l), ReadonlyData(l)} = Segments(l)
    BY DEF Segments
  <2> HIDE DEF table, zeroed, withCode, withData, n, A, l
  <2>5. withCode \in [A -> Word]
    BY <1>2, <1>7, <2>1, <2>2, <2>3, <2>4, LoadDataType DEF withCode, l
  <2>6. withData \in [A -> Word]
    BY <1>2, <1>7, <2>1, <2>3, <2>4, <2>5, LoadDataType DEF withData, l
  <2>7. loaded \in [A -> Word]
    BY <1>2, <1>7, <2>1, <2>3, <2>4, <2>6, LoadDataType DEF l
  <2>8. QED
    BY <1>4, <2>7
<1>9. /\ \A q \in Process \ {p} : pageTable'[q] = pageTable[q] /\ readOnly'[q] = readOnly[q]
      /\ pageTable'[p] = table /\ readOnly'[p] = ProtectedPages(ReadonlyData(l))
      /\ pageTable' = [q \in Process |-> pageTable'[q]]
      /\ readOnly' = [q \in Process |-> readOnly'[q]]
  BY <1>1, <1>4 DEF Inv, TablesInv
<1>10. FramesHaveOneOwner'
  <2>1. Free' = Free \ taken
    BY <1>4 DEF Free, Frame
  <2>2. numAvailPhysPage' = Cardinality(Free')
    BY <1>4, <1>5, <1>6, <2>1
  <2>3. \A q \in Process \ {p} : \A i \in DOMAIN pageTable[q] :
          pageTable[q][i] \in usedPhysPage /\ pageTable[q][i] \notin taken
    BY <1>6 DEF Inv, FramesHaveOneOwner, Free
  <2>4. \A q \in Process : \A i \in DOMAIN pageTable'[q] : pageTable'[q][i] \in usedPhysPage'
    <3> HIDE DEF table
    <3>1. \A i \in DOMAIN table : table[i] \in usedPhysPage'
      BY <1>4
    <3>2. QED
      BY <1>4, <1>9, <2>3, <3>1
  <2>5. ASSUME NEW q \in Process, NEW r \in Process,
               NEW i \in DOMAIN pageTable'[q], NEW j \in DOMAIN pageTable'[r],
               pageTable'[q][i] = pageTable'[r][j]
        PROVE  q = r /\ i = j
    <3> HIDE DEF table
    <3>1. CASE q = p /\ r = p
      BY <1>6, <1>9, <2>5, <3>1
    <3>2. CASE q # p /\ r # p
      BY <1>9, <2>5, <3>2 DEF Inv, FramesHaveOneOwner
    <3>3. CASE q = p /\ r # p
      BY <1>9, <2>3, <2>5, <3>3
    <3>4. CASE q # p /\ r = p
      BY <1>9, <2>3, <2>5, <3>4
    <3>5. QED
      BY <3>1, <3>2, <3>3, <3>4
  <2>6. QED
    BY <2>2, <2>4, <2>5, Zenon DEF FramesHaveOneOwner
<1>11. TypeOK'
  <2>1. Word' = Word
    BY <1>4, WordUnchanged
  <2>2. usedPhysPage' \subseteq Frame
    BY <1>4, <1>5, <1>6 DEF Free
  <2>3. numAvailPhysPage' \in 0 .. NumPhysPages
    BY <1>2, <1>4, <1>5, FreeIsFinite, FreeIsBounded, SpaceAssumption
  <2>4. ASSUME NEW q \in Process
        PROVE  /\ \A i \in DOMAIN pageTable'[q] : pageTable'[q][i] \in Frame
               /\ readOnly'[q] \subseteq DOMAIN pageTable'[q]
    <3>1. CASE q # p
      <4>1. pageTable'[q] = pageTable[q] /\ readOnly'[q] = readOnly[q]
        BY <1>9, <3>1
      <4>2. /\ \A i \in DOMAIN pageTable[q] : pageTable[q][i] \in Frame
            /\ readOnly[q] \subseteq DOMAIN pageTable[q]
        BY DEF Inv, TypeOK
      <4>3. QED
        BY <4>1, <4>2, Zenon
    <3>2. CASE q = p
      <4>1. ProtectedPages(ReadonlyData(l)) \subseteq 0 .. n - 1
        BY <1>1, ProtectedPagesAreReadOnlyData
      <4>2. QED
        BY <1>7, <1>9, <3>2, <4>1
    <3>3. QED
      BY <3>1, <3>2
  <2>5. /\ layout' \in [Process -> Layout \cup {NoFile}]
        /\ mainMemory' \in [0 .. NumPhysPages * PageSize - 1 -> Word']
        /\ status' \in [Process -> {"new", "begun", "running", "done"}]
        /\ {current', machineTable'} \subseteq Process \cup {Main}
        /\ halted' \in {"no", "MemoryLimitException", "AddressErrorException",
                        "ReadOnlyException"}
    <3> HIDE DEF loaded
    <3>1. QED
      BY <1>1, <1>4, <1>8, <2>1 DEF Inv, TypeOK
  <2>6. QED
    BY <2>2, <2>3, <2>4, <2>5, Zenon DEF TypeOK, Frame
<1>12. LegalStoresSucceed'
  BY <1>1, <1>4 DEF LegalStoresSucceed
<1>13. TablesInv'
  <2> HIDE DEF loaded
  <2>1. \A q \in Process \ {p} : status'[q] = status[q]
    BY <1>4 DEF Inv, TypeOK
  <2>2. \A q \in Process : status'[q] = "running" =>
          /\ layout'[q] \in Layout
          /\ DOMAIN pageTable'[q] = 0 .. NumPages(layout'[q]) - 1
          /\ readOnly'[q] = ProtectedPages(ReadonlyData(layout'[q]))
    <3>1. ASSUME NEW q \in Process \ {p}, status'[q] = "running"
          PROVE  /\ layout'[q] \in Layout
                 /\ DOMAIN pageTable'[q] = 0 .. NumPages(layout'[q]) - 1
                 /\ readOnly'[q] = ProtectedPages(ReadonlyData(layout'[q]))
      BY <1>4, <1>9, <2>1, <3>1 DEF Inv, TablesInv
    <3>2. /\ layout'[p] \in Layout
          /\ DOMAIN pageTable'[p] = 0 .. NumPages(layout'[p]) - 1
          /\ readOnly'[p] = ProtectedPages(ReadonlyData(layout'[p]))
      BY <1>1, <1>4, <1>9
    <3>3. QED
      BY <3>1, <3>2
  <2>3. QED
    BY <1>1, <1>4, <1>9, <2>2 DEF TablesInv
<1>14. QED
  BY <1>10, <1>11, <1>12, <1>13 DEF Inv

-------------------------------------------------------------------------------
LEMMA NextKeepsInv == Inv /\ [Next]_vars => Inv'
<1> SUFFICES ASSUME Inv, [Next]_vars PROVE Inv'
  OBVIOUS
<1>1. ASSUME NEW p \in Process, Dispatch(p) PROVE Inv'
  BY <1>1, DispatchKeepsInv
<1>2. ASSUME NEW p \in Process, LoadFails(p) PROVE Inv'
  BY <1>2, LoadFailsKeepsInv
<1>3. ASSUME NEW p \in Executable, Load(p) PROVE Inv'
  BY <1>3, LoadKeepsInv
<1>4. ASSUME NEW p \in Executable, MemoryLimit(p) PROVE Inv'
  BY <1>4, MemoryLimitKeepsInv DEF Executable
<1>5. ASSUME NEW p \in Executable, Exit(p) PROVE Inv'
  BY <1>5, ExitKeepsInv DEF Executable
<1>6. ASSUME NEW p \in Executable, NEW va \in MayWrite(layout[p]), Store(p, va) PROVE Inv'
  BY <1>6, StoreKeepsInv
<1>7. CASE UNCHANGED vars
  <2> USE <1>7 DEF vars
  <2>1. TypeOK'
    BY WordUnchanged DEF Inv, TypeOK
  <2>2. FramesHaveOneOwner'
    BY FramesUnchanged DEF Inv
  <2>3. LegalStoresSucceed' /\ TablesInv'
    BY DEF Inv, LegalStoresSucceed, TablesInv
  <2>4. QED
    BY <2>1, <2>2, <2>3 DEF Inv
<1>8. QED
  BY <1>1, <1>2, <1>3, <1>4, <1>5, <1>6, <1>7 DEF Next

(***************************************************************************)
(* Inv is an invariant of AddrSpace (addrspace.cc, Load to RestoreState):  *)
(* frames and tables agree and the machine uses the table of the program   *)
(* that runs.                                                              *)
(***************************************************************************)
THEOREM Invariance == Spec => []Inv
BY InitInv, NextKeepsInv, PTL DEF Spec

(***************************************************************************)
(* Every variable keeps its type; memory holds words of program files.     *)
(***************************************************************************)
THEOREM TypesHold == Spec => []TypeOK
<1>1. Inv => TypeOK
  BY DEF Inv
<1>2. QED
  BY <1>1, Invariance, PTL

(***************************************************************************)
(* No frame is a page of two programs or twice of one, and the counter     *)
(* Load decides by is the number of free frames.                           *)
(***************************************************************************)
THEOREM FramesAreOwned == Spec => []FramesHaveOneOwner
<1>1. Inv => FramesHaveOneOwner
  BY DEF Inv
<1>2. QED
  BY <1>1, Invariance, PTL

(***************************************************************************)
(* No program is killed for a store to its data, bss or stack, whatever    *)
(* the sizes of its segments, as long as the stack is at least a page.     *)
(***************************************************************************)
THEOREM StoresSucceed == Spec => []LegalStoresSucceed
<1>1. Inv => LegalStoresSucceed
  BY DEF Inv
<1>2. QED
  BY <1>1, Invariance, PTL

-------------------------------------------------------------------------------
(* AddrSpace implements PrivateMemory: addresses *)

LEMMA DivideUnique ==
  ASSUME NEW f \in Nat, NEW r \in 0 .. PageSize - 1
  PROVE  /\ (f * PageSize + r) \div PageSize = f
         /\ (PageSize * f + r) \div PageSize = f
         /\ (PageSize * f + r) % PageSize = r
<1>1. PageSize \in Nat /\ PageSize > 0 /\ r \in Nat /\ r < PageSize
  BY SpaceAssumption
<1>2. f * PageSize + r = PageSize * f + r /\ PageSize * f + r \in Nat
  BY <1>1
<1>3. (PageSize * f + r) \div PageSize = f /\ (PageSize * f + r) % PageSize = r
  BY <1>1, <1>2
<1>4. QED
  BY <1>2, <1>3

\* The physical address of va is on the frame of its page, at the same offset.
LEMMA PhysicalIsOnItsFrame ==
  ASSUME NEW table, NEW va \in Nat, table[va \div PageSize] \in Frame
  PROVE  /\ Physical(table, va) \in 0 .. NumPhysPages * PageSize - 1
         /\ Physical(table, va) \div PageSize = table[va \div PageSize]
         /\ Physical(table, va) = PageSize * table[va \div PageSize] + (va % PageSize)
<1> DEFINE f == table[va \div PageSize]
           r == va % PageSize
<1>1. /\ f \in Nat /\ f + 1 <= NumPhysPages /\ r \in 0 .. PageSize - 1
      /\ PageSize \in Nat \ {0} /\ NumPhysPages \in Nat
  <2>1. PageSize \in Nat \ {0} /\ NumPhysPages \in Nat
    BY SpaceAssumption
  <2>2. r \in 0 .. PageSize - 1
    BY Divide
  <2>3. f \in 0 .. NumPhysPages - 1
    BY DEF Frame
  <2>4. f \in Nat /\ f + 1 <= NumPhysPages
    BY <2>1, <2>3
  <2>5. QED
    BY <2>1, <2>2, <2>4
<1>2. Physical(table, va) = f * PageSize + r
  BY DEF Physical
<1> HIDE DEF f, r
<1>3. (f * PageSize + r) \div PageSize = f
  BY <1>1, DivideUnique
<1>4. (f + 1) * PageSize <= NumPhysPages * PageSize
  BY <1>1
<1>5. f * PageSize + r \in 0 .. NumPhysPages * PageSize - 1
  <2>1. f * PageSize \in Nat /\ NumPhysPages * PageSize \in Int
        /\ (f + 1) * PageSize = f * PageSize + PageSize
    BY <1>1
  <2>2. QED
    BY <1>1, <1>4, <2>1
<1>6. f * PageSize + r = PageSize * f + r
  BY <1>1
<1>7. /\ Physical(table, va) \in 0 .. NumPhysPages * PageSize - 1
      /\ Physical(table, va) \div PageSize = f
      /\ Physical(table, va) = PageSize * f + r
  BY <1>2, <1>3, <1>5, <1>6
<1>8. QED
  BY <1>7 DEF f, r

\* Two addresses with one physical address are on one frame, and the same if
\* they are on one page.
LEMMA PhysicalIsInjective ==
  ASSUME NEW s, NEW t, NEW va \in Nat, NEW vb \in Nat,
         s[va \div PageSize] \in Frame, t[vb \div PageSize] \in Frame,
         Physical(s, va) = Physical(t, vb)
  PROVE  /\ s[va \div PageSize] = t[vb \div PageSize]
         /\ va \div PageSize = vb \div PageSize => va = vb
<1>1. s[va \div PageSize] = t[vb \div PageSize]
  BY PhysicalIsOnItsFrame
<1> DEFINE f == s[va \div PageSize]
           q == va \div PageSize
           i == va % PageSize
           j == vb % PageSize
<1>2. PageSize \in Nat \ {0} /\ f \in Nat /\ i \in Int /\ j \in Int
  BY SpaceAssumption, Divide DEF Frame
<1>3. PageSize * f + i = PageSize * f + j
  <2>1. Physical(s, va) = PageSize * f + i
    BY PhysicalIsOnItsFrame
  <2>2. Physical(t, vb) = PageSize * f + j
    BY <1>1, PhysicalIsOnItsFrame
  <2> HIDE DEF f, i, j
  <2>3. QED
    BY <2>1, <2>2
<1>4. i = j
  <2> HIDE DEF f, i, j
  <2>1. PageSize * f \in Int
    BY <1>2
  <2>2. QED
    BY <1>2, <1>3, <2>1
<1>5. ASSUME va \div PageSize = vb \div PageSize PROVE va = vb
  <2>1. i = va - PageSize * q /\ j = vb - PageSize * q /\ q \in Nat
    BY <1>5, Divide
  <2> DEFINE x == PageSize * q
  <2> HIDE DEF i, j, q
  <2>2. x \in Int
    BY <1>2, <2>1
  <2>3. i = va - x /\ j = vb - x
    BY <2>1
  <2> HIDE DEF x
  <2>4. va - x = vb - x
    BY <1>4, <2>3
  <2>5. QED
    BY <2>2, <2>4
<1>6. QED
  BY <1>1, <1>5

-------------------------------------------------------------------------------
(* The parts of a segment *)

LEMMA PartIsOnOnePage ==
  ASSUME NEW seg \in Segment, NEW part \in Parts(seg)
  PROVE  /\ part.va \in Nat /\ part.size \in 0 .. PageSize
         /\ (part.va % PageSize) + part.size <= PageSize
<1> DEFINE F == FirstPart(seg)
           W == WholePages(seg)
<1>1. seg.va \in Nat /\ PageSize \in Nat \ {0} /\ F \in 0 .. PageSize - 1 /\ W \in Nat
  BY SpaceAssumption, FirstPartBounds, WholePagesBounds DEF Segment
<1>2. PICK q \in Nat : seg.va + F = PageSize * q
  BY FirstPartBounds
<1>3. CASE part = [va |-> seg.va, size |-> F]
  <2> DEFINE k == seg.va \div PageSize
             s == seg.va % PageSize
  <2>1. k \in Nat /\ s \in 0 .. PageSize - 1 /\ s = seg.va - PageSize * k
    BY <1>1, Divide
  <2> HIDE DEF F, k, s
  <2>2. s + F = PageSize * (q - k)
    <3>1. PageSize * q \in Int /\ PageSize * k \in Int
          /\ PageSize * (q - k) = PageSize * q - PageSize * k
      BY <1>1, <2>1
    <3>2. QED
      BY <1>1, <1>2, <2>1, <3>1
  <2>3. q - k <= 1
    <3>1. ASSUME q - k >= 2 PROVE PageSize * (q - k) >= PageSize * 2
      BY <1>1, <2>1, <3>1
    <3>2. PageSize * (q - k) \in Int /\ PageSize * 2 = PageSize + PageSize
      BY <1>1, <2>1
    <3>3. QED
      BY <1>1, <2>1, <2>2, <3>1, <3>2
  <2>4. PageSize * (q - k) <= PageSize * 1
    BY <1>1, <2>1, <2>3
  <2>5. s + F <= PageSize
    BY <1>1, <2>2, <2>4
  <2>6. part.va % PageSize = s /\ part.size = F /\ part.va = seg.va
    BY <1>3 DEF s
  <2>7. QED
    BY <1>1, <2>5, <2>6
<1>4. ASSUME NEW k \in 0 .. W, part = [va |-> seg.va + F + k * PageSize, size |-> PageSize]
      PROVE  /\ part.va \in Nat /\ part.size \in 0 .. PageSize
             /\ (part.va % PageSize) + part.size <= PageSize
  <2> HIDE DEF F, W
  <2>1. part.va = PageSize * (q + k) + 0 /\ part.size = PageSize /\ q + k \in Nat
    BY <1>1, <1>2, <1>4
  <2>2. part.va % PageSize = 0
    BY <1>1, <2>1, DivideUnique
  <2>3. part.va \in Nat
    BY <1>1, <2>1
  <2>4. QED
    BY <1>1, <2>1, <2>2, <2>3
<1>5. QED
  BY <1>3, <1>4 DEF Parts

LEMMA PartsCoverSegment ==
  ASSUME NEW seg \in Segment, NEW va \in seg.va .. seg.va + seg.size - 1
  PROVE  \E part \in Parts(seg) : va \in part.va .. part.va + part.size - 1
<1> DEFINE F == FirstPart(seg)
           W == WholePages(seg)
           second == seg.va + F
           k == (va - second) \div PageSize
<1>1. /\ seg.va \in Nat /\ seg.size \in Nat /\ PageSize \in Nat \ {0}
      /\ F \in 0 .. PageSize - 1 /\ W \in Nat /\ va \in Nat
  BY SpaceAssumption, FirstPartBounds, WholePagesBounds DEF Segment
<1>2. CASE va < second
  <2>1. [va |-> seg.va, size |-> F] \in Parts(seg)
    BY DEF Parts
  <2>2. va \in seg.va .. seg.va + F - 1
    BY <1>1, <1>2
  <2>3. QED
    BY <2>1, <2>2
<1>3. CASE va >= second
  <2> DEFINE d == va - second
             rest == seg.size - F
  <2>1. d \in Nat /\ d < rest /\ rest \in Nat
    BY <1>1, <1>3
  <2>2. k \in Nat /\ PageSize * k <= d /\ d < PageSize * k + PageSize
    <3>1. k = d \div PageSize
      OBVIOUS
    <3> HIDE DEF d, k
    <3>2. QED
      BY <2>1, <3>1, Divide
  <2>3. k <= W
    <3>1. W = IF rest < PageSize THEN 0 ELSE rest \div PageSize
      BY DEF WholePages
    <3> HIDE DEF rest, d, k, W
    <3>2. CASE rest < PageSize
      <4>1. ASSUME k >= 1 PROVE PageSize * k >= PageSize * 1
        BY <1>1, <2>2, <4>1
      <4>2. PageSize * k \in Int
        BY <1>1, <2>2
      <4>3. QED
        BY <1>1, <2>1, <2>2, <3>1, <3>2, <4>1, <4>2
    <3>3. CASE ~(rest < PageSize)
      <4>1. W = rest \div PageSize /\ W \in Nat /\ rest < PageSize * W + PageSize
        BY <2>1, <3>1, <3>3, Divide
      <4>2. ASSUME k >= W + 1 PROVE PageSize * k >= PageSize * (W + 1)
        BY <1>1, <2>2, <4>1, <4>2
      <4>3. /\ PageSize * (W + 1) = PageSize * W + PageSize
            /\ PageSize * k \in Int /\ PageSize * W \in Int
        BY <1>1, <2>2, <4>1
      <4>4. QED
        BY <1>1, <2>1, <2>2, <4>1, <4>2, <4>3
    <3>4. QED
      BY <3>2, <3>3
  <2>4. [va |-> second + k * PageSize, size |-> PageSize] \in Parts(seg)
    <3> HIDE DEF k, W
    <3>1. k \in 0 .. W
      BY <1>1, <2>2, <2>3
    <3>2. QED
      BY <3>1 DEF Parts, W
  <2>5. va \in second + k * PageSize .. second + k * PageSize + PageSize - 1
    <3>1. second \in Int /\ va = second + d
      BY <1>1
    <3> HIDE DEF d, k, second
    <3>2. k * PageSize = PageSize * k /\ PageSize * k \in Int
      BY <1>1, <2>2
    <3>3. QED
      BY <1>1, <2>1, <2>2, <3>1, <3>2
  <2> HIDE DEF k, second
  <2>6. QED
    BY <2>4, <2>5
<1>4. QED
  BY <1>1, <1>2, <1>3

-------------------------------------------------------------------------------
(* What is read where *)

\* A table of n pages on frames of their own.
IsTable(table, n) ==
  /\ DOMAIN table = 0 .. n - 1
  /\ \A i \in 0 .. n - 1 : table[i] \in Frame
  /\ \A i, j \in 0 .. n - 1 : table[i] = table[j] => i = j

\* A part that is read into memory reaches from its first word on into the
\* frame of its page only.
LEMMA HitIsOnFrame ==
  ASSUME NEW table, NEW seg \in Segment, NEW part \in Parts(seg),
         table[part.va \div PageSize] \in Frame,
         NEW a \in Physical(table, part.va) ..
                   Physical(table, part.va) + part.size - 1
  PROVE  a \div PageSize = table[part.va \div PageSize]
<1> DEFINE f == table[part.va \div PageSize]
           s == part.va % PageSize
           from == Physical(table, part.va)
           d == a - from
<1>1. /\ part.va \in Nat /\ part.size \in 0 .. PageSize /\ s + part.size <= PageSize
  BY PartIsOnOnePage
<1>2. from = PageSize * f + s /\ from \in Nat
  BY <1>1, PhysicalIsOnItsFrame
<1>3. s \in Nat /\ f \in Nat /\ PageSize \in Nat
  <2>1. f \in Nat
    BY SpaceAssumption DEF Frame
  <2>2. PageSize \in Nat
    BY SpaceAssumption
  <2>3. s \in Nat
    BY <1>1, Divide
  <2>4. QED
    BY <2>1, <2>2, <2>3
<1>4. d \in Nat /\ d < part.size /\ a = from + d
  BY <1>1, <1>2
<1> HIDE DEF s, f, d, from
<1>5. s + d \in 0 .. PageSize - 1
  BY <1>1, <1>3, <1>4
<1>6. a = PageSize * f + (s + d)
  <2>1. PageSize * f \in Int
    BY <1>3
  <2>2. QED
    BY <1>2, <1>3, <1>4, <2>1
<1>7. a \div PageSize = f
  BY <1>3, <1>5, <1>6, DivideUnique
<1>8. QED
  BY <1>7 DEF f

\* An address of the program is hit by the part it is in.
LEMMA HitIsInPart ==
  ASSUME NEW n \in Nat, NEW table, IsTable(table, n),
         NEW seg \in Segment, NEW part \in Parts(seg), part.va \div PageSize \in 0 .. n - 1,
         NEW va \in Nat, va \div PageSize \in 0 .. n - 1
  PROVE  LET from == Physical(table, part.va)
             a    == Physical(table, va)
         IN  /\ a \in from .. from + part.size - 1 => part.va + (a - from) = va
             /\ a \in from .. from + part.size - 1 <=>
                  va \in part.va .. part.va + part.size - 1
<1> DEFINE from == Physical(table, part.va)
           a    == Physical(table, va)
           s    == part.va % PageSize
           v    == va % PageSize
           p    == part.va \div PageSize
           q    == va \div PageSize
<1>1. /\ part.va \in Nat /\ part.size \in 0 .. PageSize /\ s + part.size <= PageSize
  BY PartIsOnOnePage
<1>2. /\ s \in 0 .. PageSize - 1 /\ v \in 0 .. PageSize - 1 /\ p \in Nat /\ q \in Nat
      /\ s = part.va - PageSize * p /\ v = va - PageSize * q
      /\ PageSize \in Nat \ {0}
  BY <1>1, Divide, SpaceAssumption
<1>3. /\ table[p] \in Frame /\ table[q] \in Frame /\ (table[p] = table[q] => p = q)
      /\ table[p] \in Nat /\ table[q] \in Nat
  BY DEF IsTable, Frame
<1>4. from = PageSize * table[p] + s /\ from \in Nat
  BY <1>1, <1>3, PhysicalIsOnItsFrame
<1>5. a = PageSize * table[q] + v /\ a \in Nat
  BY <1>3, PhysicalIsOnItsFrame
<1>6. ASSUME p = q
      PROVE  a - from = va - part.va
  <2> DEFINE x == PageSize * table[p]
             y == PageSize * p
  <2>1. x \in Int /\ y \in Int
    BY <1>2, <1>3
  <2>2. from = x + s /\ a = x + v /\ s = part.va - y /\ v = va - y
    BY <1>2, <1>4, <1>5, <1>6
  <2>3. s \in Int /\ v \in Int /\ part.va \in Int /\ va \in Int
    BY <1>1, <1>2
  <2> HIDE DEF x, y, a, from, s, v
  <2>4. QED
    BY <2>1, <2>2, <2>3
<1>7. ASSUME a \in from .. from + part.size - 1
      PROVE  p = q
  <2>1. a \div PageSize = table[p]
    BY <1>3, <1>7, HitIsOnFrame
  <2>2. a \div PageSize = table[q]
    BY <1>3, PhysicalIsOnItsFrame
  <2>3. QED
    BY <1>3, <2>1, <2>2
<1>8. ASSUME va \in part.va .. part.va + part.size - 1
      PROVE  p = q
  <2> DEFINE d == va - part.va
             y == PageSize * p
  <2>1. d \in Nat /\ d < part.size /\ va = part.va + d
    BY <1>1, <1>8
  <2>2. y \in Int /\ s = part.va - y
    BY <1>2
  <2> HIDE DEF s, d, y, p
  <2>3. s + d \in 0 .. PageSize - 1 /\ va = y + (s + d)
    BY <1>1, <1>2, <2>1, <2>2
  <2>4. va \div PageSize = p
    BY <1>2, <2>3, DivideUnique DEF y
  <2>5. QED
    BY <2>4
<1>9. a \in from .. from + part.size - 1 => part.va + (a - from) = va
  <2> HIDE DEF a, from, p, q
  <2>1. QED
    BY <1>1, <1>4, <1>5, <1>6, <1>7
<1>10. a \in from .. from + part.size - 1 <=> va \in part.va .. part.va + part.size - 1
  <2> HIDE DEF a, from, p, q
  <2>1. QED
    BY <1>1, <1>4, <1>5, <1>6, <1>7, <1>8
<1>11. QED
  BY <1>9, <1>10

-------------------------------------------------------------------------------
(* What LoadData leaves in memory *)

Addresses == 0 .. NumPhysPages * PageSize - 1

LEMMA LoadDataReads ==
  ASSUME NEW memory, DOMAIN memory = Addresses, NEW p \in Process, layout[p] \in Layout,
         NEW n \in Nat, NEW table, IsTable(table, n), NEW seg \in Segments(layout[p]),
         n = NumPages(layout[p])
  PROVE  LET loaded == LoadData(memory, p, table, seg)
             length == FileLength(layout[p])
         IN  /\ DOMAIN loaded = Addresses
             \* a word of the segment is the file's
             /\ \A va \in seg.va .. seg.va + seg.size - 1 :
                  va < length /\ va \div PageSize \in 0 .. n - 1 =>
                    loaded[Physical(table, va)] = <<p, va>>
             \* a word the file has is the file's or what it was
             /\ \A va \in Nat : va \div PageSize \in 0 .. n - 1 =>
                  \/ va < length /\ loaded[Physical(table, va)] = <<p, va>>
                  \/ loaded[Physical(table, va)] = memory[Physical(table, va)]
             \* a word on another frame is what it was
             /\ \A a \in Addresses :
                  (\A i \in 0 .. n - 1 : a \div PageSize # table[i]) => loaded[a] = memory[a]
<1> DEFINE loaded == LoadData(memory, p, table, seg)
           length == FileLength(layout[p])
           From(part) == Physical(table, part.va)
           Hits(a) == {part \in Parts(seg) :
             LET from == Physical(table, part.va)
             IN  a \in from .. from + part.size - 1
                 /\ part.va + (a - from) < FileLength(layout[p])}
           Chosen(a) == CHOOSE part \in Hits(a) : TRUE
<1>1. seg \in Segment /\ length \in Nat
  BY SegmentsHavePages, NumPagesBounds
<1>2. seg.va \in Nat /\ seg.size \in Nat
  BY <1>1 DEF Segment
<1>3. CASE seg.size = 0
  <2>1. loaded = memory
    BY <1>3 DEF LoadData
  <2>2. seg.va .. seg.va + seg.size - 1 = {}
    BY <1>2, <1>3
  <2>3. QED
    BY <2>1, <2>2, <1>3
<1>4. CASE seg.size # 0
  <2>1. loaded = [a \in Addresses |->
                    IF Hits(a) = {} THEN memory[a]
                    ELSE <<p, Chosen(a).va + (a - Physical(table, Chosen(a).va))>>]
    BY <1>4, Zenon DEF LoadData, ReadIn
  <2>2. \A part \in Parts(seg) : part.va \div PageSize \in 0 .. n - 1
    BY <1>4, SegmentsHavePages
  <2>3. ASSUME NEW va \in Nat, va \div PageSize \in 0 .. n - 1
        PROVE  Physical(table, va) \in Addresses
    BY <2>3, PhysicalIsOnItsFrame DEF IsTable, Addresses
  <2>4. ASSUME NEW va \in Nat, va \div PageSize \in 0 .. n - 1, Hits(Physical(table, va)) # {}
        PROVE  va < length /\ loaded[Physical(table, va)] = <<p, va>>
    <3> DEFINE a == Physical(table, va)
               part == Chosen(a)
    <3>1. part \in Hits(a)
      BY <2>4
    <3>2. part \in Parts(seg) /\ a \in From(part) .. From(part) + part.size - 1
          /\ part.va + (a - From(part)) < length
      BY <3>1
    <3>3. part.va + (a - From(part)) = va
      BY <1>1, <2>2, <2>4, <3>2, HitIsInPart
    <3>4. loaded[a] = <<p, part.va + (a - From(part))>>
      BY <2>1, <2>3, <2>4
    <3>5. QED
      BY <3>2, <3>3, <3>4
  <2>5. ASSUME NEW va \in Nat, va \div PageSize \in 0 .. n - 1, Hits(Physical(table, va)) = {}
        PROVE  loaded[Physical(table, va)] = memory[Physical(table, va)]
    BY <2>1, <2>3, <2>5
  <2>6. ASSUME NEW va \in seg.va .. seg.va + seg.size - 1,
               va < length, va \div PageSize \in 0 .. n - 1
        PROVE  loaded[Physical(table, va)] = <<p, va>>
    <3> DEFINE a == Physical(table, va)
    <3>1. va \in Nat
      BY <1>2
    <3>2. PICK part \in Parts(seg) : va \in part.va .. part.va + part.size - 1
      BY <1>1, PartsCoverSegment
    <3>3. /\ a \in From(part) .. From(part) + part.size - 1
          /\ part.va + (a - From(part)) = va
      BY <1>1, <2>2, <2>6, <3>1, <3>2, HitIsInPart
    <3>4. part \in Hits(a)
      BY <2>6, <3>3
    <3>5. QED
      BY <2>4, <2>6, <3>1, <3>4
  <2>7. ASSUME NEW a \in Addresses, \A i \in 0 .. n - 1 : a \div PageSize # table[i]
        PROVE  loaded[a] = memory[a]
    <3>1. ASSUME NEW part \in Hits(a) PROVE FALSE
      <4>1. part \in Parts(seg) /\ a \in From(part) .. From(part) + part.size - 1
        OBVIOUS
      <4>2. a \div PageSize = table[part.va \div PageSize]
        BY <1>1, <2>2, <4>1, HitIsOnFrame DEF IsTable
      <4>3. QED
        BY <2>2, <2>7, <4>1, <4>2
    <3>2. QED
      BY <2>1, <3>1
  <2>8. DOMAIN loaded = Addresses
    BY <2>1
  <2>9. ASSUME NEW va \in Nat, va \div PageSize \in 0 .. n - 1
        PROVE  \/ va < length /\ loaded[Physical(table, va)] = <<p, va>>
               \/ loaded[Physical(table, va)] = memory[Physical(table, va)]
    <3> HIDE DEF Hits, loaded
    <3>1. QED
      BY <2>4, <2>5, <2>9
  <2>10. QED
    BY <2>6, <2>7, <2>8, <2>9
<1>5. QED
  BY <1>3, <1>4

-------------------------------------------------------------------------------
(* The memory a program sees *)

\* Beyond Inv: tables are as long as they are, also after the end of a program,
\* and empty before Load.
SeenInv ==
  /\ Inv
  /\ \A p \in Process : \E m \in Nat : DOMAIN pageTable[p] = 0 .. m - 1
  /\ \A p \in Process : status[p] \in {"new", "begun"} => DOMAIN pageTable[p] = {}

LEMMA PagesCounted ==
  ASSUME NEW m \in Nat
  PROVE  Cardinality(0 .. m - 1) = m
<1>1. 0 \in Int /\ m - 1 \in Int
  OBVIOUS
<1>2. Cardinality(0 .. m - 1) = IF 0 > m - 1 THEN 0 ELSE (m - 1) - 0 + 1
  BY <1>1, FS_Interval
<1>3. QED
  BY <1>2

\* The address of a word of m pages is on one of them.
LEMMA AddressHasPage ==
  ASSUME NEW m \in Nat, NEW va \in 0 .. m * PageSize - 1
  PROVE  va \in Nat /\ va \div PageSize \in 0 .. m - 1
<1>1. PageSize \in Nat \ {0}
  BY SpaceAssumption
<1>2. m * PageSize = PageSize * m /\ m * PageSize \in Nat
  BY <1>1
<1>3. va \in Nat /\ va < PageSize * m
  BY <1>2
<1>4. va \div PageSize \in Nat /\ va \div PageSize < m
  BY <1>3, Divide, PageBelow
<1>5. QED
  BY <1>3, <1>4

LEMMA EmptyMemory ==
  ASSUME NEW memory, NEW table, DOMAIN table = {}
  PROVE  [va \in 0 .. Cardinality(DOMAIN table) * PageSize - 1 |->
            memory[Physical(table, va)]] = <<>>
<1>1. Cardinality(DOMAIN table) * PageSize = 0
  BY FS_EmptySet, SpaceAssumption
<1>2. 0 .. Cardinality(DOMAIN table) * PageSize - 1 = {}
  BY <1>1
<1>3. QED
  BY <1>2

LEMMA InitSeenInv == Init => SeenInv
<1> SUFFICES ASSUME Init PROVE SeenInv
  OBVIOUS
<1>1. \A p \in Process : DOMAIN pageTable[p] = {}
  BY DEF Init
<1>2. 0 \in Nat /\ 0 .. 0 - 1 = {}
  OBVIOUS
<1>3. \A p \in Process : \E m \in Nat : DOMAIN pageTable[p] = 0 .. m - 1
  BY <1>1, <1>2
<1>4. QED
  BY <1>1, <1>3, InitInv DEF SeenInv

\* What Load does to the state, once it is known that no part lacks a page.
LEMMA LoadEffect ==
  ASSUME Inv, NEW p \in Executable, Load(p)
  PROVE  LET l == layout[p]
             table == [i \in 0 .. NumPages(l) - 1 |-> FrameOf(i)]
             zeroed == [a \in DOMAIN mainMemory |->
                          IF \E i \in DOMAIN table : a \div PageSize = table[i]
                          THEN Zero ELSE mainMemory[a]]
             withCode == LoadData(zeroed, p, table, CodeSegment(l))
             withData == LoadData(withCode, p, table, InitData(l))
         IN  /\ p \in Process /\ l \in Layout /\ status[p] = "begun"
             /\ IsTable(table, NumPages(l))
             /\ \A i \in DOMAIN table : table[i] \in Free
             /\ mainMemory' = LoadData(withData, p, table, ReadonlyData(l))
             /\ pageTable' = [pageTable EXCEPT ![p] = table]
             /\ status' = [status EXCEPT ![p] = "running"]
             /\ layout' = layout
<1> DEFINE l == layout[p]
           n == NumPages(l)
           table == [i \in 0 .. n - 1 |-> FrameOf(i)]
<1>1. p \in Process /\ l \in Layout /\ status[p] = "begun"
  BY DEF Load, Executable, Inv, TypeOK
<1>2. \A seg \in {CodeSegment(l), InitData(l), ReadonlyData(l)} : HasPages(seg, n)
  BY <1>1, SegmentsHavePages DEF Segments
<1>3. n \in Nat /\ n <= Cardinality(Free)
  BY <1>1, NumPagesBounds DEF Load, Inv, FramesHaveOneOwner
<1>4. LET taken == {table[i] : i \in DOMAIN table}
      IN  /\ taken \subseteq Free
          /\ \A i, j \in DOMAIN table : table[i] = table[j] => i = j
  <2> HIDE DEF n
  <2>1. QED
    BY <1>3, TakenFrames
<1>5. \A i \in DOMAIN table : table[i] \in Free
  BY <1>4
<1>6. IsTable(table, n)
  BY <1>4, <1>5 DEF IsTable, Free
<1>7. QED
  BY <1>1, <1>2, <1>5, <1>6, Zenon DEF Load

LEMMA StepKeepsSeenInv == SeenInv /\ [Next]_vars => SeenInv'
<1> SUFFICES ASSUME SeenInv, [Next]_vars PROVE SeenInv'
  OBVIOUS
<1>1. Inv'
  BY NextKeepsInv DEF SeenInv
<1>2. ASSUME NEW p \in Executable, Load(p) PROVE SeenInv'
  <2> DEFINE table == [i \in 0 .. NumPages(layout[p]) - 1 |-> FrameOf(i)]
  <2>1. /\ p \in Process /\ NumPages(layout[p]) \in Nat
        /\ pageTable' = [pageTable EXCEPT ![p] = table]
        /\ status' = [status EXCEPT ![p] = "running"]
    BY <1>2, LoadEffect, NumPagesBounds DEF SeenInv
  <2>2. DOMAIN table = 0 .. NumPages(layout[p]) - 1
    OBVIOUS
  <2> HIDE DEF table
  <2>3. /\ pageTable'[p] = table /\ status'[p] = "running"
        /\ \A q \in Process \ {p} : pageTable'[q] = pageTable[q] /\ status'[q] = status[q]
    BY <2>1 DEF SeenInv, Inv, TablesInv, TypeOK
  <2>4. \A q \in Process : \E m \in Nat : DOMAIN pageTable'[q] = 0 .. m - 1
    BY <2>1, <2>2, <2>3 DEF SeenInv
  <2>5. \A q \in Process : status'[q] \in {"new", "begun"} => DOMAIN pageTable'[q] = {}
    BY <2>3 DEF SeenInv
  <2>6. QED
    BY <1>1, <2>4, <2>5, Zenon DEF SeenInv
<1>3. ASSUME UNCHANGED pageTable,
             \A q \in Process : status'[q] \in {"new", "begun"} => status[q] \in {"new", "begun"}
      PROVE  SeenInv'
  BY <1>1, <1>3 DEF SeenInv
<1>4. ASSUME NEW p \in Process, Dispatch(p) PROVE SeenInv'
  BY <1>3, <1>4 DEF Dispatch, SeenInv, Inv, TypeOK
<1>5. ASSUME NEW p \in Process, LoadFails(p) \/ Exit(p) PROVE SeenInv'
  BY <1>3, <1>5 DEF LoadFails, Exit, SeenInv, Inv, TypeOK
<1>6. ASSUME NEW p \in Process, MemoryLimit(p) PROVE SeenInv'
  BY <1>3, <1>6 DEF MemoryLimit
<1>7. ASSUME NEW p \in Process, NEW va, Store(p, va) PROVE SeenInv'
  BY <1>3, <1>7 DEF Store
<1>8. CASE UNCHANGED vars
  BY <1>3, <1>8 DEF vars
<1>9. QED
  BY <1>2, <1>4, <1>5, <1>6, <1>7, <1>8 DEF Next, Executable

-------------------------------------------------------------------------------
(* Steps that change no program's memory *)

LEMMA UnchangedMemory ==
  ASSUME SeenInv, UNCHANGED <<layout, mainMemory, pageTable>>,
         \A q \in Process :
           \/ status'[q] = status[q]
           \/ {status[q], status'[q]} \subseteq {"new", "begun"}
           \/ status[q] \in {"new", "begun"} /\ status'[q] = "done"
           \/ {status[q], status'[q]} \subseteq {"running", "done"}
  PROVE  UNCHANGED <<layout, [q \in Process |-> MemoryOf(q)]>>
<1>1. ASSUME NEW q \in Process PROVE MemoryOf(q)' = MemoryOf(q)
  <2>1. CASE status'[q] = status[q]
    BY <2>1 DEF MemoryOf, Physical
  <2>2. CASE {status[q], status'[q]} \subseteq {"new", "begun"}
    BY <2>2 DEF MemoryOf
  <2>3. CASE status[q] \in {"new", "begun"} /\ status'[q] = "done"
    <3>1. DOMAIN pageTable[q] = {}
      BY <2>3 DEF SeenInv
    <3>2. MemoryOf(q) = <<>>
      BY <2>3 DEF MemoryOf
    <3>3. MemoryOf(q)' = [va \in 0 .. Cardinality(DOMAIN pageTable[q]) * PageSize - 1 |->
                            mainMemory[Physical(pageTable[q], va)]]
      BY <2>3 DEF MemoryOf, Physical
    <3>4. QED
      BY <3>1, <3>2, <3>3, EmptyMemory
  <2>4. CASE {status[q], status'[q]} \subseteq {"running", "done"}
    BY <2>4 DEF MemoryOf, Physical
  <2>5. QED
    BY <2>1, <2>2, <2>3, <2>4
<1>2. QED
  BY <1>1

-------------------------------------------------------------------------------
(* Store *)

LEMMA StoreIsPrivate ==
  ASSUME SeenInv, NEW p \in Executable, NEW va \in MayWrite(layout[p]), Store(p, va)
  PROVE  va \in DOMAIN MemoryOf(p) /\ Private!Store(p, va)
<1> DEFINE l == layout[p]
           n == NumPages(l)
<1>1. p \in Process /\ status[p] = "running" /\ machineTable = p /\ l \in Layout
      /\ DOMAIN pageTable[p] = 0 .. n - 1
      /\ readOnly[p] = ProtectedPages(ReadonlyData(l))
  BY DEF Store, Executable, SeenInv, Inv, TablesInv
<1>2. n \in Nat /\ va \in Nat /\ va \div PageSize \in 0 .. n - 1
  BY <1>1, NumPagesBounds, WritableAddressesHavePages
<1>3. /\ mainMemory' = [mainMemory EXCEPT ![Physical(pageTable[p], va)] = Stored(p)]
      /\ UNCHANGED <<layout, pageTable, status>>
  BY <1>1, <1>2, ProtectedPagesAreReadOnlyData DEF Store
<1>4. \A q \in Process : \A i \in DOMAIN pageTable[q] : pageTable[q][i] \in Frame
  BY DEF SeenInv, Inv, TypeOK
<1>5. Physical(pageTable[p], va) \in DOMAIN mainMemory
  BY <1>1, <1>2, <1>4, PhysicalIsOnItsFrame DEF SeenInv, Inv, TypeOK
<1>6. ASSUME NEW q \in Process, status[q] \notin {"new", "begun"}
      PROVE  MemoryOf(q)' = [v \in DOMAIN MemoryOf(q) |->
                               IF q = p /\ v = va THEN Stored(p) ELSE MemoryOf(q)[v]]
  <2>1. PICK m \in Nat : DOMAIN pageTable[q] = 0 .. m - 1
    BY DEF SeenInv
  <2>2. MemoryOf(q) = [v \in 0 .. m * PageSize - 1 |-> mainMemory[Physical(pageTable[q], v)]]
    BY <1>6, <2>1, PagesCounted DEF MemoryOf
  <2>3. MemoryOf(q)' = [v \in 0 .. m * PageSize - 1 |-> mainMemory'[Physical(pageTable[q], v)]]
    BY <1>3, <1>6, <2>1, PagesCounted DEF MemoryOf, Physical
  <2>4. ASSUME NEW v \in 0 .. m * PageSize - 1
        PROVE  mainMemory'[Physical(pageTable[q], v)] =
                 IF q = p /\ v = va THEN Stored(p) ELSE mainMemory[Physical(pageTable[q], v)]
    <3>1. v \in Nat /\ v \div PageSize \in DOMAIN pageTable[q]
      BY <2>1, AddressHasPage
    <3>2. CASE q = p /\ v = va
      BY <1>3, <1>5, <3>2
    <3>3. CASE ~(q = p /\ v = va)
      <4>1. Physical(pageTable[q], v) # Physical(pageTable[p], va)
        <5>1. SUFFICES ASSUME Physical(pageTable[q], v) = Physical(pageTable[p], va)
                       PROVE  FALSE
          OBVIOUS
        <5>2. /\ pageTable[q][v \div PageSize] = pageTable[p][va \div PageSize]
              /\ v \div PageSize = va \div PageSize => v = va
          BY <1>1, <1>2, <1>4, <3>1, <5>1, PhysicalIsInjective
        <5>3. q = p /\ v \div PageSize = va \div PageSize
          BY <1>1, <1>2, <3>1, <5>2 DEF SeenInv, Inv, FramesHaveOneOwner
        <5>4. QED
          BY <3>3, <5>2, <5>3
      <4>2. Physical(pageTable[q], v) \in DOMAIN mainMemory
        BY <1>4, <3>1, PhysicalIsOnItsFrame DEF SeenInv, Inv, TypeOK
      <4>3. QED
        BY <1>3, <3>3, <4>1, <4>2 DEF SeenInv, Inv, TypeOK
    <3>4. QED
      BY <3>2, <3>3
  <2>5. QED
    BY <2>2, <2>3, <2>4
<1>7. ASSUME NEW q \in Process, status[q] \in {"new", "begun"}
      PROVE  MemoryOf(q)' = MemoryOf(q)
  BY <1>3, <1>7 DEF MemoryOf
<1>8. va \in DOMAIN MemoryOf(p)
  <2>1. MemoryOf(p) = [v \in 0 .. n * PageSize - 1 |-> mainMemory[Physical(pageTable[p], v)]]
    BY <1>1, <1>2, PagesCounted DEF MemoryOf
  <2>2. va \in 0 .. n * PageSize - 1
    BY <1>2 DEF MayWrite
  <2>3. QED
    BY <2>1, <2>2
<1>9. va \in Private!MayWrite(layout[p])
  <2>1. /\ l.code \in Nat /\ l.rdata \in Nat /\ l.data \in Nat /\ l.bss \in Nat
        /\ UserStackSize \in Nat /\ PageSize \in Nat \ {0}
    BY <1>1, SpaceAssumption
  <2>2. Private!Size(l) = PageSize * n
    BY <2>1 DEF Private!Size, Private!Segments, Private!InFile, NumPages
  <2>3. PageSize * n = n * PageSize
    BY <1>2, <2>1
  <2>4. QED
    BY <2>2, <2>3 DEF MayWrite, Private!MayWrite
<1>10. Private!Stored(p) = Stored(p)
  BY DEF Private!Stored, Private!FileWord, Private!InFile, Stored, FileLength
<1>11. [q \in Process |-> MemoryOf(q)]' =
         [[q \in Process |-> MemoryOf(q)] EXCEPT ![p][va] = Private!Stored(p)]
  <2>1. \A q \in Process \ {p} : MemoryOf(q)' = MemoryOf(q)
    <3>1. ASSUME NEW q \in Process \ {p}, status[q] \notin {"new", "begun"}
          PROVE  MemoryOf(q)' = MemoryOf(q)
      <4>1. MemoryOf(q) = [v \in DOMAIN MemoryOf(q) |-> MemoryOf(q)[v]]
        BY <3>1 DEF MemoryOf
      <4>2. MemoryOf(q)' = [v \in DOMAIN MemoryOf(q) |-> MemoryOf(q)[v]]
        BY <1>6, <3>1
      <4>3. QED
        BY <4>1, <4>2
    <3>2. QED
      BY <1>7, <3>1
  <2>2. MemoryOf(p)' = [MemoryOf(p) EXCEPT ![va] = Stored(p)]
    <3>1. MemoryOf(p)' = [v \in DOMAIN MemoryOf(p) |->
                            IF v = va THEN Stored(p) ELSE MemoryOf(p)[v]]
      BY <1>1, <1>6
    <3>2. QED
      BY <3>1
  <2>3. QED
    BY <1>1, <1>10, <2>1, <2>2
<1>12. QED
  BY <1>3, <1>8, <1>9, <1>11 DEF Private!Store

-------------------------------------------------------------------------------
(* Load *)

\* The three segments leave the file's words and, after them, zeros.
LEMMA LoadedImage ==
  ASSUME NEW memory, DOMAIN memory = Addresses, NEW p \in Process, layout[p] \in Layout,
         NEW n \in Nat, n = NumPages(layout[p]), NEW table, IsTable(table, n)
  PROVE  LET l == layout[p]
             withCode == LoadData(memory, p, table, CodeSegment(l))
             withData == LoadData(withCode, p, table, InitData(l))
             loaded == LoadData(withData, p, table, ReadonlyData(l))
         IN  /\ \A va \in Nat : va \div PageSize \in 0 .. n - 1 =>
                  loaded[Physical(table, va)] =
                    IF va < FileLength(l) THEN <<p, va>> ELSE memory[Physical(table, va)]
             /\ \A a \in Addresses :
                  (\A i \in 0 .. n - 1 : a \div PageSize # table[i]) => loaded[a] = memory[a]
<1> DEFINE l == layout[p]
           withCode == LoadData(memory, p, table, CodeSegment(l))
           withData == LoadData(withCode, p, table, InitData(l))
           loaded == LoadData(withData, p, table, ReadonlyData(l))
           Reads(before, after, seg) ==
             /\ \A va \in seg.va .. seg.va + seg.size - 1 :
                  va < FileLength(l) /\ va \div PageSize \in 0 .. n - 1 =>
                    after[Physical(table, va)] = <<p, va>>
             /\ \A va \in Nat : va \div PageSize \in 0 .. n - 1 =>
                  \/ va < FileLength(l) /\ after[Physical(table, va)] = <<p, va>>
                  \/ after[Physical(table, va)] = before[Physical(table, va)]
             /\ \A a \in Addresses :
                  (\A i \in 0 .. n - 1 : a \div PageSize # table[i]) => after[a] = before[a]
<1>1. {CodeSegment(l), InitData(l), ReadonlyData(l)} = Segments(l)
  BY DEF Segments
<1>2. DOMAIN withCode = Addresses /\ Reads(memory, withCode, CodeSegment(l))
  <2>1. CodeSegment(l) \in Segments(layout[p])
    BY <1>1
  <2>2. QED
    BY <2>1, LoadDataReads
<1>3. DOMAIN withData = Addresses /\ Reads(withCode, withData, InitData(l))
  <2>1. InitData(l) \in Segments(layout[p]) /\ DOMAIN withCode = Addresses
    BY <1>1, <1>2
  <2> HIDE DEF withCode
  <2>2. QED
    BY <2>1, LoadDataReads
<1>4. Reads(withData, loaded, ReadonlyData(l))
  <2>1. ReadonlyData(l) \in Segments(layout[p]) /\ DOMAIN withData = Addresses
    BY <1>1, <1>3
  <2> HIDE DEF withData
  <2>2. QED
    BY <2>1, LoadDataReads
<1>5. /\ l.code \in Nat /\ l.rdata \in Nat /\ l.data \in Nat
      /\ FileLength(l) = l.code + l.rdata + l.data
  BY SpaceAssumption DEF FileLength
<1>6. /\ CodeSegment(l).va = 0 /\ CodeSegment(l).size = l.code
      /\ InitData(l).va = l.code + l.rdata /\ InitData(l).size = l.data
      /\ ReadonlyData(l).va = l.code /\ ReadonlyData(l).size = l.rdata
  BY DEF CodeSegment, InitData, ReadonlyData
<1> HIDE DEF withCode, withData, loaded
<1>7. ASSUME NEW va \in Nat, va \div PageSize \in 0 .. n - 1
      PROVE  loaded[Physical(table, va)] =
               IF va < FileLength(l) THEN <<p, va>> ELSE memory[Physical(table, va)]
  <2> DEFINE a == Physical(table, va)
  <2>1. CASE ~(va < FileLength(l))
    <3>1. withCode[a] = memory[a] /\ withData[a] = withCode[a] /\ loaded[a] = withData[a]
      BY <1>2, <1>3, <1>4, <1>7, <2>1
    <3>2. QED
      BY <2>1, <3>1
  <2>2. CASE va < FileLength(l)
    <3>1. withCode[a] = <<p, va>> => withData[a] = <<p, va>>
      BY <1>3, <1>7
    <3>2. withData[a] = <<p, va>> => loaded[a] = <<p, va>>
      BY <1>4, <1>7
    <3>3. CASE va < l.code
      <4>1. va \in CodeSegment(l).va .. CodeSegment(l).va + CodeSegment(l).size - 1
        BY <1>5, <1>6, <3>3
      <4>2. withCode[a] = <<p, va>>
        BY <1>2, <1>7, <2>2, <4>1
      <4>3. QED
        BY <2>2, <3>1, <3>2, <4>2
    <3>4. CASE va >= l.code /\ va < l.code + l.rdata
      <4>1. va \in ReadonlyData(l).va .. ReadonlyData(l).va + ReadonlyData(l).size - 1
        BY <1>5, <1>6, <3>4
      <4>2. loaded[a] = <<p, va>>
        BY <1>4, <1>7, <2>2, <4>1
      <4>3. QED
        BY <2>2, <4>2
    <3>5. CASE va >= l.code + l.rdata
      <4>1. va \in InitData(l).va .. InitData(l).va + InitData(l).size - 1
        BY <1>5, <1>6, <2>2, <3>5
      <4>2. withData[a] = <<p, va>>
        BY <1>3, <1>7, <2>2, <4>1
      <4>3. QED
        BY <2>2, <3>2, <4>2
    <3>6. QED
      BY <1>5, <3>3, <3>4, <3>5
  <2>3. QED
    BY <2>1, <2>2
<1>8. ASSUME NEW a \in Addresses, \A i \in 0 .. n - 1 : a \div PageSize # table[i]
      PROVE  loaded[a] = memory[a]
  BY <1>2, <1>3, <1>4, <1>8
<1>9. QED
  BY <1>7, <1>8 DEF loaded, withData, withCode

LEMMA LoadIsPrivate ==
  ASSUME SeenInv, NEW p \in Executable, Load(p)
  PROVE  Private!Load(p)
<1> DEFINE l == layout[p]
           n == NumPages(l)
           table == [i \in 0 .. n - 1 |-> FrameOf(i)]
           zeroed == [a \in DOMAIN mainMemory |->
                        IF \E i \in DOMAIN table : a \div PageSize = table[i]
                        THEN Zero ELSE mainMemory[a]]
           withCode == LoadData(zeroed, p, table, CodeSegment(l))
           withData == LoadData(withCode, p, table, InitData(l))
           loaded == LoadData(withData, p, table, ReadonlyData(l))
<1>1. /\ p \in Process /\ l \in Layout /\ status[p] = "begun"
      /\ IsTable(table, n)
      /\ \A i \in DOMAIN table : table[i] \in Free
      /\ mainMemory' = loaded
      /\ pageTable' = [pageTable EXCEPT ![p] = table]
      /\ status' = [status EXCEPT ![p] = "running"]
      /\ layout' = layout
  BY LoadEffect DEF SeenInv
<1>2. n \in Nat /\ FileLength(l) \in Nat
  BY <1>1, NumPagesBounds
<1>3. DOMAIN mainMemory = Addresses /\ DOMAIN zeroed = Addresses
  BY DEF SeenInv, Inv, TypeOK, Addresses
<1>4. /\ \A va \in Nat : va \div PageSize \in 0 .. n - 1 =>
           mainMemory'[Physical(table, va)] =
             IF va < FileLength(l) THEN <<p, va>> ELSE zeroed[Physical(table, va)]
      /\ \A a \in Addresses :
           (\A i \in 0 .. n - 1 : a \div PageSize # table[i]) => mainMemory'[a] = zeroed[a]
  <2> HIDE DEF zeroed, table, n
  <2>1. layout[p] \in Layout /\ n = NumPages(layout[p])
    BY <1>1 DEF n
  <2>2. QED
    BY <1>1, <1>2, <1>3, <2>1, LoadedImage
<1>5. ASSUME NEW va \in Nat, va \div PageSize \in 0 .. n - 1
      PROVE  zeroed[Physical(table, va)] = Zero
  <2>1. table[va \div PageSize] \in Frame /\ va \div PageSize \in DOMAIN table
    BY <1>1, <1>5 DEF IsTable
  <2>2. /\ Physical(table, va) \in Addresses
        /\ Physical(table, va) \div PageSize = table[va \div PageSize]
    BY <2>1, PhysicalIsOnItsFrame DEF Addresses
  <2>3. QED
    BY <1>3, <2>1, <2>2
<1>6. ASSUME NEW a \in Addresses, \A i \in 0 .. n - 1 : a \div PageSize # table[i]
      PROVE  mainMemory'[a] = mainMemory[a]
  <2>1. zeroed[a] = mainMemory[a]
    BY <1>3, <1>6
  <2>2. QED
    BY <1>4, <1>6, <2>1
<1>7. /\ pageTable'[p] = table /\ status'[p] = "running"
      /\ \A q \in Process \ {p} : pageTable'[q] = pageTable[q] /\ status'[q] = status[q]
  BY <1>1 DEF SeenInv, Inv, TablesInv, TypeOK
<1>8. MemoryOf(p)' = Private!Image(p)
  <2>1. MemoryOf(p)' = [va \in 0 .. n * PageSize - 1 |-> mainMemory'[Physical(table, va)]]
    <3>1. DOMAIN table = 0 .. n - 1
      OBVIOUS
    <3> HIDE DEF table, loaded
    <3>2. QED
      BY <1>2, <1>7, <3>1, PagesCounted DEF MemoryOf, Physical
  <2>2. \A va \in 0 .. n * PageSize - 1 :
          mainMemory'[Physical(table, va)] = IF va < FileLength(l) THEN <<p, va>> ELSE Zero
    <3> HIDE DEF table, zeroed
    <3>1. QED
      BY <1>2, <1>4, <1>5, AddressHasPage
  <2>3. Private!Size(l) = n * PageSize
    <3>1. /\ l.code \in Nat /\ l.rdata \in Nat /\ l.data \in Nat /\ l.bss \in Nat
          /\ UserStackSize \in Nat /\ PageSize \in Nat \ {0}
      BY <1>1, SpaceAssumption
    <3>2. Private!Size(l) = PageSize * n
      BY <3>1 DEF Private!Size, Private!Segments, Private!InFile, NumPages
    <3> HIDE DEF n
    <3>3. PageSize * n = n * PageSize
      BY <1>2, <3>1
    <3>4. QED
      BY <3>2, <3>3
  <2>4. Private!Image(p) = [va \in 0 .. n * PageSize - 1 |->
                              IF va < FileLength(l) THEN <<p, va>> ELSE Zero]
    BY <2>3 DEF Private!Image, Private!InFile, Private!FileWord, FileLength
  <2> HIDE DEF n, table, loaded
  <2>5. QED
    BY <2>1, <2>2, <2>4
<1>9. ASSUME NEW q \in Process \ {p}
      PROVE  MemoryOf(q)' = MemoryOf(q)
  <2>1. CASE status[q] \in {"new", "begun"}
    BY <1>7, <2>1 DEF MemoryOf
  <2>2. CASE status[q] \notin {"new", "begun"}
    <3> HIDE DEF n, table, loaded
    <3>1. PICK m \in Nat : DOMAIN pageTable[q] = 0 .. m - 1
      BY DEF SeenInv
    <3>2. MemoryOf(q) = [v \in 0 .. m * PageSize - 1 |-> mainMemory[Physical(pageTable[q], v)]]
      BY <2>2, <3>1, PagesCounted DEF MemoryOf
    <3>3. MemoryOf(q)' = [v \in 0 .. m * PageSize - 1 |-> mainMemory'[Physical(pageTable[q], v)]]
      BY <1>7, <2>2, <3>1, PagesCounted DEF MemoryOf, Physical
    <3>4. ASSUME NEW v \in 0 .. m * PageSize - 1
          PROVE  mainMemory'[Physical(pageTable[q], v)] = mainMemory[Physical(pageTable[q], v)]
      <4>1. v \in Nat /\ v \div PageSize \in DOMAIN pageTable[q]
        BY <3>1, AddressHasPage
      <4>2. /\ pageTable[q][v \div PageSize] \in Frame
            /\ pageTable[q][v \div PageSize] \in usedPhysPage
        BY <4>1 DEF SeenInv, Inv, TypeOK, FramesHaveOneOwner
      <4>3. /\ Physical(pageTable[q], v) \in Addresses
            /\ Physical(pageTable[q], v) \div PageSize = pageTable[q][v \div PageSize]
        BY <4>1, <4>2, PhysicalIsOnItsFrame DEF Addresses
      <4>4. \A i \in 0 .. n - 1 : table[i] \notin usedPhysPage
        BY <1>1 DEF IsTable, Free
      <4>5. QED
        BY <1>6, <4>2, <4>3, <4>4
    <3>5. QED
      BY <3>2, <3>3, <3>4
  <2>3. QED
    BY <2>1, <2>2
<1>10. layout[p] # NoFile /\ MemoryOf(p) = <<>>
  BY <1>1, SpaceAssumption DEF MemoryOf
<1>11. [q \in Process |-> MemoryOf(q)]' =
         [[q \in Process |-> MemoryOf(q)] EXCEPT ![p] = Private!Image(p)]
  BY <1>1, <1>8, <1>9
<1>12. QED
  BY <1>1, <1>10, <1>11 DEF Private!Load

-------------------------------------------------------------------------------
LEMMA StepIsPrivate ==
  ASSUME SeenInv, [Next]_vars
  PROVE  \/ \E p \in Process : Private!Load(p) \/ \E a \in DOMAIN MemoryOf(p) : Private!Store(p, a)
         \/ UNCHANGED <<layout, [q \in Process |-> MemoryOf(q)]>>
<1>1. ASSUME NEW p \in Executable, Load(p)
      PROVE  \E q \in Process : Private!Load(q)
  BY <1>1, LoadIsPrivate DEF Executable
<1>2. ASSUME NEW p \in Executable, NEW va \in MayWrite(layout[p]), Store(p, va)
      PROVE  \E q \in Process : \E a \in DOMAIN MemoryOf(q) : Private!Store(q, a)
  BY <1>2, StoreIsPrivate DEF Executable
<1>3. status \in [Process -> {"new", "begun", "running", "done"}]
  BY DEF SeenInv, Inv, TypeOK
<1>4. ASSUME NEW p \in Process, Dispatch(p)
      PROVE  UNCHANGED <<layout, [q \in Process |-> MemoryOf(q)]>>
  <2>1. /\ UNCHANGED <<layout, mainMemory, pageTable>>
        /\ \A q \in Process :
             status'[q] = status[q] \/ {status[q], status'[q]} \subseteq {"new", "begun"}
    BY <1>3, <1>4 DEF Dispatch
  <2>2. QED
    BY <2>1, UnchangedMemory
<1>5. ASSUME NEW p \in Process, LoadFails(p)
      PROVE  UNCHANGED <<layout, [q \in Process |-> MemoryOf(q)]>>
  <2>1. /\ UNCHANGED <<layout, mainMemory, pageTable>>
        /\ \A q \in Process :
             \/ status'[q] = status[q]
             \/ status[q] \in {"new", "begun"} /\ status'[q] = "done"
    BY <1>3, <1>5 DEF LoadFails
  <2>2. QED
    BY <2>1, UnchangedMemory
<1>6. ASSUME NEW p \in Process, Exit(p)
      PROVE  UNCHANGED <<layout, [q \in Process |-> MemoryOf(q)]>>
  <2>1. /\ UNCHANGED <<layout, mainMemory, pageTable>>
        /\ \A q \in Process :
             status'[q] = status[q] \/ {status[q], status'[q]} \subseteq {"running", "done"}
    BY <1>3, <1>6 DEF Exit
  <2>2. QED
    BY <2>1, UnchangedMemory
<1>7. ASSUME UNCHANGED <<layout, mainMemory, pageTable, status>>
      PROVE  UNCHANGED <<layout, [q \in Process |-> MemoryOf(q)]>>
  BY <1>7, UnchangedMemory
<1>8. ASSUME NEW p \in Process, MemoryLimit(p)
      PROVE  UNCHANGED <<layout, [q \in Process |-> MemoryOf(q)]>>
  BY <1>7, <1>8 DEF MemoryLimit
<1>9. CASE UNCHANGED vars
  BY <1>7, <1>9 DEF vars
<1>10. QED
  BY <1>1, <1>2, <1>4, <1>5, <1>6, <1>8, <1>9 DEF Next, Executable

(***************************************************************************)
(* AddrSpace implements PrivateMemory: whatever the sizes of the programs  *)
(* and of pages and however the threads interleave, a program starts with  *)
(* its image (AddrSpace::LoadData) and no step but its own stores changes  *)
(* what it sees (AddrSpace::RestoreState, Machine::Translate).             *)
(***************************************************************************)
THEOREM MemoryIsPrivate == Spec => ImplementsPrivateMemory
<1>1. Init => Private!Init
  BY DEF Init, MemoryOf, Private!Init
<1>2. SeenInv /\ [Next]_vars => [Private!Next]_Private!vars
  BY StepIsPrivate DEF Private!Next, Private!vars
<1>3. QED
  BY <1>1, <1>2, InitSeenInv, StepKeepsSeenInv, PTL
     DEF Spec, ImplementsPrivateMemory, Private!Spec
===============================================================================
