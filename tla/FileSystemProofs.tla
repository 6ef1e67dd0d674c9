--------------------------- MODULE FileSystemProofs ---------------------------
(***************************************************************************)
(* The file system keeps its disk sound, whatever calls are made and       *)
(* whatever fails: every header in use has sectors of its own, every entry *)
(* of a directory that can be reached leads to a header no other entry     *)
(* leads to, and all of it is marked in the bitmap.  The directories then  *)
(* form a tree, and each sector has one owner.                             *)
(*                                                                         *)
(* The argument is an invariant Sound(c, M, H, D, Z) of a disk: c is what  *)
(* the sectors hold, M the sectors that are marked, H those of the headers *)
(* in use, D those of directories, Z the directories that a recursive      *)
(* removal is at work in, whose entries may lead to a directory that is    *)
(* gone.  Each part of an operation has a lemma that says how it changes   *)
(* these sets, see FileHeaderProofs for those about one file: RemoveFile   *)
(* and Create take an entry away or add one (FileRemoved, MadeIsAdded), a  *)
(* walk follows the entries (WalkIs); by induction on the levels that are  *)
(* left, so does RecursiveRemove (AllEmpty, AllMiss).  What a Create makes *)
(* and what a Remove gives back follows from where each file is in the     *)
(* tree before and after (TreeWith, TreeWithout).                          *)
(***************************************************************************)
EXTENDS FileHeaderProofs

-------------------------------------------------------------------------------
(* A sound disk *)

Index == 1 .. NumDirEntries
TableRecord == [kind : {"table"}, entry : [Index -> Entry]]

\* H holds the headers in use: all marked, each with its sub-headers, and no
\* two of their places name the same sector.
SoundHeaders(c, M, H) ==
  /\ M \subseteq Sector /\ H \subseteq M
  /\ FreeMapSector \in H /\ DirectorySector \in H
  /\ \A x \in H : /\ Sized(c[x], MaxSize) /\ Shares(c, c[x], H)
                  /\ Names(c[x], H, M \ {FreeMapSector, DirectorySector})
  /\ NoneShared(c, H)

\* The first sector of the file of directory d, its table, its entry k.
FirstOf(c, d) == c[d].dataSectors[0]
TableOf(c, d) == c[FirstOf(c, d)].entry
Used(c, d, k) == FirstOf(c, d) \in Sector /\ TableOf(c, d)[k].inUse
Target(c, d, k) == TableOf(c, d)[k].sector

\* A header no other header names.
Top(c, H, s) == s \in H /\ \A x \in H, i \in Direct : c[x].dataSectors[i] # s

\* The entry k of d is that of a file or, marked as such, a directory.
Live(c, H, D, d, k) ==
  /\ Top(c, H, Target(c, d, k)) /\ Target(c, d, k) \notin {FreeMapSector, DirectorySector}
  /\ TableOf(c, d)[k].isDirectory <=> Target(c, d, k) \in D

\* The entry k of d is that of a directory that is gone.
Dangling(c, M, d, k) == TableOf(c, d)[k].isDirectory /\ Target(c, d, k) \notin M

\* D holds the directories in use; those of Z are being emptied.
SoundTables(c, M, H, D, Z) ==
  /\ D \subseteq H /\ DirectorySector \in D /\ FreeMapSector \notin D
  /\ \A x \in H, i \in Direct :
       c[x].dataSectors[i] # FreeMapSector /\ c[x].dataSectors[i] # DirectorySector
  /\ \A d \in D : IsLeaf(c[d]) /\ (FirstOf(c, d) \in Sector => c[FirstOf(c, d)] \in TableRecord)
  /\ \A d \in D, k \in Index : Used(c, d, k) =>
       /\ TableOf(c, d)[k].name \in Name
       /\ Live(c, H, D, d, k) \/ (d \in Z /\ Dangling(c, M, d, k))
  /\ \A d, g \in D, k, l \in Index :
       Used(c, d, k) /\ Used(c, g, l) /\ Target(c, d, k) \in H /\ Target(c, d, k) = Target(c, g, l)
         => d = g /\ k = l
  /\ \A d \in D, k, l \in Index :
       Used(c, d, k) /\ Used(c, d, l) /\ TableOf(c, d)[k].name = TableOf(c, d)[l].name => k = l

Sound(c, M, H, D, Z) == SoundHeaders(c, M, H) /\ SoundTables(c, M, H, D, Z)

Consistent(c, M) == \E H, D \in SUBSET Sector : Sound(c, M, H, D, {})

-------------------------------------------------------------------------------
(* The sectors of a file *)

\* A place that is in use names a marked sector: a header just when it is in a
\* header with sub-headers.
LEMMA PlacesAre ==
  ASSUME NEW c, NEW M, NEW H, SoundHeaders(c, M, H), NEW S, S \subseteq H, NEW r \in PlacesIn(c, S)
  PROVE  /\ r[1] \in S /\ r[2] \in Direct /\ r = <<r[1], r[2]>>
         /\ Named(c, r) = c[r[1]].dataSectors[r[2]] /\ Named(c, r) \in Sector
         /\ Named(c, r) \in M \ {FreeMapSector, DirectorySector}
         /\ Named(c, r) \in H <=> ~IsLeaf(c[r[1]])
<1>1. /\ r[1] \in S /\ r[2] \in Slots(c[r[1]]) /\ r = <<r[1], r[2]>>
      /\ Named(c, r) \in Sector
  BY DEF PlacesIn
<1>2. Sized(c[r[1]], MaxSize) /\ Names(c[r[1]], H, M \ {FreeMapSector, DirectorySector})
  BY <1>1 DEF SoundHeaders
<1>3. r[2] \in Direct
  BY <1>1, <1>2, SlotsFit
<1> QED
  BY <1>1, <1>2, <1>3 DEF Named, Names

\* The sub-headers of headers are headers that are named.
LEMMA SubHeadersAre ==
  ASSUME NEW c, NEW M, NEW H, SoundHeaders(c, M, H), NEW S, S \subseteq H
  PROVE  /\ SubHeadersOf(c, S) \subseteq H
         /\ \A t \in SubHeadersOf(c, S) : \E x \in S, i \in Direct : c[x].dataSectors[i] = t
<1> SUFFICES ASSUME NEW t \in SubHeadersOf(c, S)
             PROVE  t \in H /\ \E x \in S, i \in Direct : c[x].dataSectors[i] = t
  OBVIOUS
<1> DEFINE T == {x \in S : Children(c[x]) > 0}
<1>1. PICK r \in PlacesIn(c, T) : t = Named(c, r)
  BY DEF SubHeadersOf
<1>2. T \subseteq H
  OBVIOUS
<1>3. /\ r[1] \in T /\ r[2] \in Direct /\ t = c[r[1]].dataSectors[r[2]]
      /\ t \in H <=> ~IsLeaf(c[r[1]])
  <2> HIDE DEF T
  <2> QED
    BY <1>1, <1>2, PlacesAre
<1>4. ~IsLeaf(c[r[1]])
  <2>1. Sized(c[r[1]], MaxSize) /\ Children(c[r[1]]) > 0
    BY <1>3 DEF SoundHeaders
  <2> QED
    BY <2>1, SlotsFit
<1> QED
  BY <1>3, <1>4

\* So are the headers of a file, but the first.
LEMMA HeadersAre ==
  ASSUME NEW c, NEW M, NEW H, SoundHeaders(c, M, H), NEW s \in H
  PROVE  /\ HeadersOf(c, s) \subseteq H
         /\ \A t \in HeadersOf(c, s) :
              t = s \/ \E x \in HeadersOf(c, s), i \in Direct : c[x].dataSectors[i] = t
<1> DEFINE T1 == SubHeadersOf(c, {s})
           T2 == SubHeadersOf(c, T1)
           T3 == SubHeadersOf(c, T2)
<1>1. T1 \subseteq H /\ \A t \in T1 : \E x \in {s}, i \in Direct : c[x].dataSectors[i] = t
  BY SubHeadersAre
<1>2. T2 \subseteq H /\ \A t \in T2 : \E x \in T1, i \in Direct : c[x].dataSectors[i] = t
  <2> HIDE DEF T1
  <2> QED
    BY <1>1, SubHeadersAre
<1>3. T3 \subseteq H /\ \A t \in T3 : \E x \in T2, i \in Direct : c[x].dataSectors[i] = t
  <2> HIDE DEF T2
  <2> QED
    BY <1>2, SubHeadersAre
<1>4. HeadersOf(c, s) = {s} \cup T1 \cup T2 \cup T3
  BY DEF HeadersOf
<1> HIDE DEF T1, T2, T3
<1> QED
  BY <1>1, <1>2, <1>3, <1>4

\* Two files have no header in common.
LEMMA HeadersApart ==
  ASSUME NEW c, NEW M, NEW H, SoundHeaders(c, M, H),
         NEW f, NEW g, Top(c, H, f), Top(c, H, g), f # g
  PROVE  HeadersOf(c, f) \cap HeadersOf(c, g) = {}
<1> DEFINE G == HeadersOf(c, g)
           T1 == SubHeadersOf(c, {f})
           T2 == SubHeadersOf(c, T1)
           T3 == SubHeadersOf(c, T2)
<1>1. G \subseteq H /\ \A t \in G : t = g \/ \E x \in G, i \in Direct : c[x].dataSectors[i] = t
  BY HeadersAre DEF Top
<1>2. f \notin G
  BY <1>1 DEF Top
<1>3. ASSUME NEW S, S \subseteq H, S \cap G = {}
      PROVE  SubHeadersOf(c, S) \subseteq H /\ SubHeadersOf(c, S) \cap G = {}
  <2>1. SubHeadersOf(c, S) \subseteq H
    BY <1>3, SubHeadersAre
  <2>2. SUFFICES ASSUME NEW t \in SubHeadersOf(c, S), t \in G PROVE FALSE
    BY <2>1
  <2> HIDE DEF G
  <2>3. PICK x \in S, i \in Direct : c[x].dataSectors[i] = t
    BY <1>3, SubHeadersAre
  <2>4. t # g
    BY <1>3, <2>3 DEF Top
  <2>5. PICK y \in G, j \in Direct : c[y].dataSectors[j] = t
    BY <1>1, <2>2, <2>4
  <2>6. t \in Sector
    BY <2>1, <2>2 DEF SoundHeaders
  <2>7. x = y
    BY <1>1, <1>3, <2>3, <2>5, <2>6 DEF SoundHeaders, NoneShared
  <2> QED
    BY <1>3, <2>5, <2>7
<1> HIDE DEF G
<1>4. {f} \subseteq H /\ {f} \cap G = {}
  BY <1>2 DEF Top
<1>5. T1 \subseteq H /\ T1 \cap G = {}
  BY <1>3, <1>4
<1>6. T2 \subseteq H /\ T2 \cap G = {}
  <2> HIDE DEF T1
  <2> QED
    BY <1>3, <1>5
<1>7. T3 \subseteq H /\ T3 \cap G = {}
  <2> HIDE DEF T2
  <2> QED
    BY <1>3, <1>6
<1>8. HeadersOf(c, f) = {f} \cup T1 \cup T2 \cup T3
  BY DEF HeadersOf
<1> HIDE DEF T1, T2, T3
<1> QED
  BY <1>4, <1>5, <1>6, <1>7, <1>8 DEF G

\* What EachSectorOneOwner says of the sectors of the files f and g alone.
LEMMA OwnersApart ==
  ASSUME NEW c, NEW M, NEW H, SoundHeaders(c, M, H),
         NEW f, Top(c, H, f)
  PROVE  /\ \A r, q \in DOMAIN Layout(c, f) :
              /\ Layout(c, f)[r] # f
              /\ r # q => Layout(c, f)[r] # Layout(c, f)[q]
         /\ SectorsOf(c, f) \subseteq M
         /\ \A g : Top(c, H, g) /\ f # g => SectorsOf(c, f) \cap SectorsOf(c, g) = {}
<1> DEFINE P(s) == PlacesIn(c, HeadersOf(c, s))
<1>1. ASSUME NEW s, Top(c, H, s) PROVE HeadersOf(c, s) \subseteq H
  BY <1>1, HeadersAre DEF Top
<1>2. ASSUME NEW s, Top(c, H, s), NEW r \in P(s)
      PROVE  /\ r[1] \in HeadersOf(c, s) /\ r[1] \in H /\ r[2] \in Direct /\ r = <<r[1], r[2]>>
             /\ Named(c, r) = c[r[1]].dataSectors[r[2]] /\ Named(c, r) \in Sector
             /\ Named(c, r) \in M
  <2>1. HeadersOf(c, s) \subseteq H
    BY <1>1, <1>2
  <2> QED
    BY <1>2, <2>1, PlacesAre
<1>3. DOMAIN Layout(c, f) = P(f) /\ \A r \in P(f) : Layout(c, f)[r] = Named(c, r)
  BY DEF Layout
<1>4. \A s : SectorsOf(c, s) = {s} \cup {Named(c, r) : r \in P(s)}
  BY DEF SectorsOf
<1> HIDE DEF P
<1>5. ASSUME NEW s, Top(c, H, s), NEW t, Top(c, H, t), NEW r \in P(s) PROVE Named(c, r) # t
  BY <1>2, <1>5 DEF Top
<1>6. ASSUME NEW r \in P(f), NEW q \in P(f), r # q PROVE Named(c, r) # Named(c, q)
  <2>1. ~(r[1] = q[1] /\ r[2] = q[2])
    BY <1>2, <1>6
  <2> QED
    BY <1>2, <2>1 DEF SoundHeaders, NoneShared
<1>7. SectorsOf(c, f) \subseteq M
  <2>1. f \in M
    BY DEF Top, SoundHeaders
  <2> QED
    BY <1>2, <1>4, <2>1
<1>8. ASSUME NEW g, Top(c, H, g), f # g PROVE SectorsOf(c, f) \cap SectorsOf(c, g) = {}
  <2>1. HeadersOf(c, f) \cap HeadersOf(c, g) = {}
    BY <1>8, HeadersApart
  <2>2. ASSUME NEW r \in P(f), NEW q \in P(g) PROVE Named(c, r) # Named(c, q)
    <3>1. r[1] # q[1]
      BY <1>2, <1>8, <2>1
    <3> QED
      BY <1>2, <1>8, <3>1 DEF SoundHeaders, NoneShared
  <2> QED
    BY <1>4, <1>5, <1>8, <2>2
<1> QED
  BY <1>3, <1>5, <1>6, <1>7, <1>8

-------------------------------------------------------------------------------
(* The files of a sound disk *)

\* The table of a directory is in its first sector.
LEMMA TableSectorIs ==
  ASSUME NEW c, NEW d, IsLeaf(c[d])
  PROVE  ByteToSector(c, c[d], 0) = FirstOf(c, d)
<1>1. 0 \div SectorSize = 0
  BY Limits
<1> QED
  BY <1>1, ByteOfLeaf DEF FirstOf

EntryFile(c, p, d, k) ==
  [path |-> Append(p, TableOf(c, d)[k].name), sector |-> Target(c, d, k),
   isDirectory |-> TableOf(c, d)[k].isDirectory]

\* The entries of a directory's table are what is found in it.
LEMMA EntriesAre ==
  ASSUME NEW c, NEW M, NEW H, NEW D, NEW Z, Sound(c, M, H, D, Z), NEW p, p.sector \in D
  PROVE  \A f : f \in EntriesOf(c, p) <=>
           \E k \in Index : Used(c, p.sector, k) /\ f = EntryFile(c, p.path, p.sector, k)
<1> DEFINE d == p.sector
           t == FirstOf(c, d)
<1>1. IsLeaf(c[d]) /\ (t \in Sector => c[t] \in TableRecord)
  BY DEF Sound, SoundTables
<1>5. c[d].kind = "header" /\ ~(c[d].numBytes > Limit2)
  <2>1. Sized(c[d], MaxSize)
    BY DEF Sound, SoundTables, SoundHeaders
  <2> QED
    BY <1>1, <2>1, Limits DEF Sized, Header, IsLeaf
<1>2. ByteToSector(c, c[d], 0) = t
  BY <1>1, TableSectorIs
<1>3. CASE t \notin Sector
  <2>1. EntriesOf(c, p) = {}
    BY <1>2, <1>3 DEF EntriesOf
  <2> QED
    BY <1>3, <2>1 DEF Used
<1>4. CASE t \in Sector
  <2> DEFINE e == c[t].entry
  <2>1. c[t].kind = "table" /\ DOMAIN e = Index
    BY <1>1, <1>4 DEF TableRecord
  <2>2. EntriesOf(c, p) =
          {[path |-> Append(p.path, e[i].name), sector |-> e[i].sector,
            isDirectory |-> e[i].isDirectory] : i \in {i \in DOMAIN e : e[i].inUse}}
    BY <1>2, <1>4, <1>5, <2>1 DEF EntriesOf
  <2>3. \A k \in Index : Used(c, d, k) <=> e[k].inUse
    BY <1>4 DEF Used, TableOf
  <2>4. \A k \in Index : EntryFile(c, p.path, d, k) =
          [path |-> Append(p.path, e[k].name), sector |-> e[k].sector,
           isDirectory |-> e[k].isDirectory]
    BY DEF EntryFile, TableOf, Target
  <2> HIDE DEF e, d
  <2>5. \A f : f \in EntriesOf(c, p) <=>
          \E k \in Index : e[k].inUse /\ f = [path |-> Append(p.path, e[k].name),
                               sector |-> e[k].sector, isDirectory |-> e[k].isDirectory]
    BY <2>1, <2>2, Zenon
  <2>6. ASSUME NEW f
        PROVE  f \in EntriesOf(c, p) <=>
                 \E k \in Index : Used(c, d, k) /\ f = EntryFile(c, p.path, d, k)
    <3>1. ASSUME f \in EntriesOf(c, p)
          PROVE  \E k \in Index : Used(c, d, k) /\ f = EntryFile(c, p.path, d, k)
      <4>1. PICK k \in Index : e[k].inUse /\ f = [path |-> Append(p.path, e[k].name),
                               sector |-> e[k].sector, isDirectory |-> e[k].isDirectory]
        BY <2>5, <3>1, Zenon
      <4>2. f = EntryFile(c, p.path, d, k)
        BY <2>4, <4>1, Zenon
      <4> QED
        BY <2>3, <4>1, <4>2
    <3>2. ASSUME NEW k \in Index, Used(c, d, k), f = EntryFile(c, p.path, d, k)
          PROVE  f \in EntriesOf(c, p)
      <4>1. e[k].inUse /\ f = [path |-> Append(p.path, e[k].name),
                               sector |-> e[k].sector, isDirectory |-> e[k].isDirectory]
        BY <2>3, <2>4, <3>2, Zenon
      <4> QED
        BY <2>5, <4>1, Zenon
    <3> QED
      BY <3>1, <3>2
  <2> QED
    BY <2>6 DEF d
<1> QED
  BY <1>3, <1>4

\* The files within so many names, name by name.
LEMMA ReachedIs ==
  ASSUME NEW c, NEW n \in Nat, n = Tables(c)
  PROVE  /\ Reached(c)[0] = {Root}
         /\ \A i \in 0 .. n - 1 : Reached(c)[i + 1] =
              {Root} \cup UNION {EntriesOf(c, f) : f \in {f \in Reached(c)[i] : f.isDirectory}}
<1> DEFINE Next1(S) == {Root} \cup UNION {EntriesOf(c, f) : f \in {f \in S : f.isDirectory}}
           Is(f, m) == f = [i \in 0 .. m |-> IF i = 0 THEN {Root} ELSE Next1(f[i - 1])]
           A == {m \in Nat : \E f : Is(f, m)}
<1> HIDE DEF Next1
<1>1. 0 \in A
  <2>1. Is([i \in 0 .. 0 |-> {Root}], 0)
    OBVIOUS
  <2> QED
    BY <2>1
<1>2. ASSUME NEW m \in A PROVE m + 1 \in A
  <2>1. PICK f : Is(f, m)
    OBVIOUS
  <2> DEFINE g == [i \in 0 .. m + 1 |-> IF i <= m THEN f[i] ELSE Next1(f[m])]
  <2>2. ASSUME NEW i \in 0 .. m + 1
        PROVE  g[i] = IF i = 0 THEN {Root} ELSE Next1(g[i - 1])
    <3>1. CASE i = 0
      BY <2>1, <3>1
    <3>2. CASE i \in 1 .. m
      <4>3. i \in 0 .. m /\ i # 0
        BY <3>2
      <4>1. f[i] = Next1(f[i - 1])
        BY <2>1, <4>3
      <4>2. g[i] = f[i] /\ g[i - 1] = f[i - 1] /\ i # 0
        BY <3>2
      <4> QED
        BY <4>1, <4>2
    <3>3. CASE i = m + 1
      BY <2>1, <3>3
    <3> QED
      BY <3>1, <3>2, <3>3
  <2>3. g = [i \in 0 .. m + 1 |-> g[i]]
    OBVIOUS
  <2> HIDE DEF g
  <2>4. Is(g, m + 1)
    BY <2>2, <2>3
  <2> QED
    BY <2>4
<1>3. A = Nat
  <2>1. A \in SUBSET Nat
    OBVIOUS
  <2> HIDE DEF A
  <2> QED
    BY <1>1, <1>2, <2>1, Induction
<1>4. PICK f : Is(f, n)
  BY <1>3
<1> DEFINE a == Reached(c)
<1>5. a = CHOOSE f1 : Is(f1, n)
  BY DEF Reached, Next1
<1>6. Is(a, n)
  BY <1>4, <1>5
<1> HIDE DEF a
<1>7. a[0] = {Root}
  BY <1>6
<1>8. ASSUME NEW i \in 0 .. n - 1 PROVE a[i + 1] = Next1(a[i])
  <2>1. i + 1 \in 0 .. n /\ i + 1 # 0 /\ (i + 1) - 1 = i
    OBVIOUS
  <2> QED
    BY <1>6, <2>1
<1> QED
  BY <1>7, <1>8 DEF a, Next1

\* f is the file of an entry of the directory p.
ChildOf(c, D, f, p) ==
  p.sector \in D /\ \E k \in Index : Used(c, p.sector, k) /\ f = EntryFile(c, p.path, p.sector, k)

\* How many tables there are is a number.
LEMMA TablesType ==
  ASSUME NEW c
  PROVE  Tables(c) \in Nat
BY SectorsAreFinite DEF Tables

\* What the files found within n names are.
FoundWell(c, H, D, S, T) ==
  \A f \in S :
    /\ Top(c, H, f.sector) /\ f.sector # FreeMapSector
    /\ f.isDirectory <=> f.sector \in D
    /\ f.path \in Seq(Name)
    /\ f.sector = DirectorySector <=> f = Root
    /\ f.path = <<>> <=> f = Root
    /\ f # Root => \E p \in T : ChildOf(c, D, f, p)

\* What is found from the root has a header that no header names, is a directory
\* when its entry says so, and has an entry in a directory found one name before.
LEMMA FilesFound ==
  ASSUME NEW c, NEW M, NEW H, NEW D, Sound(c, M, H, D, {}),
         NEW n, n = Tables(c)
  PROVE  \A i \in 0 .. n :
           FoundWell(c, H, D, Reached(c)[i], IF i = 0 THEN {} ELSE Reached(c)[i - 1])
<1> DEFINE R == Reached(c)
           From(i) == IF i = 0 THEN {} ELSE R[i - 1]
           Good == {i \in Nat : FoundWell(c, H, D, R[i], From(i))}
<1>0. n \in Nat
  BY TablesType
<1>1. /\ R[0] = {Root}
      /\ \A i \in 0 .. n - 1 : R[i + 1] =
           {Root} \cup UNION {EntriesOf(c, f) : f \in {f \in R[i] : f.isDirectory}}
  BY <1>0, ReachedIs
<1>2. SoundHeaders(c, M, H) /\ SoundTables(c, M, H, D, {})
  BY DEF Sound
<1> HIDE DEF R
<1>3. /\ Root.sector = DirectorySector /\ Root.isDirectory /\ Root.path = <<>> /\ <<>> \in Seq(Name)
      /\ Top(c, H, DirectorySector) /\ DirectorySector \in D /\ DirectorySector # FreeMapSector
  BY <1>2 DEF Root, SoundTables, SoundHeaders, Top, DirectorySector, FreeMapSector
<1>4. FoundWell(c, H, D, {Root}, {})
  BY <1>3 DEF FoundWell
<1>5. 0 \in Good
  BY <1>1, <1>4
<1>6. ASSUME NEW i \in 0 .. n - 1, i \in Good PROVE i + 1 \in Good
  <2>1. FoundWell(c, H, D, R[i], From(i))
    BY <1>6
  <2>2. ASSUME NEW p \in R[i], p.isDirectory, NEW f \in EntriesOf(c, p)
        PROVE  /\ ChildOf(c, D, f, p) /\ f # Root /\ f.path # <<>> /\ f.path \in Seq(Name)
               /\ f.sector # DirectorySector /\ f.sector # FreeMapSector
               /\ Top(c, H, f.sector) /\ (f.isDirectory <=> f.sector \in D)
    <3>1. p.sector \in D /\ p.path \in Seq(Name)
      BY <2>1, <2>2 DEF FoundWell
    <3>2. PICK k \in Index : Used(c, p.sector, k) /\ f = EntryFile(c, p.path, p.sector, k)
      BY <1>2, <2>2, <3>1, EntriesAre
    <3>3. Live(c, H, D, p.sector, k) /\ TableOf(c, p.sector)[k].name \in Name
      BY <1>2, <3>1, <3>2 DEF SoundTables
    <3>4. /\ f.path = Append(p.path, TableOf(c, p.sector)[k].name)
          /\ f.sector = Target(c, p.sector, k)
          /\ f.isDirectory = TableOf(c, p.sector)[k].isDirectory
      BY <3>2 DEF EntryFile
    <3>5. f.path \in Seq(Name) /\ f.path # <<>>
      BY <3>1, <3>3, <3>4, AppendProperties
    <3> QED
      BY <1>3, <3>1, <3>2, <3>3, <3>4, <3>5 DEF Live, ChildOf
  <2>3. ASSUME NEW f \in R[i + 1]
        PROVE  f = Root \/ \E p \in R[i] : p.isDirectory /\ f \in EntriesOf(c, p)
    BY <1>1, <1>6, <2>3
  <2>4. FoundWell(c, H, D, R[i + 1], R[i])
    <3> SUFFICES ASSUME NEW f \in R[i + 1]
                 PROVE  /\ Top(c, H, f.sector) /\ f.sector # FreeMapSector
                        /\ f.isDirectory <=> f.sector \in D
                        /\ f.path \in Seq(Name)
                        /\ f.sector = DirectorySector <=> f = Root
                        /\ f.path = <<>> <=> f = Root
                        /\ f # Root => \E p \in R[i] : ChildOf(c, D, f, p)
      BY DEF FoundWell
    <3>1. CASE f = Root
      BY <1>3, <3>1
    <3>2. CASE \E p \in R[i] : p.isDirectory /\ f \in EntriesOf(c, p)
      BY <2>2, <3>2
    <3> QED
      BY <2>3, <3>1, <3>2
  <2>5. i + 1 \in Nat /\ From(i + 1) = R[i]
    OBVIOUS
  <2> QED
    BY <2>4, <2>5
<1>7. \A i \in 0 .. n : i \in Good
  <2>1. Good \in SUBSET Nat
    OBVIOUS
  <2> HIDE DEF Good
  <2> QED
    BY <1>0, <1>5, <1>6, <2>1, InductionUpTo
<1> QED
  BY <1>7 DEF R

\* A file is found once: it has one entry, as each directory above it.
LEMMA OneFilePerSector ==
  ASSUME NEW c, NEW M, NEW H, NEW D, Sound(c, M, H, D, {}), NEW n, n = Tables(c)
  PROVE  \A i, j \in 0 .. n : \A f \in Reached(c)[i], g \in Reached(c)[j] :
           f.sector = g.sector \/ f.path = g.path => f = g
<1> DEFINE R == Reached(c)
           Good == {i \in Nat : \A j \in 0 .. n : \A f \in R[i], g \in R[j] :
                      f.sector = g.sector \/ f.path = g.path => f = g}
<1>0. n \in Nat
  BY TablesType
<1>1. /\ SoundTables(c, M, H, D, {})
      /\ \A i \in 0 .. n : FoundWell(c, H, D, R[i], IF i = 0 THEN {} ELSE R[i - 1])
  BY FilesFound DEF Sound
<1>2. R[0] = {Root}
  BY <1>0, ReachedIs
<1> HIDE DEF R
<1>3. ASSUME NEW j \in 0 .. n, NEW f \in R[j], f.sector = DirectorySector \/ f.path = <<>>
      PROVE  f = Root
  BY <1>1, <1>3 DEF FoundWell
<1>4. Root.sector = DirectorySector /\ Root.path = <<>>
  BY DEF Root
<1>5. 0 \in Good
  <2> SUFFICES ASSUME NEW j \in 0 .. n, NEW g \in R[j], Root.sector = g.sector \/ Root.path = g.path
               PROVE  Root = g
    BY <1>2
  <2> QED
    BY <1>3, <1>4
<1>6. ASSUME NEW i \in 0 .. n - 1, i \in Good PROVE i + 1 \in Good
  <2> SUFFICES ASSUME NEW j \in 0 .. n, NEW f \in R[i + 1], NEW g \in R[j],
                      f.sector = g.sector \/ f.path = g.path
               PROVE  f = g
    BY <1>0
  <2>0. i + 1 \in 0 .. n /\ i + 1 # 0 /\ (i + 1) - 1 = i /\ i \in 0 .. n
    BY <1>0
  <2>1. CASE f = Root
    BY <1>3, <1>4, <2>1
  <2>2. CASE g = Root
    BY <1>3, <1>4, <2>0, <2>2
  <2>3. CASE f # Root /\ g # Root
    <3>1. PICK p \in R[i] : ChildOf(c, D, f, p)
      BY <1>1, <2>0, <2>3 DEF FoundWell
    <3>2. j # 0
      BY <1>2, <2>3
    <3>3. PICK q \in R[j - 1] : ChildOf(c, D, g, q)
      BY <1>1, <2>3, <3>2 DEF FoundWell
    <3>4. PICK k \in Index : Used(c, p.sector, k) /\ f = EntryFile(c, p.path, p.sector, k)
      BY <3>1 DEF ChildOf
    <3>5. PICK l \in Index : Used(c, q.sector, l) /\ g = EntryFile(c, q.path, q.sector, l)
      BY <3>3 DEF ChildOf
    <3>6. j - 1 \in 0 .. n
      BY <1>0, <3>2
    <3>7. p.sector \in D /\ q.sector \in D /\ p.path \in Seq(Name) /\ q.path \in Seq(Name)
      BY <1>1, <2>0, <3>1, <3>3, <3>6 DEF ChildOf, FoundWell
    <3>8. /\ f.sector = Target(c, p.sector, k) /\ g.sector = Target(c, q.sector, l)
          /\ f.path = Append(p.path, TableOf(c, p.sector)[k].name)
          /\ g.path = Append(q.path, TableOf(c, q.sector)[l].name)
      BY <3>4, <3>5 DEF EntryFile
    <3>9. f.sector \in H
      BY <1>1, <2>0 DEF FoundWell, Top
    <3>10. CASE f.sector = g.sector
      <4>1. p.sector = q.sector /\ k = l
        BY <1>1, <3>4, <3>5, <3>7, <3>8, <3>9, <3>10 DEF SoundTables
      <4>2. p = q
        BY <1>6, <3>6, <4>1
      <4> QED
        BY <3>4, <3>5, <4>1, <4>2
    <3>11. CASE f.path = g.path
      <4>0. TableOf(c, p.sector)[k].name \in Name /\ TableOf(c, q.sector)[l].name \in Name
        BY <1>1, <3>4, <3>5, <3>7 DEF SoundTables
      <4>1. p.path = q.path /\ TableOf(c, p.sector)[k].name = TableOf(c, q.sector)[l].name
        <5> DEFINE s == p.path
                   t == q.path
                   x == TableOf(c, p.sector)[k].name
                   y == TableOf(c, q.sector)[l].name
        <5>1. s \in Seq(Name) /\ t \in Seq(Name) /\ x \in Name /\ y \in Name
              /\ Append(s, x) = Append(t, y)
          BY <3>7, <3>8, <3>11, <4>0
        <5> HIDE DEF s, t, x, y
        <5>2. s = t /\ x = y
          BY <5>1, AppendInjective
        <5> QED
          BY <5>2 DEF s, t, x, y
      <4>2. p = q
        BY <1>6, <3>6, <4>1
      <4>3. k = l
        BY <1>1, <3>4, <3>5, <3>7, <4>1, <4>2 DEF SoundTables
      <4> QED
        BY <3>4, <3>5, <4>2, <4>3
    <3> QED
      BY <3>10, <3>11
  <2> QED
    BY <2>1, <2>2, <2>3
<1>7. \A i \in 0 .. n : i \in Good
  <2>1. Good \in SUBSET Nat
    OBVIOUS
  <2> HIDE DEF Good
  <2> QED
    BY <1>0, <1>5, <1>6, <2>1, InductionUpTo
<1> QED
  BY <1>7 DEF R

\* The files of a sound disk are different headers, no header names them, and
\* their paths are different.
LEMMA FilesAreApart ==
  ASSUME NEW c, NEW M, NEW H, NEW D, Sound(c, M, H, D, {})
  PROVE  /\ \A f \in FilesIn(c) : Top(c, H, f.sector)
         /\ \A f, g \in FilesIn(c) : f.sector = g.sector => f = g
         /\ \A f, g \in EntriesIn(c) : f.path = g.path => f = g
<1> DEFINE n == Tables(c)
           R == Reached(c)
           m == [path |-> <<"">>, sector |-> FreeMapSector, isDirectory |-> FALSE]
<1>1. n \in 0 .. n
  BY TablesType
<1>2. \A f, g \in R[n] : f.sector = g.sector \/ f.path = g.path => f = g
  BY <1>1, OneFilePerSector
<1>3. \A f \in R[n] : Top(c, H, f.sector) /\ f.sector # FreeMapSector
  BY <1>1, FilesFound DEF FoundWell
<1>4. Top(c, H, FreeMapSector) /\ Top(c, H, DirectorySector) /\ m.sector = FreeMapSector
  BY DEF Sound, SoundHeaders, SoundTables, Top
<1>5. FreeMapSector # DirectorySector /\ Root.sector = DirectorySector
  BY DEF FreeMapSector, DirectorySector, Root
<1>6. \A f \in R[n] : f.sector = DirectorySector => f = Root
  BY <1>1, FilesFound DEF FoundWell
<1>7. FilesIn(c) = (R[n] \ {Root}) \cup {Root, m} /\ EntriesIn(c) = R[n] \ {Root}
  BY DEF FilesIn, EntriesIn
<1> HIDE DEF R, n, m
<1> QED
  BY <1>2, <1>3, <1>4, <1>5, <1>6, <1>7

\* On a sound disk each sector has one owner and each path leads to one file: what
\* EachSectorOneOwner and TypeOK say of a disk that was not cut short.
LEMMA SoundIsOwned ==
  ASSUME NEW H, NEW D, Sound(content, map, H, D, {})
  PROVE  EachSectorOneOwner /\ \A f, g \in Entries : f.path = g.path => f = g
<1>1. /\ \A f \in Files : Top(content, H, f.sector)
      /\ \A f, g \in Files : f.sector = g.sector => f = g
      /\ \A f, g \in Entries : f.path = g.path => f = g
  BY FilesAreApart DEF Files, Entries
<1>2. SoundHeaders(content, map, H)
  BY DEF Sound
<1>3. ASSUME NEW f \in Files
      PROVE  /\ \A r, q \in DOMAIN Layout(content, f.sector) :
                  /\ Layout(content, f.sector)[r] # f.sector
                  /\ r # q => Layout(content, f.sector)[r] # Layout(content, f.sector)[q]
             /\ Owned(f) \subseteq map
             /\ \A g \in Files \ {f} : Owned(f) \cap Owned(g) = {}
  <2> DEFINE s == f.sector
  <2>1. Top(content, H, s)
    BY <1>1
  <2> HIDE DEF s
  <2>2. /\ \A r, q \in DOMAIN Layout(content, s) :
              /\ Layout(content, s)[r] # s
              /\ r # q => Layout(content, s)[r] # Layout(content, s)[q]
        /\ SectorsOf(content, s) \subseteq map
        /\ \A t : Top(content, H, t) /\ s # t => SectorsOf(content, s) \cap SectorsOf(content, t) = {}
    BY <1>2, <2>1, OwnersApart
  <2>3. \A g \in Files \ {f} : Top(content, H, g.sector) /\ s # g.sector
    BY <1>1 DEF s
  <2>4. \A g \in Files \ {f} : SectorsOf(content, s) \cap SectorsOf(content, g.sector) = {}
    BY <2>2, <2>3
  <2> QED
    BY <2>2, <2>4 DEF s, Owned
<1> QED
  BY <1>1, <1>3 DEF EachSectorOneOwner

-------------------------------------------------------------------------------
(* Removing an entry with its file *)

\* The sub-headers of headers in use are in use, and named.
LEMMA SubsAre ==
  ASSUME NEW c, NEW M, NEW H, SoundHeaders(c, M, H), NEW S, S \subseteq H
  PROVE  /\ Subs(c, S) \subseteq H
         /\ \A t \in Subs(c, S) : \E x \in S, i \in Direct : c[x].dataSectors[i] = t
BY DEF Subs, SoundHeaders, Names

\* The headers below s are s and headers they name.
LEMMA BelowAre ==
  ASSUME NEW c, NEW M, NEW H, SoundHeaders(c, M, H), NEW s \in H
  PROVE  /\ Below4(c, {s}) \subseteq H /\ s \in Below4(c, {s})
         /\ \A t \in Below4(c, {s}) :
              t = s \/ \E x \in Below4(c, {s}), i \in Direct : c[x].dataSectors[i] = t
<1> DEFINE T1 == Subs(c, {s})
           T2 == Subs(c, T1)
           T3 == Subs(c, T2)
<1>1. T1 \subseteq H /\ \A t \in T1 : \E x \in {s}, i \in Direct : c[x].dataSectors[i] = t
  BY SubsAre
<1>2. T2 \subseteq H /\ \A t \in T2 : \E x \in T1, i \in Direct : c[x].dataSectors[i] = t
  <2> HIDE DEF T1
  <2> QED
    BY <1>1, SubsAre
<1>3. T3 \subseteq H /\ \A t \in T3 : \E x \in T2, i \in Direct : c[x].dataSectors[i] = t
  <2> HIDE DEF T2
  <2> QED
    BY <1>2, SubsAre
<1>4. Below4(c, {s}) = {s} \cup T1 \cup T2 \cup T3
  BY DEF Below4, Below3, Below2, Below1
<1> HIDE DEF T1, T2, T3
<1> QED
  BY <1>1, <1>2, <1>3, <1>4

\* The headers in use have the shape Deallocate relies on.
LEMMA SoundShape ==
  ASSUME NEW c, NEW M, NEW H, SoundHeaders(c, M, H)
  PROVE  Shape(c, H)
BY DEF SoundHeaders, Shape, Names

\* The file s, with the headers B and some blocks F, is taken away: b, M2, H2.
TakenAway(c, M, H, b, M2, H2, s, B, F) ==
  /\ c \in Content /\ SoundHeaders(c, M, H)
  /\ Top(c, H, s) /\ s \notin {FreeMapSector, DirectorySector}
  /\ B = Below4(c, {s}) /\ F \subseteq BlocksIn(c, B)
  /\ M2 = (M \ F) \ {s} /\ H2 = H \ B
  /\ \A x \in H : b[x] = c[x]
  /\ \A x \in H, i \in Direct :
       c[x].dataSectors[i] # FreeMapSector /\ c[x].dataSectors[i] # DirectorySector

\* The other headers stay sound when the headers of one file and blocks of it are
\* taken away.
LEMMA HeadersRemoved ==
  ASSUME NEW c, NEW M, NEW H, NEW b, NEW M2, NEW H2, NEW s, NEW B, NEW F,
         TakenAway(c, M, H, b, M2, H2, s, B, F)
  PROVE  /\ SoundHeaders(b, M2, H2)
         /\ FreeMapSector \notin B /\ DirectorySector \notin B /\ B \subseteq H
         /\ \A t : Top(c, H, t) /\ t # s => t \notin B
<1> USE DEF TakenAway
<1>1. /\ B \subseteq H /\ s \in B
      /\ \A t \in B : t = s \/ \E x \in B, i \in Direct : c[x].dataSectors[i] = t
  BY BelowAre DEF Top
<1>2. FreeMapSector \notin B /\ DirectorySector \notin B
  BY <1>1
<1>3. \A t : Top(c, H, t) /\ t # s => t \notin B
  BY <1>1 DEF Top
<1>4. \A t \in F : t \in Sector /\ \E x \in B, i \in Direct : IsLeaf(c[x]) /\ c[x].dataSectors[i] = t
  BY DEF BlocksIn
<1>5. ASSUME NEW t \in F PROVE t \notin H
  <2>1. PICK x \in B, i \in Direct : IsLeaf(c[x]) /\ c[x].dataSectors[i] = t
    BY <1>4
  <2>2. x \in H /\ t \in Sector
    BY <1>1, <1>4, <2>1
  <2>3. Names(c[x], H, M \ {FreeMapSector, DirectorySector})
    BY <2>2 DEF SoundHeaders
  <2> QED
    BY <2>1, <2>2, <2>3 DEF Names
<1>6. ASSUME NEW x \in H2, NEW i \in Direct, c[x].dataSectors[i] \in Sector
      PROVE  c[x].dataSectors[i] \notin F /\ c[x].dataSectors[i] \notin B
             /\ c[x].dataSectors[i] # s
  <2> DEFINE t == c[x].dataSectors[i]
  <2>1. t # s
    BY DEF Top
  <2>2. ASSUME NEW y \in B, NEW j \in Direct, c[y].dataSectors[j] = t PROVE FALSE
    <3>1. x \in H /\ y \in H /\ x # y
      BY <1>1, <2>2
    <3>2. NoneShared(c, H) /\ t \in Sector
      BY <1>6 DEF SoundHeaders
    <3> QED
      BY <2>2, <3>1, <3>2 DEF NoneShared
  <2>3. ASSUME t \in F PROVE FALSE
    <3>1. \E y \in B, j \in Direct : c[y].dataSectors[j] = t
      <4> HIDE DEF t
      <4> QED
        BY <1>4, <2>3
    <3> QED
      BY <2>2, <3>1
  <2>4. ASSUME t \in B PROVE FALSE
    <3>1. \E y \in B, j \in Direct : c[y].dataSectors[j] = t
      <4> HIDE DEF t
      <4> QED
        BY <1>1, <2>1, <2>4
    <3> QED
      BY <2>2, <3>1
  <2> QED
    BY <2>1, <2>3, <2>4
<1>7. H2 \subseteq M2 /\ M2 \subseteq Sector
  BY <1>1, <1>5 DEF SoundHeaders
<1>8. ASSUME NEW x \in H2
      PROVE  /\ Sized(b[x], MaxSize) /\ Shares(b, b[x], H2)
             /\ Names(b[x], H2, M2 \ {FreeMapSector, DirectorySector})
  <2>1. b[x] = c[x] /\ Sized(c[x], MaxSize) /\ Shares(c, c[x], H)
    BY DEF SoundHeaders
  <2>2. Shares(b, b[x], H2)
    BY <2>1 DEF Shares
  <2>3. Names(c[x], H2, M2 \ {FreeMapSector, DirectorySector})
    BY <1>6 DEF SoundHeaders, Names
  <2> QED
    BY <2>1, <2>2, <2>3
<1>9. NoneShared(b, H2)
  BY DEF SoundHeaders, NoneShared
<1>10. SoundHeaders(b, M2, H2)
  <2>1. FreeMapSector \in H2 /\ DirectorySector \in H2
    BY <1>2 DEF SoundHeaders
  <2> QED
    BY <1>7, <1>8, <1>9, <2>1 DEF SoundHeaders
<1> QED
  BY <1>1, <1>2, <1>3, <1>10

\* The table e of dir without entry k, which may have entries of directories
\* that are gone.
Without(c, M, Z, dir, k, e) ==
  /\ e \in [Index -> Entry]
  /\ \A l \in Index : e[l].inUse =>
       /\ l # k /\ e[l].name \in Name
       /\ \/ e[l] = TableOf(c, dir)[l]
          \/ dir \in Z /\ e[l].isDirectory /\ e[l].sector \notin M
  /\ \A l, m \in Index : e[l].inUse /\ e[m].inUse /\ e[l].name = e[m].name => l = m

\* The entry k of dir, its file and some blocks F of it are taken away, as e is
\* written: c, M, H, D become b, M2, H2, D2.
EntryTaken(c, M, H, D, Z, dir, k, e, F, b, M2, H2, D2) ==
  LET s == Target(c, dir, k)
      B == Below4(c, {s})
  IN  /\ c \in Content /\ Sound(c, M, H, D, Z)
      /\ dir \in D /\ FirstOf(c, dir) \in Sector
      /\ k \in Index /\ Used(c, dir, k) /\ Live(c, H, D, dir, k) /\ Without(c, M, Z, dir, k, e)
      /\ F \subseteq BlocksIn(c, B)
      /\ b = Put(c, FirstOf(c, dir), Table(e)) /\ M2 = (M \ F) \ {s}
      /\ H2 = H \ B /\ D2 = D \ B

\* The disk stays sound when one entry is taken away with its header, the headers
\* below it and any of their blocks, and the other files stay.
LEMMA EntryRemoved ==
  ASSUME NEW c, NEW M, NEW H, NEW D, NEW Z, NEW dir, NEW k, NEW e, NEW F,
         NEW b, NEW M2, NEW H2, NEW D2, EntryTaken(c, M, H, D, Z, dir, k, e, F, b, M2, H2, D2)
  PROVE  /\ Sound(b, M2, H2, D2, Z) /\ M2 \subseteq M /\ H2 \subseteq H /\ D2 \subseteq D
         /\ \A x \in H : b[x] = c[x]
         /\ \A y : Top(c, H, y) /\ y # Target(c, dir, k) => y \in M2 /\ (y \in D => y \in D2)
<1> DEFINE t == FirstOf(c, dir)
           s == Target(c, dir, k)
           B == Below4(c, {s})
<1>0. /\ c \in Content /\ Sound(c, M, H, D, Z) /\ dir \in D /\ t \in Sector
      /\ k \in Index /\ Used(c, dir, k) /\ Live(c, H, D, dir, k) /\ Without(c, M, Z, dir, k, e)
      /\ F \subseteq BlocksIn(c, B) /\ b = Put(c, t, Table(e)) /\ M2 = (M \ F) \ {s}
      /\ H2 = H \ B /\ D2 = D \ B
  BY DEF EntryTaken
<1> HIDE DEF t, B
<1>1. SoundHeaders(c, M, H) /\ SoundTables(c, M, H, D, Z)
  BY <1>0 DEF Sound
<1>2. Table(e) \in Stored /\ Table(e) \in TableRecord /\ Table(e).entry = e
  BY <1>0 DEF Without, Table, Stored, TableRecord, Index
<1>3. b[t] = Table(e) /\ \A x \in Sector : x # t => b[x] = c[x]
  BY <1>0, <1>2, PutIs
<1>4. dir \in H /\ IsLeaf(c[dir]) /\ 0 \in Direct
  BY <1>0, <1>1, Limits DEF SoundTables, Direct
<1>5. t \notin H
  BY <1>0, <1>1, <1>4 DEF SoundHeaders, Names, FirstOf, t
<1>6. \A x \in H : b[x] = c[x]
  BY <1>0, <1>1, <1>3, <1>5 DEF SoundHeaders
<1>7. Top(c, H, s) /\ s \notin {FreeMapSector, DirectorySector}
  BY <1>0 DEF Live
<1>8. /\ SoundHeaders(b, M2, H2)
      /\ FreeMapSector \notin B /\ DirectorySector \notin B /\ B \subseteq H
      /\ \A y : Top(c, H, y) /\ y # s => y \notin B
  <2>1. \A x \in H, i \in Direct :
          c[x].dataSectors[i] # FreeMapSector /\ c[x].dataSectors[i] # DirectorySector
    BY <1>0, <1>1 DEF SoundTables
  <2>2. TakenAway(c, M, H, b, M2, H2, s, B, F)
    BY <1>0, <1>1, <1>6, <1>7, <2>1 DEF TakenAway, B
  <2> HIDE DEF s
  <2> QED
    BY <1>0, <2>2, HeadersRemoved
<1>9. ASSUME NEW d \in D
      PROVE  /\ FirstOf(b, d) = FirstOf(c, d)
             /\ d # dir /\ FirstOf(c, d) \in Sector =>
                  b[FirstOf(c, d)] = c[FirstOf(c, d)] /\ TableOf(b, d) = TableOf(c, d)
  <2>1. d \in H
    BY <1>0, <1>1 DEF SoundTables
  <2>2. FirstOf(b, d) = FirstOf(c, d)
    BY <1>0, <1>6, <2>1 DEF FirstOf
  <2>3. ASSUME d # dir, FirstOf(c, d) \in Sector PROVE FirstOf(c, d) # t
    BY <1>0, <1>1, <1>4, <2>1, <2>3 DEF SoundHeaders, NoneShared, FirstOf, t
  <2> QED
    BY <1>0, <1>3, <2>2, <2>3 DEF TableOf
<1>10. TableOf(b, dir) = e
  BY <1>0, <1>2, <1>3, <1>9 DEF TableOf, t
\* An entry in use was there before, or is that of a directory that is gone.
<1>11. ASSUME NEW d \in D, NEW l \in Index, Used(b, d, l)
       PROVE  \/ /\ Used(c, d, l) /\ TableOf(b, d)[l] = TableOf(c, d)[l]
                 /\ ~(d = dir /\ l = k)
              \/ d = dir /\ d \in Z /\ Dangling(b, M, d, l) /\ TableOf(b, d)[l].name \in Name
  <2>1. CASE d = dir
    <3>1. e[l].inUse
      BY <1>0, <1>10, <1>11, <2>1 DEF Used
    <3>2. /\ l # k /\ e[l].name \in Name
          /\ e[l] = TableOf(c, dir)[l] \/ (dir \in Z /\ e[l].isDirectory /\ e[l].sector \notin M)
      BY <1>0, <3>1 DEF Without
    <3> QED
      BY <1>0, <1>10, <2>1, <3>1, <3>2 DEF Used, Dangling, Target
  <2>2. CASE d # dir
    BY <1>0, <1>9, <1>11, <2>2 DEF Used
  <2> QED
    BY <1>0, <2>1, <2>2
<1>12. \A d \in D, l \in Index : TableOf(b, d)[l] = TableOf(c, d)[l] => Target(b, d, l) = Target(c, d, l)
  BY <1>0 DEF Target
<1>13. ASSUME NEW d \in D2, NEW l \in Index, Used(b, d, l)
       PROVE  /\ TableOf(b, d)[l].name \in Name
              /\ Live(b, H2, D2, d, l) \/ (d \in Z /\ Dangling(b, M2, d, l))
  <2>1. CASE d \in Z /\ Dangling(b, M, d, l) /\ TableOf(b, d)[l].name \in Name
    BY <1>0, <2>1 DEF Dangling
  <2>2. CASE Used(c, d, l) /\ TableOf(b, d)[l] = TableOf(c, d)[l] /\ ~(d = dir /\ l = k)
    <3> DEFINE y == Target(c, d, l)
    <3>1. /\ TableOf(c, d)[l].name \in Name
          /\ Live(c, H, D, d, l) \/ (d \in Z /\ Dangling(c, M, d, l))
      BY <1>0, <1>1, <2>2 DEF SoundTables
    <3>2. Target(b, d, l) = y
      BY <1>0, <1>12, <2>2
    <3> HIDE DEF y
    <3>3. CASE d \in Z /\ Dangling(c, M, d, l)
      <4>1. Dangling(b, M2, d, l)
        BY <1>0, <2>2, <3>2, <3>3 DEF Dangling, y
      <4> QED
        BY <1>0, <2>2, <3>1, <3>3, <4>1
    <3>4. CASE Live(c, H, D, d, l)
      <4>1. Top(c, H, y) /\ y \notin {FreeMapSector, DirectorySector}
            /\ (TableOf(c, d)[l].isDirectory <=> y \in D)
        BY <1>0, <3>4 DEF Live, y
      <4>2. y # s
        BY <1>0, <1>1, <2>2, <4>1 DEF SoundTables, Top, y
      <4>3. y \notin B
        BY <1>0, <1>8, <4>1, <4>2
      <4>4. Top(b, H2, y)
        BY <1>0, <1>6, <4>1, <4>3 DEF Top
      <4>5. Live(b, H2, D2, d, l)
        BY <1>0, <2>2, <3>2, <4>1, <4>3, <4>4 DEF Live
      <4> QED
        BY <1>0, <2>2, <3>1, <4>5
    <3> QED
      BY <1>0, <3>1, <3>3, <3>4
  <2> QED
    BY <1>0, <1>11, <1>13, <2>1, <2>2
<1>14. ASSUME NEW d \in D2, NEW g \in D2, NEW l \in Index, NEW m \in Index,
              Used(b, d, l), Used(b, g, m), Target(b, d, l) \in H2, Target(b, d, l) = Target(b, g, m)
       PROVE  d = g /\ l = m
  <2>1. Target(b, d, l) \in H /\ Target(b, d, l) \in M
    BY <1>0, <1>1, <1>14 DEF SoundHeaders
  <2>2. Used(c, d, l) /\ TableOf(b, d)[l] = TableOf(c, d)[l]
    BY <1>0, <1>11, <1>14, <2>1 DEF Dangling
  <2>3. Used(c, g, m) /\ TableOf(b, g)[m] = TableOf(c, g)[m]
    BY <1>0, <1>11, <1>14, <2>1 DEF Dangling
  <2>4. Target(c, d, l) = Target(c, g, m) /\ Target(c, d, l) \in H
    BY <1>0, <1>12, <1>14, <2>1, <2>2, <2>3
  <2> QED
    BY <1>0, <1>1, <2>2, <2>3, <2>4 DEF SoundTables
<1>15. ASSUME NEW d \in D2, NEW l \in Index, NEW m \in Index, Used(b, d, l), Used(b, d, m),
              TableOf(b, d)[l].name = TableOf(b, d)[m].name
       PROVE  l = m
  <2>1. CASE d = dir
    BY <1>0, <1>10, <1>15, <2>1 DEF Used, Without
  <2>2. CASE d # dir
    <3>1. /\ Used(c, d, l) /\ TableOf(b, d)[l] = TableOf(c, d)[l]
          /\ Used(c, d, m) /\ TableOf(b, d)[m] = TableOf(c, d)[m]
      BY <1>0, <1>11, <1>15, <2>2
    <3> QED
      BY <1>0, <1>1, <1>15, <3>1 DEF SoundTables
  <2> QED
    BY <1>0, <2>1, <2>2
<1>16. \A d \in D2 : IsLeaf(b[d]) /\ (FirstOf(b, d) \in Sector => b[FirstOf(b, d)] \in TableRecord)
  <2> TAKE d \in D2
  <2>1. d \in H /\ IsLeaf(c[d]) /\ (FirstOf(c, d) \in Sector => c[FirstOf(c, d)] \in TableRecord)
    BY <1>0, <1>1 DEF SoundTables
  <2>2. FirstOf(b, d) = FirstOf(c, d) /\ b[d] = c[d]
    BY <1>0, <1>6, <1>9, <2>1
  <2>3. CASE d = dir
    BY <1>0, <1>2, <1>3, <2>1, <2>2, <2>3
  <2>4. CASE d # dir
    BY <1>0, <1>9, <2>1, <2>2, <2>4
  <2> QED
    BY <1>0, <2>3, <2>4
<1>17. \A x \in H2, i \in Direct :
         b[x].dataSectors[i] # FreeMapSector /\ b[x].dataSectors[i] # DirectorySector
  BY <1>0, <1>1, <1>6 DEF SoundTables
<1>18. D2 \subseteq H2 /\ DirectorySector \in D2 /\ FreeMapSector \notin D2
  BY <1>0, <1>1, <1>8 DEF SoundTables
<1>19. SoundTables(b, M2, H2, D2, Z)
  BY <1>13, <1>14, <1>15, <1>16, <1>17, <1>18 DEF SoundTables
<1>20. ASSUME NEW y, Top(c, H, y), y # s PROVE y \in M2 /\ y \notin B
  <2>1. y \in H2 /\ y \notin B
    BY <1>0, <1>8, <1>20 DEF Top
  <2> QED
    BY <1>0, <1>8, <2>1 DEF SoundHeaders
<1> QED
  BY <1>0, <1>6, <1>8, <1>19, <1>20 DEF Sound

-------------------------------------------------------------------------------
(* Tables *)

EntryTable == [Index -> Entry]

\* First finds an element of the set, or 0.
LEMMA FirstIs ==
  ASSUME NEW I \in SUBSET Index
  PROVE  \/ I = {} /\ First(I) = 0
         \/ I # {} /\ First(I) \in I /\ First(I) # 0
<1>1. Index \subseteq Nat \ {0}
  BY TreeAssumption DEF Index
<1>2. CASE I = {}
  BY <1>2 DEF First
<1>3. CASE I # {}
  <2>1. \E i \in I : \A j \in I : i <= j
    BY <1>1, <1>3, LeastExists
  <2>2. First(I) \in I
    BY <1>3, <2>1 DEF First
  <2> QED
    BY <1>1, <1>3, <2>2
<1> QED
  BY <1>2, <1>3

\* FindIndex and FreeEntry find an entry, or there is none.
LEMMA FindIndexIs ==
  ASSUME NEW e \in EntryTable, NEW x, NEW k, k = FindIndex(e, x)
  PROVE  /\ k = 0 => \A i \in Index : ~(e[i].inUse /\ e[i].name = x)
         /\ k # 0 => k \in Index /\ e[k].inUse /\ e[k].name = x
         /\ k = 0 \/ k \in Index
<1> DEFINE I == {i \in Index : e[i].inUse /\ e[i].name = x}
<1>1. FindIndex(e, x) = First(I)
  BY DEF FindIndex, EntryTable
<1>2. I \in SUBSET Index
  OBVIOUS
<1>3. \/ I = {} /\ k = 0
      \/ k \in I /\ k # 0
  <2> HIDE DEF I
  <2> QED
    BY <1>1, <1>2, FirstIs
<1> QED
  BY <1>3

\* The entry Add takes is not in use.
LEMMA FreeEntryIs ==
  ASSUME NEW e \in EntryTable, NEW k, k = FreeEntry(e), k # 0
  PROVE  k \in Index /\ ~e[k].inUse
<1> DEFINE I == {i \in Index : ~e[i].inUse}
<1>1. FreeEntry(e) = First(I)
  BY DEF FreeEntry, EntryTable
<1>2. I \in SUBSET Index
  OBVIOUS
<1>3. k \in I
  <2> HIDE DEF I
  <2> QED
    BY <1>1, <1>2, FirstIs
<1> QED
  BY <1>3

\* The entry at k is taken away, or put in use.
Less(e, k) == [e EXCEPT ![k] = Unused]
With(e, k, x, s, isDir) ==
  [e EXCEPT ![k] = [inUse |-> TRUE, sector |-> s, isDirectory |-> isDir, name |-> x]]

\* An entry is taken away, the others are as they were.
LEMMA LessIs ==
  ASSUME NEW e \in EntryTable, NEW k \in Index
  PROVE  /\ Less(e, k) \in EntryTable /\ ~Less(e, k)[k].inUse
         /\ \A i \in Index : i # k => Less(e, k)[i] = e[i]
<1>1. Unused \in Entry /\ ~Unused.inUse
  BY DEF Unused, Entry
<1> QED
  BY <1>1 DEF Less, EntryTable

\* An entry is put in use, the others are as they were.
LEMMA WithIs ==
  ASSUME NEW e \in EntryTable, NEW k \in Index, NEW x \in Name, NEW s \in Int, NEW isDir \in BOOLEAN
  PROVE  /\ With(e, k, x, s, isDir) \in EntryTable
         /\ With(e, k, x, s, isDir)[k].inUse /\ With(e, k, x, s, isDir)[k].name = x
         /\ With(e, k, x, s, isDir)[k].sector = s
         /\ With(e, k, x, s, isDir)[k].isDirectory = isDir
         /\ \A i \in Index : i # k => With(e, k, x, s, isDir)[i] = e[i]
<1>1. [inUse |-> TRUE, sector |-> s, isDirectory |-> isDir, name |-> x] \in Entry
  BY DEF Entry
<1> QED
  BY <1>1 DEF With, EntryTable

\* Directory::Remove takes away the entry FindIndex finds.
LEMMA RemoveEntryIs ==
  ASSUME NEW e \in EntryTable, NEW x, NEW k, k = FindIndex(e, x), k # 0
  PROVE  RemoveEntry(e, x) = Less(e, k) /\ Find(e, x) = e[k].sector
         /\ IsDirectory(e, x) = e[k].isDirectory
BY DEF RemoveEntry, Less, Find, IsDirectory

\* Directory::Add puts the free entry in use.
LEMMA AddIs ==
  ASSUME NEW e \in EntryTable, NEW x, NEW s, NEW isDir
  PROVE  Add(e, x, s, isDir) = IF CanAdd(e, x) THEN With(e, FreeEntry(e), x, s, isDir) ELSE e
BY DEF Add, With

\* A name that is used is that of one entry.
LEMMA FoundByName ==
  ASSUME NEW e \in EntryTable, NEW k \in Index, e[k].inUse,
         \A l, m \in Index : e[l].inUse /\ e[m].inUse /\ e[l].name = e[m].name => l = m
  PROVE  FindIndex(e, e[k].name) = k
BY FindIndexIs

\* Reading the table of a directory.
LEMMA TableRead ==
  ASSUME NEW w, NEW M, NEW H, NEW D, NEW Z, Sound(w.content, M, H, D, Z), NEW d \in D,
         NEW e, e = FetchTable(w, d)
  PROVE  /\ TableSector(w, d) = FirstOf(w.content, d)
         /\ Unreadable(w, d) <=> FirstOf(w.content, d) \notin Sector
         /\ ~Unreadable(w, d) => /\ e \in EntryTable /\ e = TableOf(w.content, d)
                                 /\ \A k \in Index : Used(w.content, d, k) <=> e[k].inUse
<1> DEFINE c == w.content
<1>1. IsLeaf(c[d]) /\ (FirstOf(c, d) \in Sector => c[FirstOf(c, d)] \in TableRecord)
  BY DEF Sound, SoundTables
<1>2. TableSector(w, d) = FirstOf(c, d)
  BY <1>1, TableSectorIs DEF TableSector
<1>3. e = TableOf(c, d)
  BY <1>2 DEF FetchTable, TableOf
<1>4. FirstOf(c, d) \in Sector => TableOf(c, d) \in EntryTable
  BY <1>1 DEF TableRecord, TableOf, EntryTable
<1> QED
  BY <1>2, <1>3, <1>4 DEF Unreadable, Used

-------------------------------------------------------------------------------
(* RemoveFile *)

\* The file of entry k of dir can be removed, with the table e in memory.
Removable(w, H, D, Z, dir, e, k) ==
  /\ w \in World /\ ~w.aborted /\ Sound(w.content, w.onDisk, H, D, Z)
  /\ dir \in D /\ FirstOf(w.content, dir) \in Sector
  /\ k \in Index /\ Used(w.content, dir, k) /\ Live(w.content, H, D, dir, k)
  /\ e \in EntryTable /\ e[k] = TableOf(w.content, dir)[k] /\ FindIndex(e, e[k].name) = k
  /\ Without(w.content, w.onDisk, Z, dir, k, Less(e, k))

\* What is left on the disk v when it was: the file of entry k of dir is gone.
FileGone(w, v, H, D, Z, dir, e, k, H2, D2) ==
  /\ Sound(v.content, v.onDisk, H2, D2, Z)
  /\ v.onDisk \subseteq w.onDisk /\ Target(w.content, dir, k) \in w.onDisk \ v.onDisk
  /\ H2 \subseteq H /\ D2 \subseteq D
  /\ v.content = Put(w.content, FirstOf(w.content, dir), Table(Less(e, k)))
  /\ \A x \in H : v.content[x] = w.content[x]
  /\ \A y : Top(w.content, H, y) /\ y # Target(w.content, dir, k) =>
       y \in v.onDisk /\ (y \in D => y \in D2)

Untouched(w, v) == v.onDisk = w.onDisk /\ v.content = w.content

\* The bitmap is read.
LEMMA FetchMapIs ==
  ASSUME NEW w \in World
  PROVE  /\ FetchMap(w) \in World /\ FetchMap(w).map = w.onDisk
         /\ FetchMap(w).onDisk = w.onDisk /\ FetchMap(w).content = w.content
         /\ FetchMap(w).aborted = w.aborted
BY DEF World, FetchMap

\* The bitmap is written.
LEMMA WriteMapIs ==
  ASSUME NEW w \in World, NEW v, v = WriteMap(w)
  PROVE  /\ v \in World /\ v.content = w.content /\ v.aborted = w.aborted
         /\ v.onDisk = IF w.aborted THEN w.onDisk ELSE w.map
<1>1. CASE w.aborted
  BY <1>1 DEF WriteMap
<1>2. CASE ~w.aborted
  <2> DEFINE u == [w EXCEPT !.onDisk = w.map]
  <2>1. u \in World /\ u.content = w.content /\ u.aborted = w.aborted /\ u.onDisk = w.map
    BY DEF World
  <2>2. v = Flushed(u)
    BY <1>2 DEF WriteMap
  <2> HIDE DEF u
  <2> QED
    BY <1>2, <2>1, <2>2, FlushedKeeps
<1> QED
  BY <1>1, <1>2

\* A table can be stored in a sector.
LEMMA TableStored ==
  ASSUME NEW e \in EntryTable
  PROVE  Table(e) \in Stored /\ Table(e) \in TableRecord /\ Table(e).entry = e
BY DEF EntryTable, Index, Table, Stored, TableRecord

\* A table is written to its directory's first sector, or the kernel aborts.
LEMMA WriteTableIs ==
  ASSUME NEW w \in World, NEW s, NEW e \in EntryTable, NEW v, v = WriteTable(w, s, e),
         NEW t, t = TableSector(w, s)
  PROVE  /\ v \in World /\ v.onDisk = w.onDisk /\ v.map = w.map
         /\ v.aborted <=> (w.aborted \/ t \notin Sector)
         /\ v.content = IF v.aborted THEN w.content ELSE Put(w.content, t, Table(e))
<1>1. CASE w.aborted
  BY <1>1 DEF WriteTable
<1>2. CASE ~w.aborted
  <2>1. v = WriteSector(w, t, Table(e))
    BY <1>2 DEF WriteTable
  <2> QED
    BY <1>2, <2>1, TableStored, WriteSectorIs
<1> QED
  BY <1>1, <1>2

\* RemoveFile, on a sound disk, takes away the entry it is told to with its file
\* and leaves the other files; or it is aborted and has changed nothing on the disk
\* (filesys.cc:416-434).
LEMMA FileRemoved ==
  ASSUME NEW w, NEW H, NEW D, NEW Z, NEW dir, NEW e, NEW k, Removable(w, H, D, Z, dir, e, k),
         NEW v, v = RemoveFile(w, dir, e, e[k].name)
  PROVE  /\ v \in World
         /\ v.aborted => Untouched(w, v)
         /\ ~v.aborted => \E H2, D2 : FileGone(w, v, H, D, Z, dir, e, k, H2, D2)
<1> DEFINE c == w.content
           x == e[k].name
           s == Target(c, dir, k)
           f == FetchMap(w)
           u == Deallocate(f, c[s])
           g == [u EXCEPT !.map = @ \ {s}]
           m == WriteMap(g)
           t == FirstOf(c, dir)
           B == Below4(c, {s})
           F == w.onDisk \ u.map
<1>1. /\ w \in World /\ ~w.aborted /\ Sound(c, w.onDisk, H, D, Z)
      /\ dir \in D /\ t \in Sector /\ k \in Index /\ Used(c, dir, k) /\ Live(c, H, D, dir, k)
      /\ e \in EntryTable /\ e[k] = TableOf(c, dir)[k] /\ FindIndex(e, x) = k
      /\ Without(c, w.onDisk, Z, dir, k, Less(e, k))
  BY DEF Removable
<1>2. k # 0
  BY <1>1, TreeAssumption DEF Index
<1>3. RemoveEntry(e, x) = Less(e, k) /\ Find(e, x) = s
  BY <1>1, <1>2, RemoveEntryIs DEF Target
<1>4. v = WriteTable(m, dir, Less(e, k))
  BY <1>3 DEF RemoveFile
<1>5. s \in H /\ Shape(c, H) /\ c[s].numBytes <= MaxSize /\ s \in w.onDisk
  <2>1. SoundHeaders(c, w.onDisk, H) /\ s \in H
    BY <1>1 DEF Sound, Live, Top
  <2>2. Sized(c[s], MaxSize) /\ s \in w.onDisk
    BY <2>1 DEF SoundHeaders
  <2>3. c[s].numBytes <= MaxSize
    BY <2>2, Limits DEF Sized, MaxSize
  <2> QED
    BY <2>1, <2>2, <2>3, SoundShape
<1>6. f \in World /\ f.map = w.onDisk /\ f.onDisk = w.onDisk /\ f.content = c
  BY <1>1, FetchMapIs
<1>7. Unmarks(f, u, B)
  <2> HIDE DEF f, c, s
  <2>1. Shape(f.content, H) /\ f.content[s].numBytes <= MaxSize
    BY <1>5, <1>6
  <2> QED
    BY <1>5, <1>6, <2>1, Level4Unmarks
<1> HIDE DEF u
<1>8. /\ u \in World /\ u.onDisk = w.onDisk /\ u.content = c /\ u.map \subseteq w.onDisk
      /\ ~u.aborted => F \subseteq BlocksIn(c, B)
  BY <1>6, <1>7 DEF Unmarks
<1>9. g \in World /\ g.onDisk = u.onDisk /\ g.content = c /\ g.map = u.map \ {s}
      /\ g.aborted = u.aborted
  BY <1>8 DEF World
<1> HIDE DEF g
<1>10. /\ m \in World /\ m.content = c /\ m.aborted = u.aborted
       /\ m.onDisk = IF u.aborted THEN w.onDisk ELSE u.map \ {s}
  BY <1>8, <1>9, WriteMapIs
<1> HIDE DEF m
<1>11. TableSector(m, dir) = t
  <2>1. TableSector(w, dir) = t
    BY <1>1, TableRead
  <2> QED
    BY <1>10, <2>1 DEF TableSector
<1>12. Less(e, k) \in EntryTable
  BY <1>1, LessIs
<1>13. /\ v \in World /\ v.onDisk = m.onDisk /\ v.aborted = u.aborted
       /\ v.content = IF v.aborted THEN c ELSE Put(c, t, Table(Less(e, k)))
  <2> HIDE DEF t, c
  <2>1. /\ v \in World /\ v.onDisk = m.onDisk /\ (v.aborted <=> (m.aborted \/ t \notin Sector))
        /\ v.content = IF v.aborted THEN m.content ELSE Put(m.content, t, Table(Less(e, k)))
    BY <1>4, <1>10, <1>11, <1>12, WriteTableIs
  <2>2. v.aborted \in BOOLEAN /\ u.aborted \in BOOLEAN
    BY <1>8, <2>1 DEF World
  <2> QED
    BY <1>1, <1>10, <2>1, <2>2
<1>14. ASSUME ~v.aborted PROVE \E H2, D2 : FileGone(w, v, H, D, Z, dir, e, k, H2, D2)
  <2>1. v.onDisk = (w.onDisk \ F) \ {s} /\ F \subseteq BlocksIn(c, B)
    BY <1>8, <1>10, <1>13, <1>14
  <2>2. v.content = Put(c, t, Table(Less(e, k))) /\ c \in Content
    BY <1>1, <1>13, <1>14 DEF World
  <2>3. EntryTaken(c, w.onDisk, H, D, Z, dir, k, Less(e, k), F, v.content, v.onDisk, H \ B, D \ B)
    BY <1>1, <2>1, <2>2 DEF EntryTaken
  <2>4. PICK H2, D2 :
          EntryTaken(c, w.onDisk, H, D, Z, dir, k, Less(e, k), F, v.content, v.onDisk, H2, D2)
    BY <2>3
  <2>5. /\ Sound(v.content, v.onDisk, H2, D2, Z)
        /\ H2 \subseteq H /\ D2 \subseteq D
        /\ \A y \in H : v.content[y] = c[y]
        /\ \A y : Top(c, H, y) /\ y # s => y \in v.onDisk /\ (y \in D => y \in D2)
    <3> DEFINE Mr == w.onDisk
               er == Less(e, k)
               b  == v.content
               M2 == v.onDisk
    <3>1. EntryTaken(c, Mr, H, D, Z, dir, k, er, F, b, M2, H2, D2)
      BY <2>4
    <3> HIDE DEF Mr, er, c, F, b, M2, s
    <3>2. /\ Sound(b, M2, H2, D2, Z) /\ M2 \subseteq Mr /\ H2 \subseteq H /\ D2 \subseteq D
          /\ \A y \in H : b[y] = c[y]
          /\ \A y : Top(c, H, y) /\ y # Target(c, dir, k) => y \in M2 /\ (y \in D => y \in D2)
      BY <3>1, EntryRemoved
    <3> QED
      BY <3>2 DEF b, M2, s
  <2>6. FileGone(w, v, H, D, Z, dir, e, k, H2, D2)
    BY <1>5, <1>8, <2>1, <2>2, <2>5 DEF FileGone
  <2> QED
    BY <2>6
<1> QED
  BY <1>10, <1>13, <1>14 DEF Untouched

-------------------------------------------------------------------------------
(* The walk along a path *)

\* The directory d has an entry x for the directory g.
Link(c, d, x, g) ==
  \E k \in Index : /\ Used(c, d, k) /\ TableOf(c, d)[k].name = x
                   /\ TableOf(c, d)[k].isDirectory /\ Target(c, d, k) = g

\* The first n names of p lead from the root through the directories q.
Chain(c, D, q, p, n) ==
  /\ q[0] = DirectorySector
  /\ \A i \in 0 .. n : q[i] \in D
  /\ \A i \in 1 .. n : Link(c, q[i - 1], p[i], q[i])
  /\ \A i, j \in 0 .. n : q[i] = q[j] => i = j

\* The walk goes on to the directory there is an entry for.
LEMMA LinkRead ==
  ASSUME NEW w, NEW M, NEW H, NEW D, NEW Z, Sound(w.content, M, H, D, Z), NEW d \in D,
         NEW x, NEW g, Link(w.content, d, x, g)
  PROVE  ~Unreadable(w, d) /\ HasDirectory(w, d, x) /\ Find(FetchTable(w, d), x) = g
<1> DEFINE e == FetchTable(w, d)
<1>1. PICK k \in Index : /\ Used(w.content, d, k) /\ TableOf(w.content, d)[k].name = x
                         /\ TableOf(w.content, d)[k].isDirectory /\ Target(w.content, d, k) = g
  BY DEF Link
<1>2. ~Unreadable(w, d) /\ e \in EntryTable /\ e = TableOf(w.content, d)
      /\ \A l \in Index : Used(w.content, d, l) <=> e[l].inUse
  BY <1>1, TableRead DEF Used
<1>3. \A l, m \in Index : e[l].inUse /\ e[m].inUse /\ e[l].name = e[m].name => l = m
  <2> HIDE DEF e
  <2> QED
    BY <1>2 DEF Sound, SoundTables
<1>4. e[k].inUse /\ e[k].name = x /\ e[k].isDirectory /\ e[k].sector = g
  BY <1>1, <1>2 DEF Used, Target
<1> HIDE DEF e
<1>5. FindIndex(e, x) = k /\ k # 0
  BY <1>2, <1>3, <1>4, FoundByName, TreeAssumption DEF Index
<1> QED
  BY <1>2, <1>4, <1>5 DEF HasDirectory, IsDirectory, Find, e

\* Where the walk goes on there is an entry for a directory.
LEMMA DirectoryRead ==
  ASSUME NEW w, NEW M, NEW H, NEW D, Sound(w.content, M, H, D, {}), NEW d \in D,
         NEW x, HasDirectory(w, d, x)
  PROVE  \E g \in D : Link(w.content, d, x, g) /\ g = Find(FetchTable(w, d), x)
<1> DEFINE e == FetchTable(w, d)
           k == FindIndex(e, x)
<1>1. ~Unreadable(w, d) /\ k # 0 /\ IsDirectory(e, x)
  BY DEF HasDirectory
<1>2. e \in EntryTable /\ e = TableOf(w.content, d) /\ \A l \in Index : Used(w.content, d, l) <=> e[l].inUse
  BY <1>1, TableRead
<1>3. k \in Index /\ e[k].inUse /\ e[k].name = x
  <2> HIDE DEF e
  <2> QED
    BY <1>1, <1>2, FindIndexIs
<1>4. e[k].isDirectory /\ Find(e, x) = e[k].sector
  BY <1>1 DEF IsDirectory, Find
<1> HIDE DEF k
<1>5. Live(w.content, H, D, d, k)
  BY <1>2, <1>3 DEF Sound, SoundTables
<1>6. Target(w.content, d, k) = e[k].sector /\ e[k].sector \in D
  BY <1>2, <1>4, <1>5 DEF Live, Target
<1> QED
  BY <1>2, <1>3, <1>4, <1>6 DEF Link

\* No name leads to the root.
LEMMA ChainStarts ==
  ASSUME NEW c, NEW M, NEW H, NEW D, NEW Z, Sound(c, M, H, D, Z), NEW p
  PROVE  Chain(c, D, [i \in Nat |-> DirectorySector], p, 0)
BY DEF Chain, Sound, SoundTables

\* A chain and one more directory, which is not on it: it has one entry.
LEMMA ChainGrows ==
  ASSUME NEW c, NEW M, NEW H, NEW D, NEW Z, Sound(c, M, H, D, Z),
         NEW n \in Nat, NEW q, NEW p, Chain(c, D, q, p, n),
         NEW g \in D, NEW r, \A i \in 1 .. n : r[i] = p[i], Link(c, q[n], r[n + 1], g)
  PROVE  \E u : Chain(c, D, u, r, n + 1) /\ u[n + 1] = g /\ \A i \in 0 .. n : u[i] = q[i]
<1> DEFINE u == [i \in Nat |-> IF i <= n THEN q[i] ELSE g]
<1>1. u[n + 1] = g /\ \A i \in 0 .. n : u[i] = q[i]
  OBVIOUS
<1> HIDE DEF u
<1>2. \A i \in 0 .. n + 1 : u[i] \in D
  BY <1>1 DEF Chain
<1>3. \A i \in 1 .. n + 1 : Link(c, u[i - 1], r[i], u[i])
  <2> TAKE i \in 1 .. n + 1
  <2>1. CASE i = n + 1
    BY <1>1, <2>1
  <2>2. CASE i \in 1 .. n
    BY <1>1, <2>2 DEF Chain
  <2> QED
    BY <2>1, <2>2
<1>4. ASSUME NEW i \in 0 .. n, q[i] = g PROVE FALSE
  <2>1. PICK k \in Index : Used(c, q[n], k) /\ TableOf(c, q[n])[k].isDirectory /\ Target(c, q[n], k) = g
    BY DEF Link
  <2>2. g \in H /\ g \in M /\ q[n] \in D
    BY DEF Sound, SoundTables, SoundHeaders, Chain
  <2>3. Live(c, H, D, q[n], k)
    BY <2>1, <2>2 DEF Sound, SoundTables, Dangling
  <2>4. i # 0
    BY <1>4, <2>1, <2>3 DEF Live, Chain
  <2>5. Link(c, q[i - 1], p[i], q[i])
    BY <2>4 DEF Chain
  <2>6. PICK l \in Index : Used(c, q[i - 1], l) /\ Target(c, q[i - 1], l) = g
    BY <1>4, <2>5 DEF Link
  <2>7. q[i - 1] \in D
    BY <2>4 DEF Chain
  <2>8. q[i - 1] = q[n]
    BY <2>1, <2>2, <2>6, <2>7 DEF Sound, SoundTables
  <2> QED
    BY <2>4, <2>8 DEF Chain
<1>5. \A i, j \in 0 .. n + 1 : u[i] = u[j] => i = j
  <2> SUFFICES ASSUME NEW i \in 0 .. n + 1, NEW j \in 0 .. n + 1, u[i] = u[j] PROVE i = j
    OBVIOUS
  <2>1. CASE i = n + 1 \/ j = n + 1
    BY <1>1, <1>4, <2>1
  <2>2. CASE i \in 0 .. n /\ j \in 0 .. n
    BY <1>1, <2>2 DEF Chain
  <2> QED
    BY <2>1, <2>2
<1>6. u[0] = DirectorySector
  BY <1>1 DEF Chain
<1>7. Chain(c, D, u, r, n + 1)
  BY <1>2, <1>3, <1>5, <1>6 DEF Chain
<1> QED
  BY <1>1, <1>7

\* The walk of p stops after the first m names.
Stops(w, q, p, m) ==
  /\ m \in 0 .. Len(p)
  /\ m = Len(p) \/ ~HasDirectory(w, q[m], p[m + 1])

\* Each path leads somewhere.
LEMMA ChainStops ==
  ASSUME NEW w, NEW M, NEW H, NEW D, Sound(w.content, M, H, D, {}), NEW p, Len(p) \in Nat
  PROVE  \E q, m : Chain(w.content, D, q, p, m) /\ Stops(w, q, p, m)
<1> DEFINE A == {m \in Nat : \E q : Chain(w.content, D, q, p, m)}
<1> SUFFICES ASSUME ~\E q, m : Chain(w.content, D, q, p, m) /\ Stops(w, q, p, m)
             PROVE  FALSE
  OBVIOUS
<1>1. 0 \in A
  BY ChainStarts
<1>2. ASSUME NEW m \in 0 .. Len(p) - 1, m \in A PROVE m + 1 \in A
  <2>1. PICK q : Chain(w.content, D, q, p, m)
    BY <1>2
  <2>2. HasDirectory(w, q[m], p[m + 1])
    BY <2>1 DEF Stops
  <2>3. q[m] \in D /\ m \in Nat
    BY <2>1 DEF Chain
  <2>4. PICK g \in D : Link(w.content, q[m], p[m + 1], g)
    BY <2>2, <2>3, DirectoryRead
  <2>5. \E u : Chain(w.content, D, u, p, m + 1)
    BY <2>1, <2>3, <2>4, ChainGrows
  <2> QED
    BY <2>5
<1>3. Len(p) \in A
  <2>1. A \in SUBSET Nat /\ Len(p) \in 0 .. Len(p)
    OBVIOUS
  <2> HIDE DEF A
  <2>2. \A m \in 0 .. Len(p) : m \in A
    BY <1>1, <1>2, <2>1, InductionUpTo
  <2> QED
    BY <2>1, <2>2
<1> QED
  BY <1>3 DEF Stops

\* The walk of Remove, name by name.
LEMMA AlongIs ==
  ASSUME NEW w, NEW p, NEW n \in Nat, n = Len(p)
  PROVE  /\ Along(w, p)[0] = [above |-> DirectorySector, here |-> DirectorySector, depth |-> 0]
         /\ \A i \in 0 .. n - 1 : Along(w, p)[i + 1] = NextDirectory(w, Along(w, p)[i], i + 1, p[i + 1])
<1> DEFINE start == [above |-> DirectorySector, here |-> DirectorySector, depth |-> 0]
           Then(k, i) == NextDirectory(w, k, i, p[i])
           Is(f, m) == f = [i \in 0 .. m |-> IF i = 0 THEN start ELSE Then(f[i - 1], i)]
           A == {m \in Nat : \E f : Is(f, m)}
<1> HIDE DEF Then, start
<1>1. 0 \in A
  <2>1. Is([i \in 0 .. 0 |-> start], 0)
    OBVIOUS
  <2> QED
    BY <2>1
<1>2. ASSUME NEW m \in A PROVE m + 1 \in A
  <2>1. PICK f : Is(f, m)
    OBVIOUS
  <2> DEFINE g == [i \in 0 .. m + 1 |-> IF i <= m THEN f[i] ELSE Then(f[m], m + 1)]
  <2>2. ASSUME NEW i \in 0 .. m + 1
        PROVE  g[i] = IF i = 0 THEN start ELSE Then(g[i - 1], i)
    <3>1. CASE i = 0
      BY <2>1, <3>1
    <3>2. CASE i \in 1 .. m
      <4>1. i \in 0 .. m /\ i # 0
        BY <3>2
      <4>2. f[i] = Then(f[i - 1], i)
        BY <2>1, <4>1
      <4>3. g[i] = f[i] /\ g[i - 1] = f[i - 1] /\ i # 0
        BY <3>2
      <4> QED
        BY <4>2, <4>3
    <3>3. CASE i = m + 1
      BY <2>1, <3>3
    <3> QED
      BY <3>1, <3>2, <3>3
  <2>3. g = [i \in 0 .. m + 1 |-> g[i]]
    OBVIOUS
  <2> HIDE DEF g
  <2>4. Is(g, m + 1)
    BY <2>2, <2>3
  <2> QED
    BY <2>4
<1>3. A = Nat
  <2>1. A \in SUBSET Nat
    OBVIOUS
  <2> HIDE DEF A
  <2> QED
    BY <1>1, <1>2, <2>1, Induction
<1>4. PICK f : Is(f, n)
  BY <1>3
<1> DEFINE a == Along(w, p)
<1>5. a = CHOOSE f1 : Is(f1, n)
  BY DEF Along, Then, start
<1>6. Is(a, n)
  BY <1>4, <1>5
<1> HIDE DEF a
<1>7. a[0] = start
  BY <1>6
<1>8. ASSUME NEW i \in 0 .. n - 1 PROVE a[i + 1] = Then(a[i], i + 1)
  <2>1. i + 1 \in 0 .. n /\ i + 1 # 0 /\ (i + 1) - 1 = i
    OBVIOUS
  <2> QED
    BY <1>6, <2>1
<1> QED
  BY <1>7, <1>8 DEF a, Then, start

\* The walk of FindPath, name by name.
LEMMA OnPathIs ==
  ASSUME NEW w, NEW p, NEW n \in Nat, n = Len(p)
  PROVE  /\ OnPath(w, p)[0] = DirectorySector
         /\ \A i \in 0 .. n - 1 : OnPath(w, p)[i + 1] = NextOnPath(w, OnPath(w, p)[i], p[i + 1])
<1> DEFINE start == DirectorySector
           Then(k, i) == NextOnPath(w, k, p[i])
           Is(f, m) == f = [i \in 0 .. m |-> IF i = 0 THEN start ELSE Then(f[i - 1], i)]
           A == {m \in Nat : \E f : Is(f, m)}
<1> HIDE DEF Then, start
<1>1. 0 \in A
  <2>1. Is([i \in 0 .. 0 |-> start], 0)
    OBVIOUS
  <2> QED
    BY <2>1
<1>2. ASSUME NEW m \in A PROVE m + 1 \in A
  <2>1. PICK f : Is(f, m)
    OBVIOUS
  <2> DEFINE g == [i \in 0 .. m + 1 |-> IF i <= m THEN f[i] ELSE Then(f[m], m + 1)]
  <2>2. ASSUME NEW i \in 0 .. m + 1
        PROVE  g[i] = IF i = 0 THEN start ELSE Then(g[i - 1], i)
    <3>1. CASE i = 0
      BY <2>1, <3>1
    <3>2. CASE i \in 1 .. m
      <4>1. i \in 0 .. m /\ i # 0
        BY <3>2
      <4>2. f[i] = Then(f[i - 1], i)
        BY <2>1, <4>1
      <4>3. g[i] = f[i] /\ g[i - 1] = f[i - 1] /\ i # 0
        BY <3>2
      <4> QED
        BY <4>2, <4>3
    <3>3. CASE i = m + 1
      BY <2>1, <3>3
    <3> QED
      BY <3>1, <3>2, <3>3
  <2>3. g = [i \in 0 .. m + 1 |-> g[i]]
    OBVIOUS
  <2> HIDE DEF g
  <2>4. Is(g, m + 1)
    BY <2>2, <2>3
  <2> QED
    BY <2>4
<1>3. A = Nat
  <2>1. A \in SUBSET Nat
    OBVIOUS
  <2> HIDE DEF A
  <2> QED
    BY <1>1, <1>2, <2>1, Induction
<1>4. PICK f : Is(f, n)
  BY <1>3
<1> DEFINE a == OnPath(w, p)
<1>5. a = CHOOSE f1 : Is(f1, n)
  BY DEF OnPath, Then, start
<1>6. Is(a, n)
  BY <1>4, <1>5
<1> HIDE DEF a
<1>7. a[0] = start
  BY <1>6
<1>8. ASSUME NEW i \in 0 .. n - 1 PROVE a[i + 1] = Then(a[i], i + 1)
  <2>1. i + 1 \in 0 .. n /\ i + 1 # 0 /\ (i + 1) - 1 = i
    OBVIOUS
  <2> QED
    BY <1>6, <2>1
<1> QED
  BY <1>7, <1>8 DEF a, Then, start

\* Where the walk along p is, when it stops after m names.
Stopped(q, m) ==
  [above |-> IF m = 0 THEN DirectorySector ELSE q[m - 1], here |-> q[m], depth |-> m]

WalkStops(w, p, q, m) == Walk(w, p) = Stopped(q, m)

\* The walk of Remove and RecursiveRemove follows the entries of directories as far
\* as there are any (filesys.cc:380-412).
LEMMA WalkIs ==
  ASSUME NEW w, NEW M, NEW H, NEW D, NEW Z, Sound(w.content, M, H, D, Z),
         NEW p, Len(p) \in Nat, NEW q, NEW m, Chain(w.content, D, q, p, m), Stops(w, q, p, m)
  PROVE  WalkStops(w, p, q, m)
<1> DEFINE n == Len(p)
           a == Along(w, p)
           R(i) == Stopped(q, IF i <= m THEN i ELSE m)
           A == {i \in Nat : a[i] = R(i)}
<1>1. m \in 0 .. n /\ (m = n \/ ~HasDirectory(w, q[m], p[m + 1]))
  BY DEF Stops
<1>2. /\ a[0] = [above |-> DirectorySector, here |-> DirectorySector, depth |-> 0]
      /\ \A i \in 0 .. n - 1 : a[i + 1] = NextDirectory(w, a[i], i + 1, p[i + 1])
  BY AlongIs
<1>3. /\ q[0] = DirectorySector
      /\ \A i \in 0 .. m : q[i] \in D
      /\ \A i \in 1 .. m : Link(w.content, q[i - 1], p[i], q[i])
  BY DEF Chain
<1> HIDE DEF a
<1>4. 0 \in A
  BY <1>1, <1>2, <1>3 DEF Stopped
<1>5. ASSUME NEW i \in 0 .. n - 1, i \in A PROVE i + 1 \in A
  <2>1. a[i + 1] = NextDirectory(w, a[i], i + 1, p[i + 1]) /\ (i + 1) - 1 = i
    BY <1>2
  <2>2. CASE i < m
    <3>1. a[i] = Stopped(q, i)
      <4>1. i <= m /\ a[i] = R(i)
        BY <1>1, <1>5, <2>2
      <4> QED
        BY <4>1
    <3>2. Link(w.content, q[i], p[i + 1], q[i + 1]) /\ q[i] \in D
      <4>1. i + 1 \in 1 .. m /\ i \in 0 .. m /\ (i + 1) - 1 = i
        BY <1>1, <2>2
      <4> QED
        BY <1>3, <4>1
    <3>3. HasDirectory(w, q[i], p[i + 1]) /\ Find(FetchTable(w, q[i]), p[i + 1]) = q[i + 1]
      BY <3>2, LinkRead
    <3>4. a[i + 1] = [above |-> q[i], here |-> q[i + 1], depth |-> i + 1]
      BY <2>1, <3>1, <3>3 DEF NextDirectory, Stopped
    <3>5. a[i + 1] = Stopped(q, i + 1) /\ i + 1 <= m
      BY <1>1, <2>2, <3>4 DEF Stopped
    <3> QED
      BY <3>5
  <2>3. CASE i = m
    <3>1. a[i] = Stopped(q, m) /\ ~HasDirectory(w, q[m], p[i + 1])
      BY <1>1, <1>5, <2>3
    <3>2. a[i + 1] = a[i]
      BY <2>1, <3>1 DEF NextDirectory, Stopped
    <3>3. ~(i + 1 <= m)
      BY <1>1, <2>3
    <3> QED
      BY <3>1, <3>2, <3>3
  <2>4. CASE i > m
    <3>1. a[i] = Stopped(q, m)
      BY <1>1, <1>5, <2>4
    <3>2. a[i + 1] = a[i]
      BY <1>1, <2>1, <2>4, <3>1 DEF NextDirectory, Stopped
    <3>3. ~(i + 1 <= m)
      BY <1>1, <2>4
    <3> QED
      BY <3>1, <3>2, <3>3
  <2> QED
    BY <1>1, <2>2, <2>3, <2>4
<1>6. n \in A
  <2>1. A \in SUBSET Nat /\ n \in 0 .. n /\ n \in Nat
    OBVIOUS
  <2>2. \A i \in 0 .. n - 1 : i \in A => i + 1 \in A
    BY <1>5
  <2> HIDE DEF A, n
  <2>3. \A i \in 0 .. n : i \in A
    BY <1>4, <2>1, <2>2, InductionUpTo
  <2> QED
    BY <2>1, <2>3
<1> QED
  BY <1>1, <1>6 DEF WalkStops, Walk, a

-------------------------------------------------------------------------------
(* Remove *)

\* The entry k of dir, with the table as it is on the disk.
LEMMA RemovableAsRead ==
  ASSUME NEW w \in World, NEW H, NEW D, NEW Z, Sound(w.content, w.onDisk, H, D, Z), ~w.aborted,
         NEW dir \in D, NEW e, e = FetchTable(w, dir), ~Unreadable(w, dir),
         NEW k \in Index, e[k].inUse, Live(w.content, H, D, dir, k)
  PROVE  Removable(w, H, D, Z, dir, e, k)
<1> DEFINE c == w.content
<1>1. /\ e \in EntryTable /\ e = TableOf(c, dir) /\ FirstOf(c, dir) \in Sector
      /\ \A l \in Index : Used(c, dir, l) <=> e[l].inUse
  BY TableRead
<1>2. \A l, m \in Index : e[l].inUse /\ e[m].inUse /\ e[l].name = e[m].name => l = m
  BY <1>1 DEF Sound, SoundTables
<1>3. \A l \in Index : e[l].inUse => e[l].name \in Name
  BY <1>1 DEF Sound, SoundTables
<1>4. FindIndex(e, e[k].name) = k
  BY <1>1, <1>2, FoundByName
<1> DEFINE r == Less(e, k)
<1>5. /\ r \in EntryTable /\ ~r[k].inUse /\ \A l \in Index : l # k => r[l] = e[l]
  BY <1>1, LessIs
<1> HIDE DEF r
<1>6. Without(c, w.onDisk, Z, dir, k, r)
  <2>1. ASSUME NEW l \in Index, r[l].inUse
        PROVE  l # k /\ r[l].name \in Name /\ r[l] = TableOf(c, dir)[l]
    BY <1>1, <1>3, <1>5, <2>1
  <2>2. ASSUME NEW l \in Index, NEW m \in Index, r[l].inUse, r[m].inUse, r[l].name = r[m].name
        PROVE  l = m
    BY <1>2, <1>5, <2>2
  <2> QED
    BY <1>5, <2>1, <2>2 DEF Without, EntryTable
<1> QED
  BY <1>1, <1>4, <1>6 DEF Removable, r

\* The disk got smaller, or it is as it was.
Shrinks(w, v) == v \in World /\ v.onDisk \subseteq w.onDisk /\ (v.onDisk = w.onDisk => Untouched(w, v))

\* One removal after another.
LEMMA ShrinksOn ==
  ASSUME NEW u, NEW v, NEW w, Shrinks(u, v), Shrinks(v, w)
  PROVE  Shrinks(u, w)
BY DEF Shrinks, Untouched

\* A file that is gone leaves a smaller disk.
LEMMA GoneShrinks ==
  ASSUME NEW w \in World, NEW v \in World, NEW H, NEW D, NEW Z, NEW dir, NEW e, NEW k,
         NEW H2, NEW D2, FileGone(w, v, H, D, Z, dir, e, k, H2, D2)
  PROVE  Shrinks(w, v)
BY DEF FileGone, Shrinks

\* RemoveFile leaves a sound and smaller disk, or the one there was.
LEMMA FileRemovedShrinks ==
  ASSUME NEW w, NEW H, NEW D, NEW Z, NEW dir, NEW e, NEW k, Removable(w, H, D, Z, dir, e, k),
         NEW v, v = RemoveFile(w, dir, e, e[k].name)
  PROVE  Shrinks(w, v) /\ (~v.aborted => \E H2, D2 : Sound(v.content, v.onDisk, H2, D2, Z))
<1>1. /\ v \in World
      /\ v.aborted => Untouched(w, v)
      /\ ~v.aborted => \E H2, D2 : FileGone(w, v, H, D, Z, dir, e, k, H2, D2)
  BY FileRemoved
<1>2. w \in World
  BY DEF Removable
<1>3. CASE v.aborted
  BY <1>1, <1>3 DEF Shrinks, Untouched
<1>4. CASE ~v.aborted
  <2>1. PICK H2, D2 : FileGone(w, v, H, D, Z, dir, e, k, H2, D2)
    BY <1>1, <1>4
  <2>2. Shrinks(w, v)
    BY <1>1, <1>2, <2>1, GoneShrinks
  <2> QED
    BY <2>1, <2>2 DEF FileGone
<1> QED
  BY <1>3, <1>4

\* So does what does nothing, or aborts.
LEMMA AbortShrinks ==
  ASSUME NEW w \in World
  PROVE  Shrinks(w, w) /\ Shrinks(w, Abort(w)) /\ Abort(w).aborted
BY AbortKeeps DEF Shrinks, Untouched

\* A Remove that is not aborted leaves a sound disk, and one that is aborted the
\* disk as it was.
LEMMA RemoveIs ==
  ASSUME NEW w \in World, ~w.aborted, NEW H, NEW D, Sound(w.content, w.onDisk, H, D, {}),
         NEW p \in Seq(Name), p # <<>>, NEW v, v = RemoveFrom(w, p).w
  PROVE  /\ Shrinks(w, v) /\ (v.aborted => Untouched(w, v))
         /\ ~v.aborted => \E H2, D2 : Sound(v.content, v.onDisk, H2, D2, {})
<1> DEFINE c == w.content
           n == Len(p)
<1>1. n \in Nat /\ n # 0
  BY EmptySeq
<1>2. PICK q, m : Chain(c, D, q, p, m) /\ Stops(w, q, p, m)
  BY <1>1, ChainStops
<1>3. m \in 0 .. n /\ \A i \in 0 .. m : q[i] \in D
  BY <1>2 DEF Chain, Stops
<1>4. Walk(w, p) = Stopped(q, m)
  <2>1. WalkStops(w, p, q, m)
    BY <1>1, <1>2, WalkIs
  <2> QED
    BY <2>1 DEF WalkStops
<1> DEFINE k   == Walk(w, p)
           dir == LooksIn(k, p)
           x   == LooksFor(k, p)
           e   == FetchTable(w, dir)
<1>5. /\ k.here = q[m]
      /\ dir = IF m < n THEN q[m] ELSE q[m - 1]
  BY <1>1, <1>3, <1>4 DEF Stopped, LooksIn
<1>6. CASE Unreadable(w, q[m])
  <2>1. v = Abort(w)
    BY <1>5, <1>6 DEF RemoveFrom
  <2> QED
    BY <2>1, AbortShrinks, AbortKeeps DEF Untouched
<1>7. CASE ~Unreadable(w, q[m]) /\ Find(e, x) = -1
  <2>1. v = w
    BY <1>5, <1>7 DEF RemoveFrom
  <2> QED
    BY <2>1, AbortShrinks DEF Untouched
<1>8. CASE ~Unreadable(w, q[m]) /\ Find(e, x) # -1
  <2>1. v = RemoveFile(w, dir, e, x)
    BY <1>5, <1>8 DEF RemoveFrom
  <2>2. dir \in D /\ ~Unreadable(w, dir)
    <3>1. CASE m < n
      BY <1>3, <1>5, <1>8, <3>1
    <3>2. CASE m = n
      <4>1. m \in 1 .. m /\ m - 1 \in 0 .. m
        BY <1>1, <1>3, <3>2
      <4>2. Link(c, q[m - 1], p[m], q[m]) /\ q[m - 1] \in D
        BY <1>2, <1>3, <4>1 DEF Chain
      <4>3. ~Unreadable(w, q[m - 1])
        BY <4>2, LinkRead
      <4> QED
        BY <1>5, <3>2, <4>2, <4>3
    <3> QED
      BY <1>3, <3>1, <3>2
  <2> DEFINE j == FindIndex(e, x)
  <2> HIDE DEF k, dir, x
  <2>3. j # 0
    BY <1>8 DEF Find
  <2>4. e \in EntryTable /\ \A l \in Index : Used(c, dir, l) <=> e[l].inUse
    BY <2>2, TableRead
  <2>5. j \in Index /\ e[j].inUse /\ e[j].name = x
    <3> HIDE DEF e
    <3> QED
      BY <2>3, <2>4, FindIndexIs
  <2>6. Live(c, H, D, dir, j)
    <3> HIDE DEF e, j
    <3> QED
      BY <2>2, <2>4, <2>5 DEF Sound, SoundTables
  <2> HIDE DEF j
  <2>7. Removable(w, H, D, {}, dir, e, j)
    BY <2>2, <2>5, <2>6, RemovableAsRead
  <2>8. v = RemoveFile(w, dir, e, e[j].name)
    BY <2>1, <2>5
  <2> HIDE DEF e
  <2>9. Shrinks(w, v) /\ (~v.aborted => \E H2, D2 : Sound(v.content, v.onDisk, H2, D2, {}))
    BY <2>7, <2>8, FileRemovedShrinks
  <2>10. v.aborted => Untouched(w, v)
    BY <2>7, <2>8, FileRemoved
  <2> QED
    BY <2>9, <2>10
<1> QED
  BY <1>6, <1>7, <1>8

-------------------------------------------------------------------------------
(* The directory a file is created in *)

\* The path without its last name.
LEMMA FrontIs ==
  ASSUME NEW p \in Seq(Name), p # <<>>, NEW r, r = Seqs!Front(p)
  PROVE  /\ Len(p) \in Nat \ {0} /\ Len(r) = Len(p) - 1
         /\ \A i \in 1 .. Len(p) - 1 : r[i] = p[i]
<1>1. Len(p) \in Nat \ {0}
  BY EmptySeq
<1>2. r = SubSeq(p, 1, Len(p) - 1)
  BY DEF Seqs!Front
<1> DEFINE n == Len(p) - 1
<1>3. n \in Nat /\ n <= Len(p) /\ r = SubSeq(p, 1, n)
  BY <1>1, <1>2
<1>4. Len(r) = n /\ \A i \in 1 .. n : r[i] = p[i]
  <2> HIDE DEF n
  <2> QED
    BY <1>1, <1>3, SubSeqProperties
<1> QED
  BY <1>1, <1>4

\* FindPath finds a directory, or no directory, on the way to p's last name.
LEMMA ParentAt ==
  ASSUME NEW w, NEW M, NEW H, NEW D, Sound(w.content, M, H, D, {}),
         NEW p \in Seq(Name), p # <<>>, ~ThroughFile(w, p), NEW s, s = FindPath(w, Seqs!Front(p))
  PROVE  \/ s \in D /\ \E q : Chain(w.content, D, q, p, Len(p) - 1) /\ q[Len(p) - 1] = s
         \/ s = -1 \/ s = -2
<1> DEFINE n == Len(p)
           r == Seqs!Front(p)
           a == OnPath(w, r)
<1>1. n \in Nat \ {0} /\ Len(r) = n - 1 /\ \A i \in 1 .. n - 1 : r[i] = p[i]
  BY FrontIs
<1>2. PICK q, m : Chain(w.content, D, q, p, m) /\ Stops(w, q, p, m)
  BY <1>1, ChainStops
<1>3. /\ m \in 0 .. n /\ (m = n \/ ~HasDirectory(w, q[m], p[m + 1]))
      /\ q[0] = DirectorySector
      /\ \A i \in 0 .. m : q[i] \in D
      /\ \A i \in 1 .. m : Link(w.content, q[i - 1], p[i], q[i])
  BY <1>2 DEF Chain, Stops
<1>4. Walk(w, p) = Stopped(q, m)
  <2>1. WalkStops(w, p, q, m)
    BY <1>1, <1>2, WalkIs
  <2> QED
    BY <2>1 DEF WalkStops
<1>5. m + 1 < n => Unreadable(w, q[m]) \/ FindIndex(FetchTable(w, q[m]), p[m + 1]) = 0
  BY <1>4 DEF ThroughFile, Stopped
<1>6. \A d \in D : ~(d < 0)
  BY DEF Sound, SoundTables, SoundHeaders, Sector
<1> DEFINE A == {i \in Nat : IF i <= m THEN a[i] = q[i] ELSE a[i] = -1 \/ a[i] = -2}
<1>7. /\ a[0] = DirectorySector
      /\ \A i \in 0 .. (n - 1) - 1 : a[i + 1] = NextOnPath(w, a[i], r[i + 1])
  <2> HIDE DEF r
  <2>1. n - 1 \in Nat /\ n - 1 = Len(r)
    BY <1>1
  <2> QED
    BY <2>1, OnPathIs
<1> HIDE DEF a, r
<1>8. 0 \in A
  BY <1>3, <1>7
<1>9. ASSUME NEW i \in 0 .. (n - 1) - 1, i \in A PROVE i + 1 \in A
  <2>1. a[i + 1] = NextOnPath(w, a[i], p[i + 1]) /\ i \in Nat /\ i + 1 < n
    <3>1. i + 1 \in 1 .. n - 1
      BY <1>1
    <3> QED
      BY <1>1, <1>7, <3>1
  <2>2. CASE i < m
    <3>1. a[i] = q[i] /\ q[i] \in D
      <4>1. i <= m /\ i \in 0 .. m
        BY <1>3, <2>1, <2>2
      <4> QED
        BY <1>3, <1>9, <4>1
    <3>2. Link(w.content, q[i], p[i + 1], q[i + 1])
      <4>1. i + 1 \in 1 .. m /\ (i + 1) - 1 = i
        BY <1>3, <2>1, <2>2
      <4> QED
        BY <1>3, <4>1
    <3>3. ~Unreadable(w, q[i]) /\ Find(FetchTable(w, q[i]), p[i + 1]) = q[i + 1]
      BY <3>1, <3>2, LinkRead
    <3>4. a[i + 1] = q[i + 1]
      <4>1. ~(q[i] < 0)
        BY <1>6, <3>1
      <4> QED
        BY <2>1, <3>1, <3>3, <4>1 DEF NextOnPath
    <3>5. i + 1 <= m
      BY <1>3, <2>1, <2>2
    <3> QED
      BY <2>1, <3>4, <3>5
  <2>3. CASE i = m
    <3>1. a[i] = q[i] /\ q[i] \in D
      BY <1>3, <1>9, <2>3
    <3>2. ~(q[i] < 0)
      BY <1>6, <3>1
    <3>3. a[i + 1] = -1 \/ a[i + 1] = -2
      BY <1>5, <2>1, <2>3, <3>1, <3>2 DEF NextOnPath, Find
    <3>4. ~(i + 1 <= m)
      BY <1>3, <2>3
    <3> QED
      BY <2>1, <3>3, <3>4
  <2>4. CASE i > m
    <3>1. a[i] = -1 \/ a[i] = -2
      <4>1. ~(i <= m)
        BY <1>3, <2>1, <2>4
      <4> QED
        BY <1>9, <4>1
    <3>2. a[i + 1] = a[i]
      <4>1. a[i] < 0
        BY <3>1
      <4> QED
        BY <2>1, <4>1 DEF NextOnPath
    <3>3. ~(i + 1 <= m)
      BY <1>3, <2>1, <2>4
    <3> QED
      BY <2>1, <3>1, <3>2, <3>3
  <2> QED
    BY <1>3, <2>1, <2>2, <2>3, <2>4
<1>10. n - 1 \in A
  <2>1. A \in SUBSET Nat /\ n - 1 \in 0 .. n - 1 /\ n - 1 \in Nat
    BY <1>1
  <2>2. \A i \in 0 .. (n - 1) - 1 : i \in A => i + 1 \in A
    BY <1>9
  <2> HIDE DEF A, n
  <2>3. \A i \in 0 .. n - 1 : i \in A
    <3> DEFINE l == n - 1
    <3>1. l \in Nat /\ \A i \in 0 .. l - 1 : i \in A => i + 1 \in A
      BY <2>1, <2>2
    <3> HIDE DEF l
    <3>2. \A i \in 0 .. l : i \in A
      BY <1>8, <2>1, <3>1, InductionUpTo
    <3> QED
      BY <3>2 DEF l
  <2> QED
    BY <2>1, <2>3
<1>11. s = a[n - 1]
  BY <1>1 DEF FindPath, a, r
<1> QED
  <2>1. CASE n - 1 <= m
    <3>1. n - 1 \in 0 .. m /\ a[n - 1] = q[n - 1]
      BY <1>1, <1>3, <1>10, <2>1
    <3>2. Chain(w.content, D, q, p, n - 1)
      <4>1. \A i \in 0 .. n - 1 : i \in 0 .. m
        BY <1>1, <1>3, <2>1
      <4>2. \A i \in 1 .. n - 1 : i \in 1 .. m
        BY <1>1, <1>3, <2>1
      <4> QED
        BY <1>2, <4>1, <4>2 DEF Chain
    <3> QED
      BY <1>3, <1>11, <3>1, <3>2
  <2>2. CASE ~(n - 1 <= m)
    BY <1>10, <1>11, <2>2
  <2> QED
    BY <2>1, <2>2

LEMMA ParentIs ==
  ASSUME NEW w, NEW M, NEW H, NEW D, Sound(w.content, M, H, D, {}),
         NEW p \in Seq(Name), p # <<>>, ~ThroughFile(w, p), NEW s, s = FindPath(w, Seqs!Front(p))
  PROVE  s \in D \/ s = -1 \/ s = -2
BY ParentAt

-------------------------------------------------------------------------------
(* A file more *)

\* What is in the sectors that are not marked does not matter, nor do marks of
\* sectors that no header names.
LEMMA SoundOn ==
  ASSUME NEW c, NEW M, NEW H, NEW D, Sound(c, M, H, D, {}),
         NEW M2 \in SUBSET Sector, M \subseteq M2, NEW b, \A y \in M : b[y] = c[y]
  PROVE  Sound(b, M2, H, D, {})
<1>1. SoundHeaders(c, M, H) /\ SoundTables(c, M, H, D, {})
  BY DEF Sound
<1>2. H \subseteq M /\ D \subseteq H
  BY <1>1 DEF SoundHeaders, SoundTables
<1>3. \A x \in H : b[x] = c[x]
  BY <1>2
<1>4. SoundHeaders(b, M2, H)
  <2>1. ASSUME NEW x \in H
        PROVE  /\ Sized(b[x], MaxSize) /\ Shares(b, b[x], H)
               /\ Names(b[x], H, M2 \ {FreeMapSector, DirectorySector})
    <3>1. /\ Sized(c[x], MaxSize) /\ Shares(c, c[x], H)
          /\ Names(c[x], H, M \ {FreeMapSector, DirectorySector}) /\ b[x] = c[x]
      BY <1>1, <1>3 DEF SoundHeaders
    <3>2. Shares(b, b[x], H)
      BY <1>3, <3>1 DEF Shares
    <3> QED
      BY <3>1, <3>2 DEF Names
  <2>2. NoneShared(b, H)
    BY <1>1, <1>3 DEF SoundHeaders, NoneShared
  <2> QED
    BY <1>1, <1>2, <2>1, <2>2 DEF SoundHeaders
<1>5. ASSUME NEW d \in D
      PROVE  /\ FirstOf(b, d) = FirstOf(c, d) /\ b[d] = c[d]
             /\ FirstOf(c, d) \in Sector => b[FirstOf(c, d)] = c[FirstOf(c, d)]
                                            /\ TableOf(b, d) = TableOf(c, d)
             /\ \A k \in Index : Used(b, d, k) <=> Used(c, d, k)
             /\ \A k \in Index : Used(c, d, k) =>
                  TableOf(b, d)[k] = TableOf(c, d)[k] /\ Target(b, d, k) = Target(c, d, k)
  <2>1. FirstOf(b, d) = FirstOf(c, d) /\ b[d] = c[d] /\ d \in H /\ IsLeaf(c[d])
    BY <1>1, <1>2, <1>3 DEF FirstOf, SoundTables
  <2>2. FirstOf(c, d) \in Sector => FirstOf(c, d) \in M
    BY <1>1, <2>1, Limits DEF SoundHeaders, Names, FirstOf, Direct
  <2>3. FirstOf(c, d) \in Sector => b[FirstOf(c, d)] = c[FirstOf(c, d)]
                                    /\ TableOf(b, d) = TableOf(c, d)
    BY <2>1, <2>2 DEF TableOf
  <2> QED
    BY <2>1, <2>3 DEF Used, Target
<1>6. \A s : Top(c, H, s) => Top(b, H, s)
  BY <1>3 DEF Top
<1>7. \A d \in D, k \in Index : Used(b, d, k) => TableOf(b, d)[k].name \in Name /\ Live(b, H, D, d, k)
  <2> SUFFICES ASSUME NEW d \in D, NEW k \in Index, Used(b, d, k)
               PROVE  TableOf(b, d)[k].name \in Name /\ Live(b, H, D, d, k)
    OBVIOUS
  <2>1. /\ Used(c, d, k) /\ TableOf(b, d)[k] = TableOf(c, d)[k]
        /\ Target(b, d, k) = Target(c, d, k)
    BY <1>5
  <2>2. TableOf(c, d)[k].name \in Name /\ Live(c, H, D, d, k)
    BY <1>1, <2>1 DEF SoundTables
  <2> QED
    BY <1>6, <2>1, <2>2 DEF Live
<1>8. \A d, g \in D, k, l \in Index :
        Used(b, d, k) /\ Used(b, g, l) /\ Target(b, d, k) \in H /\ Target(b, d, k) = Target(b, g, l)
          => d = g /\ k = l
  <2> SUFFICES ASSUME NEW d \in D, NEW g \in D, NEW k \in Index, NEW l \in Index,
                      Used(b, d, k), Used(b, g, l), Target(b, d, k) \in H,
                      Target(b, d, k) = Target(b, g, l)
               PROVE  d = g /\ k = l
    OBVIOUS
  <2>1. /\ Used(c, d, k) /\ Target(b, d, k) = Target(c, d, k)
        /\ Used(c, g, l) /\ Target(b, g, l) = Target(c, g, l)
    BY <1>5
  <2> QED
    BY <1>1, <2>1 DEF SoundTables
<1>9. \A d \in D, k, l \in Index :
        Used(b, d, k) /\ Used(b, d, l) /\ TableOf(b, d)[k].name = TableOf(b, d)[l].name => k = l
  <2> SUFFICES ASSUME NEW d \in D, NEW k \in Index, NEW l \in Index, Used(b, d, k), Used(b, d, l),
                      TableOf(b, d)[k].name = TableOf(b, d)[l].name
               PROVE  k = l
    OBVIOUS
  <2>1. /\ Used(c, d, k) /\ TableOf(b, d)[k] = TableOf(c, d)[k]
        /\ Used(c, d, l) /\ TableOf(b, d)[l] = TableOf(c, d)[l]
    BY <1>5
  <2> QED
    BY <1>1, <2>1 DEF SoundTables
<1>10. \A d \in D : IsLeaf(b[d]) /\ (FirstOf(b, d) \in Sector => b[FirstOf(b, d)] \in TableRecord)
  BY <1>1, <1>5 DEF SoundTables
<1>11. \A x \in H, i \in Direct :
         b[x].dataSectors[i] # FreeMapSector /\ b[x].dataSectors[i] # DirectorySector
  BY <1>1, <1>3 DEF SoundTables
<1>12. D \subseteq H /\ DirectorySector \in D /\ FreeMapSector \notin D
  BY <1>1 DEF SoundTables
<1>13. SoundTables(b, M2, H, D, {})
  BY <1>7, <1>8, <1>9, <1>10, <1>11, <1>12 DEF SoundTables
<1> QED
  BY <1>4, <1>13 DEF Sound

\* A header takes what it takes whatever is written elsewhere.
LEMMA TakesOn ==
  ASSUME NEW c, NEW h, NEW N, NEW new, Takes(c, h, N, new), NEW b, \A x \in N : b[x] = c[x]
  PROVE  Takes(b, h, N, new)
<1>1. \A x \in N : Sized(b[x], MaxSize) /\ Names(b[x], N, new) /\ Shares(b, b[x], N)
  BY DEF Takes, Shares
<1>2. NoneShared(b, N) /\ Shares(b, h, N)
  BY DEF Takes, NoneShared, Shares
<1>3. \A i, j \in Direct, x \in N : h.dataSectors[i] \in Sector => h.dataSectors[i] # b[x].dataSectors[j]
  BY DEF Takes
<1> QED
  BY <1>1, <1>2, <1>3 DEF Takes

\* A header h in s with sub-headers N was allocated in sectors that were free,
\* and entered as entry k of dir: c, M, H, D become b, M2, H2, D2.
FileAdded(c, M, H, D, dir, k, x, isDir, s, h, N, b, M2, H2, D2) ==
  LET t == FirstOf(c, dir)
  IN  /\ Sound(c, M, H, D, {}) /\ dir \in D /\ t \in Sector
      /\ k \in Index /\ ~TableOf(c, dir)[k].inUse /\ x \in Name /\ isDir \in BOOLEAN
      /\ \A l \in Index : TableOf(c, dir)[l].inUse => TableOf(c, dir)[l].name # x
      /\ M \subseteq M2 /\ M2 \subseteq Sector /\ s \in M2 \ M
      /\ Takes(b, h, N, (M2 \ M) \ {s}) /\ Sized(h, MaxSize) /\ b[s] = h
      /\ b[t] = Table(With(TableOf(c, dir), k, x, s, isDir))
      /\ isDir => IsLeaf(h) /\ (h.dataSectors[0] \in Sector =>
                                  b[h.dataSectors[0]] = Table(EmptyTable))
      /\ H2 = (H \cup {s}) \cup N /\ D2 = D \cup {y \in {s} : isDir}
      /\ \A y \in M : y # t => b[y] = c[y]

HeaderAdded(c, M, H, s, h, N, b, M2, H2) ==
  /\ SoundHeaders(c, M, H) /\ M \subseteq M2 /\ M2 \subseteq Sector /\ s \in M2 /\ s \notin M
  /\ Takes(b, h, N, (M2 \ M) \ {s}) /\ Sized(h, MaxSize) /\ b[s] = h
  /\ H2 = (H \cup {s}) \cup N
  /\ \A y \in H : b[y] = c[y]

\* The headers stay sound when those of a new file are added in free sectors.
LEMMA HeadersAdded ==
  ASSUME NEW c, NEW M, NEW H, NEW s, NEW h, NEW N, NEW b, NEW M2, NEW H2,
         HeaderAdded(c, M, H, s, h, N, b, M2, H2)
  PROVE  /\ SoundHeaders(b, M2, H2)
         /\ \A y : Top(c, H, y) => Top(b, H2, y)
         /\ Top(b, H2, s) /\ s \notin {FreeMapSector, DirectorySector}
         /\ \A x \in {s} \cup N, i \in Direct :
              b[x].dataSectors[i] # FreeMapSector /\ b[x].dataSectors[i] # DirectorySector
<1> DEFINE G == {s} \cup N
           Files0 == {FreeMapSector, DirectorySector}
           new == (M2 \ M) \ {s}
<1>0. /\ SoundHeaders(c, M, H) /\ M \subseteq M2 /\ M2 \subseteq Sector /\ s \in M2 /\ s \notin M
      /\ Takes(b, h, N, new) /\ Sized(h, MaxSize) /\ b[s] = h
      /\ H2 = (H \cup {s}) \cup N /\ new = (M2 \ M) \ {s}
      /\ \A y \in H : b[y] = c[y]
  BY DEF HeaderAdded
<1> HIDE DEF new
<1>1. /\ H \subseteq M /\ FreeMapSector \in H /\ DirectorySector \in H
      /\ \A x \in H : /\ Sized(c[x], MaxSize) /\ Shares(c, c[x], H)
                      /\ Names(c[x], H, M \ Files0)
      /\ NoneShared(c, H)
  BY <1>0 DEF SoundHeaders
<1>2. /\ N \subseteq new /\ Names(h, N, new) /\ Shares(b, h, N)
      /\ \A x \in N : Sized(b[x], MaxSize) /\ Names(b[x], N, new) /\ Shares(b, b[x], N)
  BY <1>0 DEF Takes
<1>3. new \cap M = {} /\ s \notin new /\ new \subseteq M2 /\ G \cap M = {} /\ H2 = H \cup G
  BY <1>0, <1>2
<1>4. ASSUME NEW x \in G
      PROVE  /\ Sized(b[x], MaxSize) /\ Names(b[x], N, new) /\ Shares(b, b[x], N)
  BY <1>0, <1>2
<1>5. ASSUME NEW x \in H, NEW i \in Direct, b[x].dataSectors[i] \in Sector
      PROVE  /\ b[x].dataSectors[i] \in M \ Files0 /\ b[x] = c[x]
             /\ b[x].dataSectors[i] \in H <=> ~IsLeaf(b[x])
  BY <1>0, <1>1, <1>5 DEF Names
<1>6. ASSUME NEW x \in G, NEW i \in Direct, b[x].dataSectors[i] \in Sector
      PROVE  /\ b[x].dataSectors[i] \in new /\ b[x].dataSectors[i] \notin M
             /\ b[x].dataSectors[i] \notin Files0 /\ b[x].dataSectors[i] # s
             /\ b[x].dataSectors[i] \in N <=> ~IsLeaf(b[x])
  <2>1. b[x].dataSectors[i] \in new /\ (b[x].dataSectors[i] \in N <=> ~IsLeaf(b[x]))
    BY <1>0, <1>4, <1>6 DEF Names
  <2> QED
    BY <1>0, <1>1, <1>3, <2>1
<1> HIDE DEF G
<1>7. ASSUME NEW x \in H
      PROVE  /\ Sized(b[x], MaxSize) /\ Shares(b, b[x], H2) /\ Names(b[x], H2, M2 \ Files0)
  <2>1. Sized(b[x], MaxSize)
    BY <1>0, <1>1
  <2>2. Shares(b, b[x], H2)
    <3>1. ASSUME NEW i \in Direct, b[x].dataSectors[i] \in H2
          PROVE  b[b[x].dataSectors[i]].numBytes = SubSize(b[x].numBytes, i)
      <4>1. b[x].dataSectors[i] \in Sector
        BY <1>0, <1>1, <1>3, <3>1, <1>2 DEF G
      <4>2. b[x].dataSectors[i] \in H /\ b[x] = c[x]
        BY <1>0, <1>3, <1>5, <3>1, <4>1
      <4> QED
        BY <1>0, <1>1, <4>2 DEF Shares
    <3> QED
      BY <1>0, <3>1 DEF Shares
  <2>3. Names(b[x], H2, M2 \ Files0)
    <3>1. ASSUME NEW i \in Direct, b[x].dataSectors[i] \in Sector
          PROVE  /\ b[x].dataSectors[i] \in M2 \ Files0
                 /\ b[x].dataSectors[i] \in H2 <=> ~IsLeaf(b[x])
      BY <1>0, <1>3, <1>5, <3>1
    <3> QED
      BY <1>0, <3>1 DEF Names
  <2> QED
    BY <1>0, <2>1, <2>2, <2>3
<1>8. ASSUME NEW x \in G
      PROVE  /\ Sized(b[x], MaxSize) /\ Shares(b, b[x], H2) /\ Names(b[x], H2, M2 \ Files0)
  <2>1. ASSUME NEW i \in Direct, b[x].dataSectors[i] \in Sector
        PROVE  /\ b[x].dataSectors[i] \in M2 \ Files0
               /\ b[x].dataSectors[i] \in H2 <=> b[x].dataSectors[i] \in N
               /\ b[x].dataSectors[i] \in H2 <=> ~IsLeaf(b[x])
    BY <1>0, <1>1, <1>3, <1>6, <2>1 DEF G
  <2>2. Names(b[x], H2, M2 \ Files0)
    BY <1>0, <2>1 DEF Names
  <2>3. Shares(b, b[x], H2)
    <3>1. ASSUME NEW i \in Direct, b[x].dataSectors[i] \in H2
          PROVE  b[b[x].dataSectors[i]].numBytes = SubSize(b[x].numBytes, i)
      <4>1. b[x].dataSectors[i] \in Sector
        BY <1>0, <1>1, <1>3, <3>1, <1>2 DEF G
      <4>2. b[x].dataSectors[i] \in N
        BY <1>0, <2>1, <3>1, <4>1
      <4> QED
        BY <1>0, <1>4, <4>2 DEF Shares
    <3> QED
      BY <1>0, <3>1 DEF Shares
  <2> QED
    BY <1>0, <1>4, <2>2, <2>3
<1>9. NoneShared(b, H2)
  <2> SUFFICES ASSUME NEW x \in H2, NEW y \in H2, NEW i \in Direct, NEW j \in Direct,
                      b[x].dataSectors[i] \in Sector,
                      b[x].dataSectors[i] = b[y].dataSectors[j]
               PROVE  x = y /\ i = j
    BY <1>0 DEF NoneShared
  <2>1. CASE x \in H /\ y \in H
    BY <1>0, <1>1, <1>5, <2>1 DEF NoneShared
  <2>2. CASE x \in H /\ y \in G
    BY <1>0, <1>5, <1>6, <2>2
  <2>3. CASE x \in G /\ y \in H
    BY <1>0, <1>5, <1>6, <2>3
  <2>4. CASE x \in G /\ y \in G
    <3>1. CASE x = s /\ y = s
      BY <1>0, <3>1 DEF Takes
    <3>2. CASE x = s /\ y \in N
      BY <1>0, <3>2 DEF Takes
    <3>3. CASE x \in N /\ y = s
      BY <1>0, <3>3 DEF Takes
    <3>4. CASE x \in N /\ y \in N
      BY <1>0, <3>4 DEF Takes, NoneShared
    <3> QED
      BY <1>0, <2>4, <3>1, <3>2, <3>3, <3>4 DEF G
  <2> QED
    BY <1>0, <1>3, <2>1, <2>2, <2>3, <2>4
<1>10. SoundHeaders(b, M2, H2)
  <2>1. H2 \subseteq M2
    BY <1>0, <1>1, <1>2, <1>3
  <2> QED
    BY <1>0, <1>1, <1>3, <1>7, <1>8, <1>9, <2>1 DEF SoundHeaders
<1>11. ASSUME NEW y, Top(c, H, y) PROVE Top(b, H2, y)
  <2>1. y \in H /\ y \in M /\ y \in Sector
    BY <1>0, <1>1, <1>11 DEF Top
  <2>2. ASSUME NEW x \in H2, NEW i \in Direct, b[x].dataSectors[i] = y PROVE FALSE
    <3>1. CASE x \in H
      BY <1>0, <1>1, <1>11, <2>2, <3>1 DEF Top
    <3>2. CASE x \in G
      BY <1>0, <1>6, <2>1, <2>2, <3>2
    <3> QED
      BY <1>0, <1>3, <3>1, <3>2
  <2> QED
    BY <1>0, <1>3, <2>1, <2>2 DEF Top
<1>12. Top(b, H2, s)
  <2>1. ASSUME NEW x \in H2, NEW i \in Direct, b[x].dataSectors[i] = s PROVE FALSE
    <3>1. CASE x \in H
      BY <1>0, <1>5, <2>1, <3>1
    <3>2. CASE x \in G
      BY <1>0, <1>6, <2>1, <3>2
    <3> QED
      BY <1>0, <1>3, <3>1, <3>2
  <2> QED
    BY <1>0, <2>1 DEF Top
<1>13. s \notin Files0
  BY <1>0, <1>1
<1>14. \A x \in G, i \in Direct :
         b[x].dataSectors[i] # FreeMapSector /\ b[x].dataSectors[i] # DirectorySector
  BY <1>0, <1>1, <1>6
<1> QED
  BY <1>0, <1>10, <1>11, <1>12, <1>13, <1>14 DEF G

\* The entries on b, in the directories D2, are those on c, in D, and one more.
EntriesGrow(c, D, dir, k, x, isDir, s, b, D2) ==
  /\ D \subseteq D2 /\ Used(b, dir, k) /\ TableOf(b, dir)[k].name = x
  /\ Target(b, dir, k) = s /\ TableOf(b, dir)[k].isDirectory = isDir
  /\ \A d \in D2, l \in Index : Used(b, d, l) =>
       /\ d \in D
       /\ \/ Used(c, d, l) /\ TableOf(b, d)[l] = TableOf(c, d)[l]
          \/ d = dir /\ l = k
  /\ \A d \in D, l \in Index : Used(c, d, l) => Used(b, d, l) /\ TableOf(b, d)[l] = TableOf(c, d)[l]

\* The disk stays sound when a file in free sectors is added under a name that was
\* not used.
LEMMA EntryAdded ==
  ASSUME NEW c, NEW M, NEW H, NEW D, NEW dir, NEW k, NEW x, NEW isDir, NEW s, NEW h, NEW N,
         NEW b, NEW M2, NEW H2, NEW D2,
         FileAdded(c, M, H, D, dir, k, x, isDir, s, h, N, b, M2, H2, D2)
  PROVE  /\ Sound(b, M2, H2, D2, {}) /\ \A y \in H : b[y] = c[y]
         /\ EntriesGrow(c, D, dir, k, x, isDir, s, b, D2)
<1> DEFINE t == FirstOf(c, dir)
           new == (M2 \ M) \ {s}
           e == TableOf(c, dir)
           a == With(e, k, x, s, isDir)
<1>1. /\ SoundHeaders(c, M, H) /\ SoundTables(c, M, H, D, {}) /\ dir \in D /\ t \in Sector
      /\ k \in Index /\ ~e[k].inUse /\ x \in Name /\ isDir \in BOOLEAN
      /\ \A l \in Index : e[l].inUse => e[l].name # x
  BY DEF FileAdded, Sound
<1>2. /\ M \subseteq M2 /\ M2 \subseteq Sector /\ s \in M2 /\ s \notin M
      /\ Takes(b, h, N, new) /\ Sized(h, MaxSize) /\ b[s] = h /\ b[t] = Table(a)
      /\ isDir => IsLeaf(h) /\ (h.dataSectors[0] \in Sector => b[h.dataSectors[0]] = Table(EmptyTable))
      /\ H2 = (H \cup {s}) \cup N /\ D2 = D \cup {y \in {s} : isDir}
      /\ \A y \in M : y # t => b[y] = c[y]
  BY DEF FileAdded
<1>3. /\ e \in EntryTable /\ IsLeaf(c[dir]) /\ dir \in H /\ t \notin H /\ t \in M
  <2>1. IsLeaf(c[dir]) /\ dir \in H /\ c[t] \in TableRecord
    BY <1>1 DEF SoundTables
  <2>2. Names(c[dir], H, M \ {FreeMapSector, DirectorySector}) /\ 0 \in Direct
    <3>1. 0 \in Direct
      BY Limits DEF Direct
    <3> QED
      BY <1>1, <2>1, <3>1 DEF SoundHeaders
  <2>3. e \in EntryTable
    BY <2>1 DEF TableRecord, TableOf, EntryTable
  <2> QED
    BY <1>1, <2>1, <2>2, <2>3 DEF Names, FirstOf
<1> HIDE DEF t, new, e
<1>4. H \subseteq M /\ D \subseteq H /\ N \subseteq new /\ s \in Sector /\ s \in Int
  BY <1>1, <1>2 DEF SoundHeaders, SoundTables, Takes, Sector
<1>5. \A y \in H : b[y] = c[y]
  BY <1>2, <1>3, <1>4
<1>6. /\ SoundHeaders(b, M2, H2)
      /\ \A y : Top(c, H, y) => Top(b, H2, y)
      /\ Top(b, H2, s) /\ s \notin {FreeMapSector, DirectorySector}
      /\ \A y \in {s} \cup N, i \in Direct :
           b[y].dataSectors[i] # FreeMapSector /\ b[y].dataSectors[i] # DirectorySector
  <2>1. HeaderAdded(c, M, H, s, h, N, b, M2, H2)
    BY <1>1, <1>2, <1>5 DEF HeaderAdded, new
  <2> QED
    BY <2>1, HeadersAdded
<1>7. /\ a \in EntryTable /\ a[k].inUse /\ a[k].name = x /\ a[k].sector = s
      /\ a[k].isDirectory = isDir
      /\ \A l \in Index : l # k => a[l] = e[l]
  BY <1>1, <1>3, <1>4, WithIs
<1> HIDE DEF a
<1>8. Table(a) \in TableRecord /\ Table(a).entry = a
  BY <1>7, TableStored
<1>9. ASSUME NEW d \in D
      PROVE  /\ FirstOf(b, d) = FirstOf(c, d) /\ b[d] = c[d]
             /\ d # dir /\ FirstOf(c, d) \in Sector =>
                  b[FirstOf(c, d)] = c[FirstOf(c, d)] /\ TableOf(b, d) = TableOf(c, d)
  <2>1. FirstOf(b, d) = FirstOf(c, d) /\ b[d] = c[d] /\ d \in H /\ IsLeaf(c[d])
    BY <1>1, <1>4, <1>5 DEF FirstOf, SoundTables
  <2>2. FirstOf(c, d) \in Sector => FirstOf(c, d) \in M
    BY <1>1, <2>1, Limits DEF SoundHeaders, Names, FirstOf, Direct
  <2>3. ASSUME d # dir, FirstOf(c, d) \in Sector PROVE FirstOf(c, d) # t
    BY <1>1, <1>3, <2>1, <2>3, Limits DEF SoundHeaders, NoneShared, FirstOf, t, Direct
  <2> QED
    BY <1>2, <2>1, <2>2, <2>3 DEF TableOf
<1>10. TableOf(b, dir) = a
  BY <1>1, <1>2, <1>8, <1>9 DEF TableOf, t
\* The directory made has no entries.
<1>11. ASSUME isDir, NEW l \in Index PROVE ~Used(b, s, l)
  <2>1. FirstOf(b, s) = h.dataSectors[0]
    BY <1>2 DEF FirstOf
  <2>2. FirstOf(b, s) \in Sector => TableOf(b, s) = EmptyTable
    BY <1>2, <1>11, <2>1 DEF TableOf, Table
  <2>3. ~EmptyTable[l].inUse
    BY DEF EmptyTable, Unused, Index
  <2> QED
    BY <2>2, <2>3 DEF Used
\* An entry in use was there before, or is the new one.
<1>12. ASSUME NEW d \in D2, NEW l \in Index, Used(b, d, l)
       PROVE  /\ d \in D
              /\ \/ /\ Used(c, d, l) /\ TableOf(b, d)[l] = TableOf(c, d)[l]
                    /\ Target(b, d, l) = Target(c, d, l) /\ ~(d = dir /\ l = k)
                    /\ Live(c, H, D, d, l) /\ TableOf(c, d)[l].name \in Name
                    /\ Target(c, d, l) \in H
                 \/ d = dir /\ l = k
  <2>1. d \in D
    BY <1>2, <1>11, <1>12
  <2>2. CASE d = dir /\ l # k
    <3>1. TableOf(b, d)[l] = TableOf(c, d)[l] /\ Used(c, d, l)
      BY <1>7, <1>9, <1>10, <1>12, <2>1, <2>2 DEF Used, e
    <3>2. Live(c, H, D, d, l) /\ TableOf(c, d)[l].name \in Name
      BY <1>1, <2>1, <3>1 DEF SoundTables
    <3> QED
      BY <2>1, <2>2, <3>1, <3>2 DEF Target, Live, Top
  <2>3. CASE d # dir
    <3>1. TableOf(b, d) = TableOf(c, d) /\ Used(c, d, l)
      BY <1>9, <1>12, <2>1, <2>3 DEF Used
    <3>2. Live(c, H, D, d, l) /\ TableOf(c, d)[l].name \in Name
      BY <1>1, <2>1, <3>1 DEF SoundTables
    <3> QED
      BY <2>1, <2>3, <3>1, <3>2 DEF Target, Live, Top
  <2> QED
    BY <2>1, <2>2, <2>3
<1>13. TableOf(b, dir)[k].name = x /\ Target(b, dir, k) = s
       /\ TableOf(b, dir)[k].isDirectory = isDir
  BY <1>7, <1>10 DEF Target
<1>14. ASSUME NEW d \in D2, NEW l \in Index, Used(b, d, l)
       PROVE  TableOf(b, d)[l].name \in Name /\ Live(b, H2, D2, d, l)
  <2>1. CASE d = dir /\ l = k
    <3>1. TableOf(b, d)[l].isDirectory <=> Target(b, d, l) \in D2
      BY <1>1, <1>2, <1>4, <1>13, <2>1
    <3> QED
      BY <1>1, <1>6, <1>13, <2>1, <3>1 DEF Live
  <2>2. CASE ~(d = dir /\ l = k)
    <3>1. /\ TableOf(b, d)[l] = TableOf(c, d)[l] /\ Target(b, d, l) = Target(c, d, l)
          /\ Live(c, H, D, d, l) /\ TableOf(c, d)[l].name \in Name /\ Target(c, d, l) \in H
      BY <1>12, <1>14, <2>2
    <3>2. Target(c, d, l) \in D2 <=> Target(c, d, l) \in D
      BY <1>2, <1>4, <3>1
    <3> QED
      BY <1>6, <3>1, <3>2 DEF Live
  <2> QED
    BY <2>1, <2>2
<1>15. ASSUME NEW d \in D2, NEW g \in D2, NEW l \in Index, NEW m \in Index,
              Used(b, d, l), Used(b, g, m), Target(b, d, l) = Target(b, g, m)
       PROVE  d = g /\ l = m
  <2>1. CASE ~(d = dir /\ l = k) /\ ~(g = dir /\ m = k)
    <3>1. /\ Used(c, d, l) /\ Target(b, d, l) = Target(c, d, l) /\ Target(c, d, l) \in H /\ d \in D
          /\ Used(c, g, m) /\ Target(b, g, m) = Target(c, g, m) /\ g \in D
      BY <1>12, <1>15, <2>1
    <3> QED
      BY <1>1, <1>15, <3>1 DEF SoundTables
  <2>2. CASE d = dir /\ l = k /\ ~(g = dir /\ m = k)
    <3>1. Target(b, g, m) \in H /\ Target(b, d, l) = s
      BY <1>12, <1>13, <1>15, <2>2
    <3> QED
      BY <1>2, <1>4, <1>15, <3>1
  <2>3. CASE ~(d = dir /\ l = k) /\ g = dir /\ m = k
    <3>1. Target(b, d, l) \in H /\ Target(b, g, m) = s
      BY <1>12, <1>13, <1>15, <2>3
    <3> QED
      BY <1>2, <1>4, <1>15, <3>1
  <2> QED
    BY <2>1, <2>2, <2>3
<1>16. ASSUME NEW d \in D2, NEW l \in Index, NEW m \in Index, Used(b, d, l), Used(b, d, m),
              TableOf(b, d)[l].name = TableOf(b, d)[m].name
       PROVE  l = m
  <2>1. CASE ~(d = dir /\ l = k) /\ ~(d = dir /\ m = k)
    <3>1. /\ Used(c, d, l) /\ TableOf(b, d)[l] = TableOf(c, d)[l] /\ d \in D
          /\ Used(c, d, m) /\ TableOf(b, d)[m] = TableOf(c, d)[m]
      BY <1>12, <1>16, <2>1
    <3> QED
      BY <1>1, <1>16, <3>1 DEF SoundTables
  <2>2. CASE d = dir /\ l = k /\ m # k
    <3>1. Used(c, d, m) /\ TableOf(b, d)[m] = TableOf(c, d)[m]
      BY <1>12, <1>16, <2>2
    <3>2. e[m].inUse /\ e[m].name = x
      BY <1>13, <1>16, <2>2, <3>1 DEF Used, e
    <3> QED
      BY <1>1, <3>2
  <2>3. CASE d = dir /\ l # k /\ m = k
    <3>1. Used(c, d, l) /\ TableOf(b, d)[l] = TableOf(c, d)[l]
      BY <1>12, <1>16, <2>3
    <3>2. e[l].inUse /\ e[l].name = x
      BY <1>13, <1>16, <2>3, <3>1 DEF Used, e
    <3> QED
      BY <1>1, <3>2
  <2> QED
    BY <2>1, <2>2, <2>3
<1>17. \A d \in D2 : IsLeaf(b[d]) /\ (FirstOf(b, d) \in Sector => b[FirstOf(b, d)] \in TableRecord)
  <2> TAKE d \in D2
  <2>1. CASE d = s /\ isDir
    <3>1. FirstOf(b, d) \in Sector => b[FirstOf(b, d)] = Table(EmptyTable)
      BY <1>2, <2>1 DEF FirstOf
    <3>2. EmptyTable \in EntryTable
      BY DEF EmptyTable, EntryTable, Index, Unused, Entry
    <3> QED
      BY <1>2, <2>1, <3>1, <3>2, TableStored
  <2>2. CASE d \in D
    <3>1. IsLeaf(c[d]) /\ (FirstOf(c, d) \in Sector => c[FirstOf(c, d)] \in TableRecord)
      BY <1>1, <2>2 DEF SoundTables
    <3>2. CASE d = dir
      BY <1>1, <1>2, <1>8, <1>9, <2>2, <3>1, <3>2 DEF t
    <3>3. CASE d # dir
      BY <1>9, <2>2, <3>1, <3>3
    <3> QED
      BY <3>2, <3>3
  <2> QED
    BY <1>2, <2>1, <2>2
<1>18. \A y \in H2, i \in Direct :
         b[y].dataSectors[i] # FreeMapSector /\ b[y].dataSectors[i] # DirectorySector
  <2>1. \A y \in H, i \in Direct :
          b[y].dataSectors[i] # FreeMapSector /\ b[y].dataSectors[i] # DirectorySector
    BY <1>1, <1>5 DEF SoundTables
  <2> QED
    BY <1>2, <1>6, <2>1
<1>19. D2 \subseteq H2 /\ DirectorySector \in D2 /\ FreeMapSector \notin D2
  BY <1>1, <1>2, <1>6 DEF SoundTables
<1>20. SoundTables(b, M2, H2, D2, {})
  <2>1. \A d \in D2, l \in Index : Used(b, d, l) =>
          /\ TableOf(b, d)[l].name \in Name
          /\ Live(b, H2, D2, d, l) \/ (d \in {} /\ Dangling(b, M2, d, l))
    BY <1>14
  <2> QED
    BY <1>15, <1>16, <1>17, <1>18, <1>19, <2>1 DEF SoundTables
<1>21. ASSUME NEW d \in D, NEW l \in Index, Used(c, d, l)
       PROVE  Used(b, d, l) /\ TableOf(b, d)[l] = TableOf(c, d)[l]
  <2>1. CASE d = dir
    <3>1. l # k
      BY <1>1, <1>21, <2>1 DEF Used, e
    <3> QED
      BY <1>7, <1>9, <1>10, <1>21, <2>1, <3>1 DEF Used, e
  <2>2. CASE d # dir
    BY <1>9, <1>21, <2>2 DEF Used
  <2> QED
    BY <2>1, <2>2
<1>22. EntriesGrow(c, D, dir, k, x, isDir, s, b, D2)
  <2>1. Used(b, dir, k)
    BY <1>1, <1>7, <1>9, <1>10 DEF Used, t
  <2>2. D \subseteq D2
    BY <1>2
  <2>3. ASSUME NEW d \in D2, NEW l \in Index, Used(b, d, l)
        PROVE  /\ d \in D
               /\ \/ Used(c, d, l) /\ TableOf(b, d)[l] = TableOf(c, d)[l]
                  \/ d = dir /\ l = k
    BY <1>12, <2>3
  <2> QED
    BY <1>13, <1>21, <2>1, <2>2, <2>3 DEF EntriesGrow
<1> QED
  BY <1>5, <1>6, <1>20, <1>22 DEF Sound

-------------------------------------------------------------------------------
(* Create and CreateDirectory *)

\* What both do: a file of size bytes is made and entered in parent.
Making(w, H, D, parent, x, isDir, size, s, a, v) ==
  /\ w \in World /\ w.map = w.onDisk /\ ~w.aborted /\ Sound(w.content, w.onDisk, H, D, {})
  /\ parent \in D /\ ~Unreadable(w, parent) /\ x \in Name /\ isDir \in BOOLEAN
  /\ size \in 1 .. MaxSize /\ s = FindAndSet(w) /\ a = Allocate(Marked(w, s), size)
  /\ v = WrittenBack(a.w, s, a.header, parent, Add(FetchTable(w, parent), x, s, isDir))

\* Up to now nothing has changed that was marked.
SameMarked(w, v) == v.onDisk = w.onDisk /\ \A y \in w.onDisk : v.content[y] = w.content[y]

\* The file is written, and the table and the bitmap.
Made(w, parent, x, isDir, size, s, a, v) ==
  /\ s \in Sector /\ s \notin w.onDisk /\ s \in v.onDisk /\ w.onDisk \subseteq v.onDisk
  /\ Sized(a.header, MaxSize) /\ a.header.numBytes = size /\ v.content[s] = a.header
  /\ v.content[FirstOf(w.content, parent)] = Table(Add(FetchTable(w, parent), x, s, isDir))
  /\ \A y \in w.onDisk : y # FirstOf(w.content, parent) => v.content[y] = w.content[y]
  /\ \E N : Takes(v.content, a.header, N, (v.onDisk \ w.onDisk) \ {s})
  /\ a.w.map = v.onDisk /\ ~a.w.aborted
  /\ \A y \in Sector : y # s /\ y # FirstOf(w.content, parent) => v.content[y] = a.w.content[y]

\* A disk is sound as long as what is marked is as it was.
LEMMA SameIsSound ==
  ASSUME NEW w \in World, NEW H, NEW D, Sound(w.content, w.onDisk, H, D, {}), NEW v, SameMarked(w, v)
  PROVE  Sound(v.content, v.onDisk, H, D, {})
<1>1. v.onDisk = w.onDisk /\ v.onDisk \in SUBSET Sector /\ \A y \in w.onDisk : v.content[y] = w.content[y]
  BY DEF SameMarked, World
<1> DEFINE M == w.onDisk
           c == w.content
           b == v.content
<1>2. Sound(c, M, H, D, {}) /\ M \in SUBSET Sector /\ M \subseteq M /\ \A y \in M : b[y] = c[y]
  BY <1>1
<1> HIDE DEF M, c, b
<1>3. Sound(b, M, H, D, {})
  BY <1>2, SoundOn
<1> QED
  BY <1>1, <1>3 DEF b, M

\* Add makes a table of a table.
LEMMA AddedType ==
  ASSUME NEW e \in EntryTable, NEW x \in Name, NEW s \in Int, NEW isDir \in BOOLEAN
  PROVE  Add(e, x, s, isDir) \in EntryTable
<1>1. CASE CanAdd(e, x)
  <2>1. FreeEntry(e) \in Index
    BY <1>1, FreeEntryIs DEF CanAdd
  <2>2. With(e, FreeEntry(e), x, s, isDir) \in EntryTable
    BY <2>1, WithIs
  <2> QED
    BY <1>1, <2>2, AddIs
<1>2. CASE ~CanAdd(e, x)
  BY <1>2, AddIs
<1> QED
  BY <1>1, <1>2

\* Allocating, and writing the header, the table and the bitmap, makes a file in
\* sectors that were free; when it is aborted nothing that was marked has changed.
LEMMA FileMade ==
  ASSUME NEW w, NEW H, NEW D, NEW parent, NEW x, NEW isDir, NEW size, NEW s, NEW a, NEW v,
         Making(w, H, D, parent, x, isDir, size, s, a, v)
  PROVE  /\ v \in World /\ a.w \in World /\ SameMarked(w, a.w)
         /\ v.aborted => SameMarked(w, v) /\ (a.w.aborted \/ s \notin Sector)
         /\ ~v.aborted => Made(w, parent, x, isDir, size, s, a, v)
<1> DEFINE c  == w.content
           e  == FetchTable(w, parent)
           g  == Add(e, x, s, isDir)
           t  == FirstOf(c, parent)
           u0 == Marked(w, s)
           u1 == WriteSector(a.w, s, a.header)
           u2 == WriteTable(u1, parent, g)
<1>1. /\ w \in World /\ w.map = w.onDisk /\ ~w.aborted /\ Sound(c, w.onDisk, H, D, {})
      /\ parent \in D /\ ~Unreadable(w, parent) /\ x \in Name /\ isDir \in BOOLEAN
      /\ size \in 1 .. MaxSize /\ s = FindAndSet(w) /\ a = Allocate(u0, size)
      /\ v = WriteMap(u2)
  BY DEF Making, WrittenBack
<1>2. e \in EntryTable /\ t \in Sector
  BY <1>1, TableRead
<1>3. \/ s \in Sector /\ s \notin w.onDisk /\ s \in Int
      \/ s = -1 /\ s \notin Sector /\ s \in Int
  BY <1>1, FoundIsFree DEF Sector
<1>4. g \in EntryTable
  <2> HIDE DEF e
  <2> QED
    BY <1>1, <1>2, <1>3, AddedType
<1>5. /\ u0 \in World /\ u0.onDisk = w.onDisk /\ u0.content = c /\ u0.aborted = w.aborted
      /\ u0.map = w.onDisk \cup ({s} \cap Sector)
  BY <1>1, MarkedIs
<1> HIDE DEF u0, g, e
<1>6. Allocated(u0, size, a)
  BY <1>1, <1>5, Level4Allocates
<1>7. /\ a.w \in World /\ a.w.onDisk = w.onDisk /\ u0.map \subseteq a.w.map /\ a.w.map \subseteq Sector
      /\ \A y \in Sector : a.w.content[y] = c[y] \/ y \in a.w.map \ u0.map
      /\ Sized(a.header, MaxSize) /\ a.header.numBytes = size
  BY <1>5, <1>6 DEF Allocated, OnlyMarks, World
<1>8. w.onDisk \subseteq Sector /\ SameMarked(w, a.w)
  BY <1>1, <1>5, <1>7 DEF SameMarked, World
<1>9. a.header \in Stored
  BY <1>7 DEF Sized, Stored
<1>10. /\ u1 \in World /\ u1.onDisk = w.onDisk /\ u1.map = a.w.map
       /\ u1.aborted <=> (a.w.aborted \/ s \notin Sector)
       /\ u1.content = IF u1.aborted THEN a.w.content ELSE Put(a.w.content, s, a.header)
  <2> DEFINE y == a.w
             h == a.header
  <2>1. y \in World /\ h \in Stored /\ u1 = WriteSector(y, s, h) /\ y.onDisk = w.onDisk
    BY <1>7, <1>9
  <2> HIDE DEF u1, y, h
  <2>2. /\ u1 \in World /\ u1.onDisk = y.onDisk /\ u1.map = y.map
        /\ u1.aborted <=> (y.aborted \/ s \notin Sector)
        /\ u1.content = IF u1.aborted THEN y.content ELSE Put(y.content, s, h)
    BY <2>1, WriteSectorIs
  <2> QED
    BY <2>1, <2>2 DEF y, h
<1>11. ~u1.aborted => /\ s \in Sector /\ s \notin w.onDisk /\ u1.content[s] = a.header
                      /\ \A y \in Sector : y # s => u1.content[y] = a.w.content[y]
  <2>1. a.w.content \in Content
    BY <1>7 DEF World
  <2> QED
    BY <1>3, <1>9, <1>10, <2>1, PutIs
<1> HIDE DEF u1
<1>12. SameMarked(w, u1)
  <2>1. CASE u1.aborted
    BY <1>8, <1>10, <2>1 DEF SameMarked
  <2>2. CASE ~u1.aborted
    <3>1. \A y \in w.onDisk : y \in Sector /\ y # s
      BY <1>8, <1>11, <2>2
    <3> QED
      BY <1>8, <1>10, <1>11, <2>2, <3>1 DEF SameMarked
  <2> QED
    BY <2>1, <2>2
<1>13. TableSector(u1, parent) = t
  <2>1. Sound(u1.content, u1.onDisk, H, D, {})
    BY <1>1, <1>12, SameIsSound
  <2>2. TableSector(u1, parent) = FirstOf(u1.content, parent)
    BY <1>1, <2>1, TableRead
  <2>3. parent \in w.onDisk
    BY <1>1 DEF Sound, SoundTables, SoundHeaders
  <2> QED
    BY <1>12, <2>2, <2>3 DEF SameMarked, FirstOf
<1>14. /\ u2 \in World /\ u2.onDisk = w.onDisk /\ u2.map = a.w.map
       /\ u2.aborted <=> u1.aborted
       /\ u2.content = IF u2.aborted THEN u1.content ELSE Put(u1.content, t, Table(g))
  <2> HIDE DEF t, u2
  <2>1. u2 = WriteTable(u1, parent, g)
    BY DEF u2
  <2>2. /\ u2 \in World /\ u2.onDisk = u1.onDisk /\ u2.map = u1.map
        /\ u2.aborted <=> (u1.aborted \/ t \notin Sector)
        /\ u2.content = IF u2.aborted THEN u1.content ELSE Put(u1.content, t, Table(g))
    BY <1>4, <1>10, <1>13, <2>1, WriteTableIs
  <2> QED
    BY <1>2, <1>10, <2>2
<1> HIDE DEF u2
<1>15. /\ v \in World /\ v.content = u2.content /\ v.aborted = u2.aborted
       /\ v.onDisk = IF u2.aborted THEN w.onDisk ELSE a.w.map
  BY <1>1, <1>14, WriteMapIs
<1>16. ASSUME v.aborted PROVE SameMarked(w, v) /\ (a.w.aborted \/ s \notin Sector)
  BY <1>10, <1>12, <1>14, <1>15, <1>16 DEF SameMarked
<1>17. ASSUME ~v.aborted PROVE Made(w, parent, x, isDir, size, s, a, v)
  <2>1. /\ ~u1.aborted /\ ~a.w.aborted /\ s \in Sector /\ s \notin w.onDisk
        /\ v.content = Put(u1.content, t, Table(g)) /\ v.onDisk = a.w.map
    BY <1>10, <1>11, <1>14, <1>15, <1>17
  <2>2. v.content[t] = Table(g) /\ \A y \in Sector : y # t => v.content[y] = u1.content[y]
    <3>1. u1.content \in Content
      BY <1>10 DEF World
    <3> QED
      BY <1>2, <1>4, <2>1, <3>1, PutIs, TableStored
  <2>3. t \in w.onDisk /\ t # s
    <3>1. IsLeaf(c[parent]) /\ parent \in H
      BY <1>1 DEF Sound, SoundTables
    <3>2. t \in w.onDisk
      BY <1>1, <1>2, <3>1, Limits DEF Sound, SoundHeaders, Names, FirstOf, Direct
    <3> QED
      BY <2>1, <3>2
  <2>4. v.content[s] = a.header /\ s \in v.onDisk /\ w.onDisk \subseteq v.onDisk
    BY <1>5, <1>7, <1>11, <2>1, <2>2, <2>3
  <2>5. \A y \in w.onDisk : y # t => v.content[y] = c[y]
    BY <1>8, <1>12, <2>2 DEF SameMarked
  <2>6. PICK N \in SUBSET Sector : Takes(a.w.content, a.header, N, a.w.map \ u0.map)
    BY <1>6, <2>1 DEF Allocated
  <2>7. N \subseteq a.w.map \ u0.map
    BY <2>6 DEF Takes
  <2>8. a.w.map \ u0.map = (v.onDisk \ w.onDisk) \ {s}
    BY <1>5, <2>1
  <2>9. \A y \in N : v.content[y] = a.w.content[y]
    <3> TAKE y \in N
    <3>1. y \in Sector /\ y # s /\ y # t
      BY <2>3, <2>7, <2>8
    <3> QED
      BY <1>11, <2>1, <2>2, <3>1
  <2>10. Takes(v.content, a.header, N, (v.onDisk \ w.onDisk) \ {s})
    <3> DEFINE new == (v.onDisk \ w.onDisk) \ {s}
               h == a.header
               b == v.content
               c1 == a.w.content
    <3>1. Takes(c1, h, N, new) /\ \A y \in N : b[y] = c1[y]
      BY <2>6, <2>8, <2>9
    <3> HIDE DEF new, h, b, c1
    <3>2. Takes(b, h, N, new)
      BY <3>1, TakesOn
    <3> QED
      BY <3>2 DEF new, h, b
  <2>11. \A y \in Sector : y # s /\ y # t => v.content[y] = a.w.content[y]
    BY <1>11, <2>1, <2>2
  <2> QED
    BY <1>7, <2>1, <2>2, <2>4, <2>5, <2>10, <2>11 DEF Made, g, e
<1> QED
  BY <1>7, <1>8, <1>15, <1>16, <1>17

\* The operation left a sound disk.
LeavesSound(v) == v \in World /\ \E H2, D2 : Sound(v.content, v.onDisk, H2, D2, {})

\* An operation that changes nothing that is marked leaves a sound disk.
LEMMA SameLeavesSound ==
  ASSUME NEW w \in World, NEW H, NEW D, Sound(w.content, w.onDisk, H, D, {}),
         NEW v \in World, SameMarked(w, v)
  PROVE  LeavesSound(v)
BY SameIsSound DEF LeavesSound

\* A file of at most Limit2 bytes has no sub-headers.
LEMMA LeafHeader ==
  ASSUME NEW size \in 1 .. Limit2, NEW h, h.numBytes = size
  PROVE  IsLeaf(h) /\ size \in 1 .. MaxSize
BY Limits DEF IsLeaf, MaxSize

\* A table that is not read when there are no more names on it.
LEMMA CanAddIs ==
  ASSUME NEW e \in EntryTable, NEW x \in Name, CanAdd(e, x), NEW k, k = FreeEntry(e)
  PROVE  /\ k \in Index /\ ~e[k].inUse
         /\ \A l \in Index : e[l].inUse => e[l].name # x
<1>1. k \in Index /\ ~e[k].inUse
  BY FreeEntryIs DEF CanAdd
<1>2. \A l \in Index : e[l].inUse => e[l].name # x
  BY FindIndexIs DEF CanAdd
<1> QED
  BY <1>1, <1>2

\* On the disk b a directory made has its table, where there is place for it.
TableWritten(h, isDir, v, b) ==
  /\ isDir => IsLeaf(h) /\ (h.dataSectors[0] \in Sector => b[h.dataSectors[0]] = Table(EmptyTable))
  /\ ~isDir => b = v.content
  /\ \A y \in v.onDisk : y = h.dataSectors[0] \/ b[y] = v.content[y]

\* The file made is an entry added.
LEMMA MadeIsFileAdded ==
  ASSUME NEW w, NEW H, NEW D, NEW parent, NEW x, NEW isDir, NEW size, NEW s, NEW a, NEW v,
         Making(w, H, D, parent, x, isDir, size, s, a, v), v \in World,
         Made(w, parent, x, isDir, size, s, a, v), CanAdd(FetchTable(w, parent), x),
         NEW b, b[s] = a.header, TableWritten(a.header, isDir, v, b)
  PROVE  \E N, H2, D2 :
           FileAdded(w.content, w.onDisk, H, D, parent, FreeEntry(FetchTable(w, parent)), x, isDir,
                     s, a.header, N, b, v.onDisk, H2, D2)
<1> DEFINE c == w.content
           M == w.onDisk
           M2 == v.onDisk
           e == FetchTable(w, parent)
           k == FreeEntry(e)
           t == FirstOf(c, parent)
           h == a.header
           new == (M2 \ M) \ {s}
<1>1. /\ w \in World /\ w.map = w.onDisk /\ ~w.aborted /\ Sound(c, M, H, D, {})
      /\ parent \in D /\ ~Unreadable(w, parent) /\ x \in Name /\ isDir \in BOOLEAN
  BY DEF Making
<1>2. e \in EntryTable /\ e = TableOf(c, parent) /\ t \in Sector
  BY <1>1, TableRead
<1>3. k \in Index /\ ~e[k].inUse /\ \A l \in Index : e[l].inUse => e[l].name # x
  <2> HIDE DEF e
  <2> QED
    BY <1>1, <1>2, CanAddIs DEF e
<1>4. Add(e, x, s, isDir) = With(e, k, x, s, isDir)
  BY DEF Add, With
<1>5. /\ s \in Sector /\ s \notin M /\ s \in M2 /\ M \subseteq M2 /\ Sized(h, MaxSize)
      /\ v.content[t] = Table(Add(e, x, s, isDir))
      /\ \A y \in M : y # t => v.content[y] = c[y]
  BY DEF Made
<1>6. PICK N : Takes(v.content, h, N, new)
  BY DEF Made
<1> HIDE DEF e, k
<1>7. parent \in H /\ IsLeaf(c[parent]) /\ t \in M /\ M2 \subseteq Sector
  <2>1. parent \in H /\ IsLeaf(c[parent])
    BY <1>1 DEF Sound, SoundTables
  <2>2. t \in M
    BY <1>1, <1>2, <2>1, Limits DEF Sound, SoundHeaders, Names, FirstOf, Direct
  <2> QED
    BY <2>1, <2>2 DEF World
<1>8. isDir => h.dataSectors[0] \notin M /\ h.dataSectors[0] \notin N
  <2>1. ASSUME isDir, h.dataSectors[0] \in Sector PROVE h.dataSectors[0] \in new /\ h.dataSectors[0] \notin N
    <3>1. Names(h, N, new) /\ IsLeaf(h) /\ 0 \in Direct
      BY <1>6, <2>1, Limits DEF Takes, Direct, TableWritten
    <3> QED
      BY <2>1, <3>1 DEF Names
  <2>2. M \subseteq Sector /\ N \subseteq Sector
    BY <1>6, <1>7, <1>5 DEF Takes
  <2> QED
    BY <2>1, <2>2
<1>9. \A y \in M \cup N : b[y] = v.content[y]
  <2>1. N \subseteq M2
    BY <1>6 DEF Takes
  <2>2. CASE isDir
    BY <1>5, <1>8, <2>1, <2>2 DEF TableWritten
  <2>3. CASE ~isDir
    BY <2>3 DEF TableWritten
  <2> QED
    BY <2>2, <2>3
<1>10. Takes(b, h, N, new)
  <2> DEFINE c1 == v.content
  <2>1. Takes(c1, h, N, new) /\ \A y \in N : b[y] = c1[y]
    BY <1>6, <1>9
  <2> HIDE DEF c1, h, new
  <2> QED
    BY <2>1, TakesOn
<1> DEFINE H2 == (H \cup {s}) \cup N
           D2 == D \cup {y \in {s} : isDir}
<1>11. FileAdded(c, M, H, D, parent, k, x, isDir, s, h, N, b, M2, H2, D2)
  <2>1. b[t] = Table(With(TableOf(c, parent), k, x, s, isDir))
    BY <1>2, <1>4, <1>5, <1>7, <1>9
  <2>2. \A y \in M : y # t => b[y] = c[y]
    BY <1>5, <1>9
  <2>3. ~TableOf(c, parent)[k].inUse
        /\ \A l \in Index : TableOf(c, parent)[l].inUse => TableOf(c, parent)[l].name # x
    BY <1>2, <1>3
  <2>4. isDir => IsLeaf(h) /\ (h.dataSectors[0] \in Sector => b[h.dataSectors[0]] = Table(EmptyTable))
    BY DEF TableWritten
  <2>5. b[s] = h
    OBVIOUS
  <2> HIDE DEF H2, D2
  <2>6. H2 = (H \cup {s}) \cup N /\ D2 = D \cup {y \in {s} : isDir}
    BY DEF H2, D2
  <2> QED
    BY <1>1, <1>2, <1>3, <1>5, <1>7, <1>10, <2>1, <2>2, <2>3, <2>4, <2>5, <2>6 DEF FileAdded
<1> QED
  BY <1>11 DEF k, e

\* A file that is made under a name that was not used is added to a sound disk.
LEMMA MadeIsAdded ==
  ASSUME NEW w, NEW H, NEW D, NEW parent, NEW x, NEW isDir, NEW size, NEW s, NEW a, NEW v,
         Making(w, H, D, parent, x, isDir, size, s, a, v), v \in World,
         Made(w, parent, x, isDir, size, s, a, v), CanAdd(FetchTable(w, parent), x),
         NEW b, b[s] = a.header, TableWritten(a.header, isDir, v, b)
  PROVE  \E H2, D2 : Sound(b, v.onDisk, H2, D2, {})
<1> DEFINE c == w.content
           M == w.onDisk
           M2 == v.onDisk
           k == FreeEntry(FetchTable(w, parent))
           h == a.header
<1>1. PICK N, H2, D2 : FileAdded(c, M, H, D, parent, k, x, isDir, s, h, N, b, M2, H2, D2)
  BY MadeIsFileAdded
<1> HIDE DEF c, M, M2, k, h
<1>2. Sound(b, M2, H2, D2, {})
  BY <1>1, EntryAdded
<1> QED
  BY <1>2 DEF M2

\* The disk between operations.
SoundDisk(H, D) ==
  Disk \in World /\ Disk.onDisk = map /\ Disk.content = content /\ Disk.map = map /\ ~Disk.aborted
    /\ Sound(content, map, H, D, {})

\* The disk an operation starts with.
LEMMA DiskIs ==
  ASSUME NEW H, NEW D, Sound(content, map, H, D, {}), map \subseteq Sector, content \in Content
  PROVE  SoundDisk(H, D)
BY DEF SoundDisk, Disk, World

\* Paths that are called have a last name.
LEMMA LastIs ==
  ASSUME NEW p \in Path
  PROVE  /\ p \in Seq(Name) /\ p # <<>> /\ Len(p) \in Nat \ {0}
         /\ Seqs!Last(p) = p[Len(p)] /\ Seqs!Last(p) \in Name
<1>1. p \in Seq(Name) /\ p # <<>>
  BY TreeAssumption
<1>2. Len(p) \in Nat \ {0} /\ p[Len(p)] \in Name
  BY <1>1, EmptySeq
<1> QED
  BY <1>1, <1>2 DEF Seqs!Last

\* FileSystem::Create leaves a sound disk; when it fails or is aborted, nothing that
\* was marked has changed (filesys.cc:261).
LEMMA CreateIs ==
  ASSUME NEW H, NEW D, SoundDisk(H, D), NEW p \in Path, NEW size \in FileSize,
         ~ThroughFile(Disk, p), NEW r, r = CreateResult(p, size)
  PROVE  /\ LeavesSound(r.w)
         /\ ~r.ok => SameMarked(Disk, r.w)
<1> DEFINE parent == FindPath(Disk, Seqs!Front(p))
           w == FetchMap(Disk)
           x == Seqs!Last(p)
           e == FetchTable(w, parent)
           s == FindAndSet(w)
           a == Allocate(Marked(w, s), size)
           v == WrittenBack(a.w, s, a.header, parent, Add(e, x, s, FALSE))
<1>1. /\ Disk \in World /\ Disk.onDisk = map /\ Disk.content = content /\ ~Disk.aborted
      /\ Sound(Disk.content, Disk.onDisk, H, D, {})
  BY DEF SoundDisk
<1>2. /\ w \in World /\ w.map = map /\ w.onDisk = map /\ w.content = content /\ ~w.aborted
      /\ Sound(w.content, w.onDisk, H, D, {})
  BY <1>1, FetchMapIs
<1>3. p \in Seq(Name) /\ p # <<>> /\ x \in Name
  BY LastIs
<1>4. parent \in D \/ parent = -1 \/ parent = -2
  BY <1>1, <1>3, ParentIs
<1>5. size \in 1 .. MaxSize
  BY TreeAssumption DEF MaxSize
<1>6. r = IF parent = -1 THEN Failed(Disk)
          ELSE IF parent = -2 \/ Unreadable(w, parent) THEN Failed(Abort(Disk))
          ELSE IF Find(e, x) # -1 \/ s = -1 \/ ~CanAdd(e, x) THEN Failed(Disk)
          ELSE IF ~a.ok THEN Failed(a.w)
          ELSE [w |-> v, ok |-> ~a.w.aborted]
  BY DEF CreateResult
<1> HIDE DEF x, w, parent
<1>7. ASSUME NEW u \in World, SameMarked(Disk, u), r = Failed(u)
      PROVE  LeavesSound(r.w) /\ (~r.ok => SameMarked(Disk, r.w))
  <2>1. r.w = u
    BY <1>7 DEF Failed
  <2>2. LeavesSound(u)
    <3> DEFINE o == Disk
    <3>1. o \in World /\ Sound(o.content, o.onDisk, H, D, {}) /\ SameMarked(o, u)
      BY <1>1, <1>7
    <3> HIDE DEF o
    <3> QED
      BY <3>1, SameLeavesSound
  <2> QED
    BY <1>7, <2>1, <2>2
<1>8. Disk \in World /\ SameMarked(Disk, Disk) /\ Abort(Disk) \in World /\ SameMarked(Disk, Abort(Disk))
  BY <1>1, AbortKeeps DEF SameMarked
<1>9. CASE parent = -1
  BY <1>6, <1>7, <1>8, <1>9
<1>10. CASE parent # -1 /\ (parent = -2 \/ Unreadable(w, parent))
  BY <1>6, <1>7, <1>8, <1>10
<1>11. CASE /\ parent # -1 /\ ~(parent = -2 \/ Unreadable(w, parent))
            /\ Find(e, x) # -1 \/ s = -1 \/ ~CanAdd(e, x)
  BY <1>6, <1>7, <1>8, <1>11
<1>12. CASE /\ parent # -1 /\ ~(parent = -2 \/ Unreadable(w, parent))
            /\ ~(Find(e, x) # -1 \/ s = -1 \/ ~CanAdd(e, x))
  <2>1. parent \in D /\ ~Unreadable(w, parent) /\ CanAdd(e, x)
    BY <1>4, <1>12
  <2> DEFINE no == FALSE
  <2>2. Making(w, H, D, parent, x, no, size, s, a, v)
    BY <1>2, <1>3, <1>5, <2>1 DEF Making
  <2>0. ~no
    OBVIOUS
  <2> HIDE DEF no
  <2> HIDE DEF s, a, v
  <2>3. /\ v \in World /\ a.w \in World /\ SameMarked(w, a.w)
        /\ v.aborted => SameMarked(w, v)
        /\ ~v.aborted => Made(w, parent, x, no, size, s, a, v)
    BY <2>2, FileMade
  <2>4. \A u : SameMarked(w, u) => SameMarked(Disk, u)
    BY <1>1, <1>2 DEF SameMarked
  <2>5. CASE ~a.ok
    <3>1. r = Failed(a.w)
      BY <1>6, <1>12, <2>5
    <3> QED
      BY <1>7, <2>3, <2>4, <3>1
  <2>6. CASE a.ok
    <3>1. r = [w |-> v, ok |-> ~a.w.aborted]
      BY <1>6, <1>12, <2>6
    <3>2. LeavesSound(v)
      <4>1. CASE v.aborted
        BY <1>2, <2>3, <4>1, SameLeavesSound
      <4>2. CASE ~v.aborted
        <5> DEFINE b == v.content
        <5>1. Made(w, parent, x, no, size, s, a, v)
          BY <2>3, <4>2
        <5>2. b[s] = a.header
          BY <5>1 DEF Made
        <5>3. b = v.content /\ TableWritten(a.header, no, v, b)
          BY <2>0 DEF TableWritten
        <5> HIDE DEF b
        <5>4. \E H2, D2 : Sound(b, v.onDisk, H2, D2, {})
          BY <2>1, <2>2, <2>3, <5>1, <5>2, <5>3, MadeIsAdded DEF e
        <5> QED
          BY <2>3, <5>3, <5>4 DEF LeavesSound
      <4> QED
        BY <4>1, <4>2
    <3>3. a.w.aborted => v.aborted
      BY DEF v, WrittenBack, WriteSector, WriteTable, WriteMap
    <3>4. r.w = v /\ (~r.ok => a.w.aborted)
      <4>1. r.w = v
        BY <3>1
      <4> DEFINE done == ~a.w.aborted
      <4>2. r = [w |-> v, ok |-> done]
        BY <3>1
      <4> HIDE DEF done
      <4>3. r.ok = done
        BY <4>2
      <4> QED
        BY <4>1, <4>3 DEF done
    <3> QED
      BY <2>3, <2>4, <3>2, <3>3, <3>4
  <2> QED
    BY <2>5, <2>6
<1> QED
  BY <1>9, <1>10, <1>11, <1>12

\* A table without entries is a table.
LEMMA EmptyTableType ==
  EmptyTable \in EntryTable
<1>1. Unused \in Entry
  BY DEF Unused, Entry
<1> QED
  BY <1>1 DEF EmptyTable, EntryTable, Index

\* The directory's table is written when all else is.
LEMMA DirectoryMade ==
  ASSUME NEW w, NEW H, NEW D, NEW parent, NEW x, NEW isDir, NEW size \in 1 .. Limit2, NEW s, NEW a, NEW v,
         Making(w, H, D, parent, x, isDir, size, s, a, v), isDir, v \in World, ~v.aborted,
         Made(w, parent, x, isDir, size, s, a, v), NEW z, z = WriteTable(v, s, EmptyTable)
  PROVE  LeavesSound(z)
<1> DEFINE c == w.content
           M == w.onDisk
           b == z.content
           e == FetchTable(w, parent)
           t == FirstOf(c, parent)
           h == a.header
           f == h.dataSectors[0]
           new == (v.onDisk \ M) \ {s}
<1>1. /\ w \in World /\ Sound(c, M, H, D, {}) /\ parent \in D /\ ~Unreadable(w, parent)
  BY DEF Making
<1>2. /\ s \in Sector /\ s \notin M /\ s \in v.onDisk /\ M \subseteq v.onDisk
      /\ h.numBytes = size /\ v.content[s] = h
      /\ v.content[t] = Table(Add(e, x, s, isDir))
      /\ \A y \in M : y # t => v.content[y] = c[y]
  BY DEF Made
<1>3. PICK N : Takes(v.content, h, N, new)
  BY DEF Made
<1>4. IsLeaf(h)
  BY <1>2, LeafHeader
<1>5. f \in Sector => f \in new
  BY <1>3, <1>4, Limits DEF Takes, Names, Direct
<1>6. TableSector(v, s) = f
  <2>1. IsLeaf(v.content[s])
    BY <1>2, <1>4
  <2> QED
    BY <1>2, <2>1, TableSectorIs DEF TableSector, FirstOf
<1>7. EmptyTable \in EntryTable
  BY EmptyTableType
<1>8. /\ z \in World /\ z.onDisk = v.onDisk
      /\ z.aborted <=> f \notin Sector
      /\ b = IF z.aborted THEN v.content ELSE Put(v.content, f, Table(EmptyTable))
  <2>1. z = WriteTable(v, s, EmptyTable)
    OBVIOUS
  <2> HIDE DEF f
  <2>2. /\ z \in World /\ z.onDisk = v.onDisk
        /\ z.aborted <=> (v.aborted \/ f \notin Sector)
        /\ z.content = IF z.aborted THEN v.content ELSE Put(v.content, f, Table(EmptyTable))
    BY <1>6, <1>7, <2>1, WriteTableIs
  <2> QED
    BY <2>2
<1>9. /\ f \in Sector => b[f] = Table(EmptyTable)
      /\ \A y \in Sector : y = f \/ b[y] = v.content[y]
  <2>1. CASE f \notin Sector
    BY <1>8, <2>1
  <2>2. CASE f \in Sector
    <3>1. v.content \in Content
      BY DEF World
    <3> QED
      BY <1>7, <1>8, <2>2, <3>1, PutIs, TableStored
  <2> QED
    BY <2>1, <2>2
<1>10. v.onDisk \subseteq Sector
  BY DEF World
<1> HIDE DEF f, b
<1>11. CASE CanAdd(e, x)
  <2>1. b[s] = h
    BY <1>2, <1>5, <1>9
  <2>2. TableWritten(a.header, isDir, v, b)
    BY <1>4, <1>9, <1>10 DEF TableWritten, f
  <2>3. \E H2, D2 : Sound(b, v.onDisk, H2, D2, {})
    BY <1>11, <2>1, <2>2, MadeIsAdded
  <2> QED
    BY <1>8, <2>3 DEF LeavesSound, b
<1>12. CASE ~CanAdd(e, x)
  <2>1. /\ parent \in H /\ IsLeaf(c[parent]) /\ t \in Sector /\ c[t] \in TableRecord
        /\ e = TableOf(c, parent)
    <3>1. parent \in H /\ IsLeaf(c[parent]) /\ (t \in Sector => c[t] \in TableRecord)
      BY <1>1 DEF Sound, SoundTables
    <3>2. t \in Sector /\ e = TableOf(c, parent)
      BY <1>1, TableRead
    <3> QED
      BY <3>1, <3>2
  <2>2. Table(e) = c[t]
    BY <2>1 DEF Table, TableOf, TableRecord
  <2>3. v.content[t] = c[t]
    BY <1>2, <1>12, <2>2 DEF Add
  <2>4. \A y \in M : b[y] = c[y]
    <3> TAKE y \in M
    <3>1. y \in Sector /\ y # f
      BY <1>2, <1>5, <1>10
    <3> QED
      BY <1>2, <1>9, <2>3, <3>1
  <2> DEFINE M2 == v.onDisk
  <2>5. M2 \in SUBSET Sector /\ M \subseteq M2
    BY <1>2, <1>10
  <2> HIDE DEF M, M2, c
  <2>6. Sound(b, M2, H, D, {})
    BY <1>1, <2>4, <2>5, SoundOn
  <2> QED
    BY <1>8, <2>6 DEF LeavesSound, b, M2
<1> QED
  BY <1>11, <1>12

\* FileSystem::CreateDirectory leaves a sound disk, although it looks at no result,
\* and may have taken sectors for a directory it could not enter (filesys.cc:210).
LEMMA CreateDirectoryIs ==
  ASSUME NEW H, NEW D, SoundDisk(H, D), NEW p \in Path,
         ~ThroughFile(Disk, p), NEW r, r = CreateDirectoryResult(p)
  PROVE  LeavesSound(r)
<1> DEFINE parent == FindPath(Disk, Seqs!Front(p))
           w == FetchMap(Disk)
           x == Seqs!Last(p)
           e == FetchTable(w, parent)
           s == FindAndSet(w)
           a == Allocate(Marked(w, s), DirectoryFileSize)
           v == WrittenBack(a.w, s, a.header, parent, Add(e, x, s, TRUE))
<1>1. /\ Disk \in World /\ Disk.onDisk = map /\ Disk.content = content /\ ~Disk.aborted
      /\ Sound(Disk.content, Disk.onDisk, H, D, {})
  BY DEF SoundDisk
<1>2. /\ w \in World /\ w.map = map /\ w.onDisk = map /\ w.content = content /\ ~w.aborted
      /\ Sound(w.content, w.onDisk, H, D, {})
  BY <1>1, FetchMapIs
<1>3. p \in Seq(Name) /\ p # <<>> /\ x \in Name
  BY LastIs
<1>4. parent \in D \/ parent = -1 \/ parent = -2
  BY <1>1, <1>3, ParentIs
<1>5. DirectoryFileSize \in 1 .. Limit2 /\ DirectoryFileSize \in 1 .. MaxSize
  BY TreeAssumption, Limits DEF MaxSize
<1>6. r = IF parent = -1 THEN Disk
          ELSE IF parent = -2 \/ Unreadable(w, parent) THEN Abort(Disk)
          ELSE IF v.aborted THEN v
          ELSE WriteTable(v, s, EmptyTable)
  BY DEF CreateDirectoryResult
<1> HIDE DEF x, w, parent
<1>7. ASSUME NEW u \in World, SameMarked(Disk, u) PROVE LeavesSound(u)
  <2> DEFINE o == Disk
  <2>1. o \in World /\ Sound(o.content, o.onDisk, H, D, {}) /\ SameMarked(o, u)
    BY <1>1, <1>7
  <2> HIDE DEF o
  <2> QED
    BY <2>1, SameLeavesSound
<1>8. Disk \in World /\ SameMarked(Disk, Disk) /\ Abort(Disk) \in World /\ SameMarked(Disk, Abort(Disk))
  BY <1>1, AbortKeeps DEF SameMarked
<1>9. CASE parent = -1
  BY <1>6, <1>7, <1>8, <1>9
<1>10. CASE parent # -1 /\ (parent = -2 \/ Unreadable(w, parent))
  BY <1>6, <1>7, <1>8, <1>10
<1>11. CASE parent # -1 /\ ~(parent = -2 \/ Unreadable(w, parent))
  <2>1. parent \in D /\ ~Unreadable(w, parent)
    BY <1>4, <1>11
  <2> DEFINE yes == TRUE
             size == DirectoryFileSize
  <2>2. Making(w, H, D, parent, x, yes, size, s, a, v)
    BY <1>2, <1>3, <1>5, <2>1 DEF Making
  <2>3. yes /\ size \in 1 .. Limit2
    BY <1>5
  <2> HIDE DEF yes, s, a, v, size
  <2>4. /\ v \in World
        /\ v.aborted => SameMarked(w, v)
        /\ ~v.aborted => Made(w, parent, x, yes, size, s, a, v)
    BY <2>2, FileMade
  <2>5. CASE v.aborted
    <3>1. SameMarked(Disk, v)
      BY <1>1, <1>2, <2>4, <2>5 DEF SameMarked
    <3> QED
      BY <1>6, <1>7, <1>11, <2>4, <2>5, <3>1
  <2>6. CASE ~v.aborted
    <3>1. r = WriteTable(v, s, EmptyTable)
      BY <1>6, <1>11, <2>6
    <3> QED
      BY <2>2, <2>3, <2>4, <2>6, <3>1, DirectoryMade
  <2> QED
    BY <2>5, <2>6
<1> QED
  BY <1>9, <1>10, <1>11

-------------------------------------------------------------------------------
(* The disk after an operation *)

\* It is a sound disk.
SoundNext ==
  map' \subseteq Sector /\ content' \in Content /\ \E H, D : Sound(content', map', H, D, {})

\* What an operation leaves is a sound disk.
LEMMA EffectIs ==
  ASSUME NEW v, LeavesSound(v), Effect(v)
  PROVE  SoundNext
<1>1. v \in World /\ map' = v.onDisk /\ content' = v.content
  BY DEF LeavesSound, Effect
<1>2. PICK H, D : Sound(v.content, v.onDisk, H, D, {})
  BY DEF LeavesSound
<1>3. v.onDisk \subseteq Sector /\ v.content \in Content
  BY <1>1 DEF World
<1> QED
  BY <1>1, <1>2, <1>3 DEF SoundNext

\* The disk has the two sectors of the files without entries.
LEMMA TwoSectors ==
  FreeMapSector \in Sector /\ DirectorySector \in Sector /\ FreeMapSector # DirectorySector
<1>2. NumSectors \in Nat /\ NumSectors >= 2
  BY Limits, TreeAssumption
<1> QED
  BY <1>2 DEF Sector, FreeMapSector, DirectorySector

\* The two files without entries, with their sub-headers N1 and N2, have sectors of
\* their own in what was free, new1 and new2.
TwoFiles(c, M, N1, new1, N2, new2) ==
  /\ Takes(c, c[FreeMapSector], N1, new1) /\ Takes(c, c[DirectorySector], N2, new2)
  /\ Sized(c[FreeMapSector], MaxSize) /\ Sized(c[DirectorySector], MaxSize)
  /\ new1 \cap {FreeMapSector, DirectorySector} = {}
  /\ new2 \cap {FreeMapSector, DirectorySector} = {}
  /\ new1 \cap new2 = {} /\ new1 \subseteq M /\ new2 \subseteq M
  /\ {FreeMapSector, DirectorySector} \subseteq M /\ M \subseteq Sector

\* The header in s and the sub-headers N it takes.
LEMMA TakenTogether ==
  ASSUME NEW c, NEW s, NEW N, NEW new, Takes(c, c[s], N, new), Sized(c[s], MaxSize)
  PROVE  /\ N \subseteq new /\ NoneShared(c, {s} \cup N)
         /\ \A x \in {s} \cup N :
              Sized(c[x], MaxSize) /\ Names(c[x], N, new) /\ Shares(c, c[x], N)
<1>1. N \subseteq new
  BY DEF Takes
<1>2. \A x \in {s} \cup N : Sized(c[x], MaxSize) /\ Names(c[x], N, new) /\ Shares(c, c[x], N)
  BY DEF Takes
<1>3. NoneShared(c, {s} \cup N)
  <2> SUFFICES ASSUME NEW x \in {s} \cup N, NEW y \in {s} \cup N, NEW i \in Direct, NEW j \in Direct,
                      c[x].dataSectors[i] \in Sector, c[x].dataSectors[i] = c[y].dataSectors[j]
               PROVE  x = y /\ i = j
    BY DEF NoneShared
  <2>1. CASE x = s /\ y = s
    BY <2>1 DEF Takes
  <2>2. CASE x = s /\ y \in N
    BY <2>2 DEF Takes
  <2>3. CASE x \in N /\ y = s
    BY <2>3 DEF Takes
  <2>4. CASE x \in N /\ y \in N
    BY <2>4 DEF Takes, NoneShared
  <2> QED
    BY <2>1, <2>2, <2>3, <2>4
<1> QED
  BY <1>1, <1>2, <1>3

\* Then the headers of both are sound, and lead to neither of the two sectors.
LEMMA TwoFilesAreSound ==
  ASSUME NEW c, NEW M, NEW N1, NEW new1, NEW N2, NEW new2, TwoFiles(c, M, N1, new1, N2, new2),
         NEW H, H = ({FreeMapSector} \cup N1) \cup ({DirectorySector} \cup N2)
  PROVE  /\ SoundHeaders(c, M, H)
         /\ \A x \in H, i \in Direct :
              c[x].dataSectors[i] # FreeMapSector /\ c[x].dataSectors[i] # DirectorySector
<1> DEFINE Two == {FreeMapSector, DirectorySector}
           G1  == {FreeMapSector} \cup N1
           G2  == {DirectorySector} \cup N2
<1>1. /\ new1 \cap Two = {} /\ new2 \cap Two = {} /\ new1 \cap new2 = {} /\ Two \subseteq Sector
      /\ new1 \subseteq M \ Two /\ new2 \subseteq M \ Two /\ Two \subseteq M /\ M \subseteq Sector
  BY DEF TwoFiles
<1>2. /\ N1 \subseteq new1 /\ NoneShared(c, G1)
      /\ \A x \in G1 : Sized(c[x], MaxSize) /\ Names(c[x], N1, new1) /\ Shares(c, c[x], N1)
  BY TakenTogether DEF TwoFiles
<1>3. /\ N2 \subseteq new2 /\ NoneShared(c, G2)
      /\ \A x \in G2 : Sized(c[x], MaxSize) /\ Names(c[x], N2, new2) /\ Shares(c, c[x], N2)
  BY TakenTogether DEF TwoFiles
<1>4. FreeMapSector # DirectorySector
  BY TwoSectors
<1>5. H = G1 \cup G2 /\ FreeMapSector \in G1 /\ DirectorySector \in G2
  OBVIOUS
<1>6. ASSUME NEW x \in G1, NEW i \in Direct, c[x].dataSectors[i] \in Sector
      PROVE  /\ c[x].dataSectors[i] \in new1
             /\ c[x].dataSectors[i] \in H <=> c[x].dataSectors[i] \in N1
             /\ c[x].dataSectors[i] \in N1 <=> ~IsLeaf(c[x])
  <2>1. c[x].dataSectors[i] \in new1 /\ (c[x].dataSectors[i] \in N1 <=> ~IsLeaf(c[x]))
    BY <1>2, <1>6 DEF Names
  <2> QED
    BY <1>1, <1>3, <1>5, <2>1
<1>7. ASSUME NEW x \in G2, NEW i \in Direct, c[x].dataSectors[i] \in Sector
      PROVE  /\ c[x].dataSectors[i] \in new2
             /\ c[x].dataSectors[i] \in H <=> c[x].dataSectors[i] \in N2
             /\ c[x].dataSectors[i] \in N2 <=> ~IsLeaf(c[x])
  <2>1. c[x].dataSectors[i] \in new2 /\ (c[x].dataSectors[i] \in N2 <=> ~IsLeaf(c[x]))
    BY <1>3, <1>7 DEF Names
  <2> QED
    BY <1>1, <1>2, <1>5, <2>1
<1>8. H \subseteq M
  BY <1>1, <1>2, <1>3
<1> HIDE DEF G1, G2
<1>9. ASSUME NEW x \in H
      PROVE  Sized(c[x], MaxSize) /\ Shares(c, c[x], H) /\ Names(c[x], H, M \ Two)
  <2>1. CASE x \in G1
    <3>1. \A i \in Direct : c[x].dataSectors[i] \in H => c[x].dataSectors[i] \in N1
      BY <1>1, <1>6, <1>8, <2>1
    <3> QED
      BY <1>1, <1>2, <1>6, <2>1, <3>1 DEF Shares, Names
  <2>2. CASE x \in G2
    <3>1. \A i \in Direct : c[x].dataSectors[i] \in H => c[x].dataSectors[i] \in N2
      BY <1>1, <1>7, <1>8, <2>2
    <3> QED
      BY <1>1, <1>3, <1>7, <2>2, <3>1 DEF Shares, Names
  <2> QED
    BY <1>5, <2>1, <2>2
<1>10. NoneShared(c, H)
  <2> SUFFICES ASSUME NEW x \in H, NEW y \in H, NEW i \in Direct, NEW j \in Direct,
                      c[x].dataSectors[i] \in Sector, c[x].dataSectors[i] = c[y].dataSectors[j]
               PROVE  x = y /\ i = j
    BY DEF NoneShared
  <2>1. CASE x \in G1 /\ y \in G1
    BY <1>2, <2>1 DEF NoneShared
  <2>2. CASE x \in G2 /\ y \in G2
    BY <1>3, <2>2 DEF NoneShared
  <2>3. CASE x \in G1 /\ y \in G2
    BY <1>1, <1>6, <1>7, <2>3
  <2>4. CASE x \in G2 /\ y \in G1
    BY <1>1, <1>6, <1>7, <2>4
  <2> QED
    BY <1>5, <2>1, <2>2, <2>3, <2>4
<1>11. \A x \in H, i \in Direct :
         c[x].dataSectors[i] # FreeMapSector /\ c[x].dataSectors[i] # DirectorySector
  BY <1>1, <1>5, <1>6, <1>7
<1> QED
  BY <1>1, <1>5, <1>8, <1>9, <1>10, <1>11 DEF SoundHeaders

\* A disk that was just formatted is sound (filesys.cc:81).
LEMMA InitIsSound ==
  ASSUME Init
  PROVE  /\ map \subseteq Sector /\ content \in Content /\ cutShort = FALSE
         /\ \E H, D : Sound(content, map, H, D, {})
<1> DEFINE w0 == [map |-> {FreeMapSector, DirectorySector}, onDisk |-> {},
                  aborted |-> FALSE, past |-> <<>>, content |-> [s \in Sector |-> Data]]
           m  == Allocate(w0, FreeMapFileSize)
           d  == Allocate(m.w, DirectoryFileSize)
           t  == d.header.dataSectors[0]
           Two == {FreeMapSector, DirectorySector}
<1>1. /\ map = d.w.map /\ cutShort = FALSE /\ ~d.w.aborted
      /\ content = [d.w.content EXCEPT ![FreeMapSector] = m.header,
                      ![DirectorySector] = d.header, ![t] = Table(EmptyTable)]
  BY DEF Init
<1>2. w0 \in World /\ w0.map = Two
  <2>1. Data \in Stored
    BY DEF Stored
  <2>2. [s \in Sector |-> Data] \in Content
    BY <2>1 DEF Content, Stored
  <2>3. <<>> \in Seq(Image)
    OBVIOUS
  <2> QED
    BY <2>2, <2>3, TwoSectors DEF World, Image
<1>3. FreeMapFileSize \in 1 .. MaxSize /\ DirectoryFileSize \in 1 .. MaxSize /\ DirectoryFileSize <= Limit2
  BY TreeAssumption, Limits DEF MaxSize
<1> HIDE DEF w0
<1>4. Allocated(w0, FreeMapFileSize, m)
  BY <1>2, <1>3, Level4Allocates
<1> HIDE DEF m
<1> DEFINE u == m.w
<1>5. u \in World /\ Allocated(u, DirectoryFileSize, d)
  <2>1. u \in World
    BY <1>4 DEF Allocated, OnlyMarks
  <2>2. d = Allocate(u, DirectoryFileSize)
    OBVIOUS
  <2> HIDE DEF u, d
  <2> QED
    BY <1>3, <2>1, <2>2, Level4Allocates
<1>6. ~u.aborted
  <2>1. Allocate(u, DirectoryFileSize) = AllocateBlocks(u, DirectoryFileSize)
    BY <1>3 DEF Allocate, AllocateOver
  <2> HIDE DEF u
  <2>2. AllocateBlocks(u, DirectoryFileSize).w.aborted = u.aborted
    BY <1>5 DEF AllocateBlocks, NotAllocated, World
  <2> QED
    BY <1>1, <2>1, <2>2 DEF u
<1> HIDE DEF d
<1> DEFINE new1 == u.map \ w0.map
           new2 == d.w.map \ u.map
<1>7. PICK N1 : Takes(u.content, m.header, N1, new1)
  BY <1>4, <1>6 DEF Allocated
<1>8. PICK N2 : Takes(d.w.content, d.header, N2, new2)
  BY <1>1, <1>5 DEF Allocated
<1>9. /\ u \in World /\ d.w \in World /\ Two \subseteq u.map /\ u.map \subseteq d.w.map
      /\ d.w.map \subseteq Sector /\ Two \subseteq Sector
      /\ \A y \in Sector : d.w.content[y] = u.content[y] \/ y \in new2
      /\ Sized(m.header, MaxSize) /\ Sized(d.header, MaxSize) /\ IsLeaf(d.header)
  BY <1>2, <1>3, <1>4, <1>5, TwoSectors DEF Allocated, OnlyMarks, World, IsLeaf
<1>10. t \in Sector => t \in new2 /\ t \notin N2
  BY <1>8, <1>9, Limits DEF Takes, Names, Direct
<1> HIDE DEF t, u
<1>11. new1 = u.map \ Two /\ new2 = map \ u.map
  BY <1>1, <1>2
<1> HIDE DEF new1, new2
<1>12. /\ content \in Content
       /\ content[FreeMapSector] = m.header /\ content[DirectorySector] = d.header
       /\ t \in Sector => content[t] = Table(EmptyTable)
       /\ \A s \in Sector : s \notin Two /\ s # t => content[s] = d.w.content[s]
  <2>1. d.w.content \in [Sector -> Stored] /\ m.header \in Stored /\ d.header \in Stored
    BY <1>9 DEF World, Content, Stored, Sized
  <2>2. Table(EmptyTable) \in Stored
    BY EmptyTableType, TableStored
  <2>3. content \in [Sector -> Stored]
    BY <1>1, <2>1, <2>2
  <2>4. t \in Sector => t \notin Two
    BY <1>9, <1>10, <1>11
  <2>5. /\ content[FreeMapSector] = m.header /\ content[DirectorySector] = d.header
        /\ t \in Sector => content[t] = Table(EmptyTable)
        /\ \A s \in Sector : s \notin Two /\ s # t => content[s] = d.w.content[s]
    BY <1>1, <2>1, <2>2, <2>4, TwoSectors
  <2> QED
    BY <2>3, <2>5 DEF Content, Stored
<1>13. \A y \in N1 : content[y] = u.content[y]
  <2> SUFFICES ASSUME NEW y \in N1 PROVE content[y] = u.content[y]
    OBVIOUS
  <2>1. y \in new1
    BY <1>7 DEF Takes
  <2>2. y \in Sector /\ y \notin new2 /\ y \notin Two
    BY <1>9, <1>11, <2>1
  <2>3. content[y] = d.w.content[y]
    BY <1>10, <1>12, <2>2
  <2> QED
    BY <1>9, <2>2, <2>3
<1>14. \A y \in N2 : content[y] = d.w.content[y]
  <2> SUFFICES ASSUME NEW y \in N2 PROVE content[y] = d.w.content[y]
    OBVIOUS
  <2>1. y \in new2
    BY <1>8 DEF Takes
  <2>2. y \in Sector /\ y \notin Two
    BY <1>1, <1>9, <1>11, <2>1
  <2> QED
    BY <1>10, <1>12, <2>2
<1>15. Takes(content, content[FreeMapSector], N1, new1)
  BY <1>7, <1>12, <1>13, TakesOn
<1>16. Takes(content, content[DirectorySector], N2, new2)
  BY <1>8, <1>12, <1>14, TakesOn
<1> DEFINE H == ({FreeMapSector} \cup N1) \cup ({DirectorySector} \cup N2)
           D == {DirectorySector}
<1>17. new1 \subseteq map /\ new2 \subseteq map /\ new1 \cap Two = {} /\ new2 \cap Two = {} /\ new1 \cap new2 = {}
       /\ Two \subseteq map /\ map \subseteq Sector
  BY <1>1, <1>9, <1>11
<1>18. /\ SoundHeaders(content, map, H)
       /\ \A x \in H, i \in Direct :
            content[x].dataSectors[i] # FreeMapSector /\ content[x].dataSectors[i] # DirectorySector
  <2>1. Sized(content[FreeMapSector], MaxSize) /\ Sized(content[DirectorySector], MaxSize)
    BY <1>9, <1>12
  <2>2. TwoFiles(content, map, N1, new1, N2, new2)
    BY <1>15, <1>16, <1>17, <2>1 DEF TwoFiles
  <2> QED
    BY <2>2, TwoFilesAreSound
<1>19. SoundTables(content, map, H, D, {})
  <2>1. FirstOf(content, DirectorySector) = t
    BY <1>12 DEF FirstOf, t
  <2>2. ASSUME NEW k \in Index PROVE ~Used(content, DirectorySector, k)
    <3>1. ~EmptyTable[k].inUse
      BY DEF EmptyTable, Unused, Index
    <3> QED
      BY <1>12, <2>1, <3>1 DEF Used, TableOf, Table
  <2>3. t \in Sector => content[t] \in TableRecord
    BY <1>12, EmptyTableType, TableStored
  <2>4. IsLeaf(content[DirectorySector])
    BY <1>9, <1>12
  <2>5. D \subseteq H /\ DirectorySector \in D /\ FreeMapSector \notin D
    BY TwoSectors
  <2> HIDE DEF H
  <2> QED
    BY <1>18, <2>1, <2>2, <2>3, <2>4, <2>5 DEF SoundTables
<1>20. Sound(content, map, H, D, {})
  BY <1>18, <1>19 DEF Sound
<1> QED
  BY <1>1, <1>12, <1>17, <1>20

-------------------------------------------------------------------------------
(* RecursiveRemove *)

\* The loop over the entries of a directory, entry by entry.
LEMMA EntriesRemovedIs ==
  ASSUME NEW sub, NEW w, NEW dir, NEW p, NEW n \in Nat, n = NumDirEntries,
         NEW a, a = EntriesRemoved(sub, w, dir, p)
  PROVE  /\ a[0] = [w |-> w, e |-> FetchTable(w, dir)]
         /\ \A i \in 0 .. n - 1 : a[i + 1] = NextEntry(sub, a[i], dir, p, i + 1)
<1> DEFINE start == [w |-> w, e |-> FetchTable(w, dir)]
           Then(k, i) == NextEntry(sub, k, dir, p, i)
           Is(f, m) == f = [i \in 0 .. m |-> IF i = 0 THEN start ELSE Then(f[i - 1], i)]
           A == {m \in Nat : \E f : Is(f, m)}
<1> HIDE DEF Then, start
<1>1. 0 \in A
  <2>1. Is([i \in 0 .. 0 |-> start], 0)
    OBVIOUS
  <2> QED
    BY <2>1
<1>2. ASSUME NEW m \in A PROVE m + 1 \in A
  <2>1. PICK f : Is(f, m)
    OBVIOUS
  <2> DEFINE g == [i \in 0 .. m + 1 |-> IF i <= m THEN f[i] ELSE Then(f[m], m + 1)]
  <2>2. ASSUME NEW i \in 0 .. m + 1
        PROVE  g[i] = IF i = 0 THEN start ELSE Then(g[i - 1], i)
    <3>1. CASE i = 0
      BY <2>1, <3>1
    <3>2. CASE i \in 1 .. m
      <4>1. i \in 0 .. m /\ i # 0
        BY <3>2
      <4>2. f[i] = Then(f[i - 1], i)
        BY <2>1, <4>1
      <4>3. g[i] = f[i] /\ g[i - 1] = f[i - 1] /\ i # 0
        BY <3>2
      <4> QED
        BY <4>2, <4>3
    <3>3. CASE i = m + 1
      BY <2>1, <3>3
    <3> QED
      BY <3>1, <3>2, <3>3
  <2>3. g = [i \in 0 .. m + 1 |-> g[i]]
    OBVIOUS
  <2> HIDE DEF g
  <2>4. Is(g, m + 1)
    BY <2>2, <2>3
  <2> QED
    BY <2>4
<1>3. A = Nat
  <2>1. A \in SUBSET Nat
    OBVIOUS
  <2> HIDE DEF A
  <2> QED
    BY <1>1, <1>2, <2>1, Induction
<1>4. PICK f : Is(f, n)
  BY <1>3
<1>5. a = CHOOSE f1 : Is(f1, n)
  BY DEF EntriesRemoved, Then, start
<1>6. Is(a, n)
  BY <1>4, <1>5
<1>7. a[0] = start
  BY <1>6
<1>8. ASSUME NEW i \in 0 .. n - 1 PROVE a[i + 1] = Then(a[i], i + 1)
  <2>1. i + 1 \in 0 .. n /\ i + 1 # 0 /\ (i + 1) - 1 = i
    OBVIOUS
  <2> QED
    BY <1>6, <2>1
<1> QED
  BY <1>7, <1>8 DEF Then, start

\* A call for a path of one name more goes one level down.
LEMMA RemovalIs ==
  ASSUME NEW w \in World, NEW p \in Seq(Name)
  PROVE  /\ Removal[0][w][p] = Abort(w)
         /\ \A i \in 0 .. PathMax : Removal[i + 1][w][p] = RemoveTree(Removal[i], w, p)
<1> DEFINE n == PathMax + 1
           Turn(k, i) == [u \in World |-> [r \in Seq(Name) |->
                            IF i = 0 THEN Abort(u) ELSE RemoveTree(k, u, r)]]
           Is(f, m) == f = [i \in 0 .. m |-> Turn(f[i - 1], i)]
           A == {m \in Nat : \E f : Is(f, m)}
<1>0. n \in Nat /\ \A k, l : Turn(k, 0) = Turn(l, 0)
  BY TreeAssumption
<1> HIDE DEF Turn
<1>1. 0 \in A
  <2> DEFINE g == [i \in 0 .. 0 |-> Turn(0, 0)]
  <2>1. \A i \in 0 .. 0 : i = 0 /\ Turn(g[i - 1], i) = Turn(0, 0)
    BY <1>0
  <2>2. g = [i \in 0 .. 0 |-> Turn(g[i - 1], i)]
    BY <2>1
  <2>3. Is(g, 0)
    BY <2>2
  <2> QED
    BY <2>3
<1>2. ASSUME NEW m \in A PROVE m + 1 \in A
  <2>1. PICK f : Is(f, m)
    OBVIOUS
  <2> DEFINE g == [i \in 0 .. m + 1 |-> IF i <= m THEN f[i] ELSE Turn(f[m], m + 1)]
  <2>2. ASSUME NEW i \in 0 .. m + 1 PROVE g[i] = Turn(g[i - 1], i)
    <3>1. CASE i = 0
      <4>1. f[0] = Turn(f[0 - 1], 0)
        BY <2>1
      <4>2. g[0] = f[0]
        OBVIOUS
      <4> QED
        BY <1>0, <3>1, <4>1, <4>2
    <3>2. CASE i \in 1 .. m
      <4>1. i \in 0 .. m
        BY <3>2
      <4>2. f[i] = Turn(f[i - 1], i)
        BY <2>1, <4>1
      <4>3. g[i] = f[i] /\ g[i - 1] = f[i - 1]
        BY <3>2
      <4> QED
        BY <4>2, <4>3
    <3>3. CASE i = m + 1
      BY <2>1, <3>3
    <3> QED
      BY <3>1, <3>2, <3>3
  <2>3. g = [i \in 0 .. m + 1 |-> g[i]]
    OBVIOUS
  <2> HIDE DEF g
  <2>4. Is(g, m + 1)
    BY <2>2, <2>3
  <2> QED
    BY <2>4
<1>3. A = Nat
  <2>1. A \in SUBSET Nat
    OBVIOUS
  <2> HIDE DEF A
  <2> QED
    BY <1>1, <1>2, <2>1, Induction
<1>4. PICK f : Is(f, n)
  BY <1>0, <1>3
<1>5. Removal = CHOOSE f1 : Is(f1, n)
  BY DEF Removal, Turn
<1> DEFINE a == Removal
<1>6. Is(a, n)
  BY <1>4, <1>5
<1> HIDE DEF a
<1>7. ASSUME NEW i \in 0 .. n PROVE a[i] = Turn(a[i - 1], i)
  BY <1>6
<1>8. a[0] = Turn(a[0 - 1], 0)
  BY <1>0, <1>7
<1>9. ASSUME NEW i \in 0 .. PathMax
      PROVE  a[i + 1] = Turn(a[i], i + 1) /\ i + 1 # 0
  <2>1. PathMax \in Nat
    BY TreeAssumption
  <2>2. i + 1 \in 0 .. n /\ (i + 1) - 1 = i /\ i + 1 # 0
    BY <2>1
  <2> QED
    BY <1>7, <2>2
<1>10. a[0][w][p] = Abort(w)
  BY <1>8 DEF Turn
<1>11. ASSUME NEW i \in 0 .. PathMax PROVE a[i + 1][w][p] = RemoveTree(a[i], w, p)
  <2> DEFINE k == a[i]
             b == a[i + 1]
  <2>1. b = Turn(k, i + 1) /\ i + 1 # 0
    BY <1>9
  <2> HIDE DEF k, b
  <2>2. b[w][p] = RemoveTree(k, w, p)
    BY <2>1 DEF Turn
  <2> QED
    BY <2>2 DEF k, b
<1> QED
  BY <1>10, <1>11 DEF a

-------------------------------------------------------------------------------
(* What the removal of a file leaves of the other directories *)

\* The entry l of d is as it was, or as unused as it was.
SameEntry(c, b, d, l) ==
  /\ Used(b, d, l) <=> Used(c, d, l)
  /\ Used(c, d, l) => TableOf(b, d)[l] = TableOf(c, d)[l]

\* A path leads where it did if its entries and directories stay.
LEMMA ChainKept ==
  ASSUME NEW c, NEW b, NEW D, NEW E, NEW q, NEW p, NEW n \in Nat, Chain(c, D, q, p, n),
         \A j \in 0 .. n : q[j] \in E,
         \A j \in 0 .. n - 1, l \in Index :
           Used(c, q[j], l) /\ Target(c, q[j], l) = q[j + 1] => SameEntry(c, b, q[j], l)
  PROVE  Chain(b, E, q, p, n)
<1>1. ASSUME NEW i \in 1 .. n PROVE Link(b, q[i - 1], p[i], q[i])
  <2>1. PICK k \in Index : /\ Used(c, q[i - 1], k) /\ TableOf(c, q[i - 1])[k].name = p[i]
                           /\ TableOf(c, q[i - 1])[k].isDirectory /\ Target(c, q[i - 1], k) = q[i]
    BY DEF Chain, Link
  <2>2. i - 1 \in 0 .. n - 1 /\ (i - 1) + 1 = i
    OBVIOUS
  <2>3. SameEntry(c, b, q[i - 1], k)
    BY <2>1, <2>2
  <2> QED
    BY <2>1, <2>3 DEF Link, SameEntry, Target
<1> QED
  BY <1>1 DEF Chain

\* So does a part of it.
LEMMA ShorterChain ==
  ASSUME NEW c, NEW D, NEW q, NEW p, NEW n \in Nat, NEW m \in 0 .. n, Chain(c, D, q, p, n)
  PROVE  Chain(c, D, q, p, m)
BY DEF Chain

\* Two directories do not share the sector of their tables.
LEMMA TablesApart ==
  ASSUME NEW c, NEW M, NEW H, NEW D, NEW Z, Sound(c, M, H, D, Z), NEW d \in D, NEW g \in D,
         FirstOf(c, d) \in Sector, FirstOf(c, d) = FirstOf(c, g)
  PROVE  d = g
<1>1. d \in H /\ g \in H /\ 0 \in Direct
  BY Limits DEF Sound, SoundTables, Direct
<1> QED
  BY <1>1 DEF Sound, SoundHeaders, NoneShared, FirstOf

\* The removal of one file leaves all other entries, in its directory and in others,
\* and what they lead to.
LEMMA OthersKept ==
  ASSUME NEW w, NEW H, NEW D, NEW Z, NEW dir, NEW e, NEW k, Removable(w, H, D, Z, dir, e, k),
         NEW v, NEW H2, NEW D2, FileGone(w, v, H, D, Z, dir, e, k, H2, D2)
  PROVE  /\ \A d \in D : FirstOf(v.content, d) = FirstOf(w.content, d)
         /\ TableOf(v.content, dir) = Less(e, k)
         /\ \A d \in D, l \in Index : d # dir => SameEntry(w.content, v.content, d, l)
         /\ \A d \in D, l \in Index :
              /\ Used(w.content, d, l) /\ Target(w.content, d, l) \in w.onDisk
              /\ d # dir \/ l # k
              => /\ Target(w.content, d, l) \in v.onDisk
                 /\ Target(w.content, d, l) \in D => Target(w.content, d, l) \in D2
<1> DEFINE c == w.content
           b == v.content
           M == w.onDisk
           N == v.onDisk
           r == Less(e, k)
           t == FirstOf(c, dir)
<1>1. /\ c \in Content /\ Sound(c, M, H, D, Z) /\ dir \in D /\ t \in Sector
      /\ k \in Index /\ e \in EntryTable /\ Used(c, dir, k) /\ Live(c, H, D, dir, k)
  BY DEF Removable, World
<1>2. /\ b = Put(c, t, Table(r)) /\ \A x \in H : b[x] = c[x]
      /\ \A y : Top(c, H, y) /\ y # Target(c, dir, k) => y \in N /\ (y \in D => y \in D2)
  BY DEF FileGone
<1>3. r \in EntryTable
  BY <1>1, LessIs
<1> HIDE DEF c, b, M, N, r
<1>4. Table(r) \in Stored /\ Table(r).entry = r
  BY <1>3, TableStored
<1>5. b[t] = Table(r) /\ \A y \in Sector : y # t => b[y] = c[y]
  BY <1>1, <1>2, <1>4, PutIs
<1>6. \A d \in D : d \in H
  BY <1>1 DEF Sound, SoundTables
<1>7. \A d \in D : FirstOf(b, d) = FirstOf(c, d)
  BY <1>2, <1>6 DEF FirstOf
<1>8. TableOf(b, dir) = r
  BY <1>1, <1>4, <1>5, <1>7 DEF TableOf
<1>9. ASSUME NEW d \in D, NEW l \in Index, d # dir PROVE SameEntry(c, b, d, l)
  <2>1. CASE FirstOf(c, d) \in Sector
    <3>1. FirstOf(c, d) # t
      BY <1>1, <1>9, <2>1, TablesApart
    <3>2. TableOf(b, d) = TableOf(c, d)
      BY <1>5, <1>7, <2>1, <3>1 DEF TableOf
    <3> QED
      BY <1>7, <3>2 DEF SameEntry, Used
  <2>2. CASE FirstOf(c, d) \notin Sector
    BY <1>7, <2>2 DEF SameEntry, Used
  <2> QED
    BY <2>1, <2>2
<1>10. ASSUME NEW d \in D, NEW l \in Index, Used(c, d, l), Target(c, d, l) \in M, d # dir \/ l # k
       PROVE  /\ Target(c, d, l) \in N
              /\ Target(c, d, l) \in D => Target(c, d, l) \in D2
  <2>1. Live(c, H, D, d, l)
    BY <1>1, <1>10 DEF Sound, SoundTables, Dangling
  <2>2. Top(c, H, Target(c, d, l)) /\ Target(c, d, l) \in H
    BY <2>1 DEF Live, Top
  <2>3. Target(c, d, l) # Target(c, dir, k)
    BY <1>1, <1>10, <2>2 DEF Sound, SoundTables
  <2> QED
    BY <1>2, <2>2, <2>3
<1> QED
  BY <1>7, <1>8, <1>9, <1>10 DEF c, b, M, N, r

\* The directory of the file and the way to it stay.
LEMMA FileChain ==
  ASSUME NEW w, NEW H, NEW D, NEW Z, NEW dir, NEW e, NEW k, Removable(w, H, D, Z, dir, e, k),
         NEW v, NEW H2, NEW D2, FileGone(w, v, H, D, Z, dir, e, k, H2, D2),
         NEW q, NEW p, NEW n \in Nat, Chain(w.content, D, q, p, n), q[n] = dir
  PROVE  Chain(v.content, D2, q, p, n)
<1> DEFINE c == w.content
<1>1. /\ \A j \in 0 .. n : q[j] \in D
      /\ \A j \in 0 .. n - 1 : q[j] # dir
      /\ q[0] = DirectorySector
  BY DEF Chain
<1>2. Sound(c, w.onDisk, H, D, Z) /\ Sound(v.content, v.onDisk, H2, D2, Z)
  BY DEF Removable, FileGone
<1>3. ASSUME NEW j \in 1 .. n PROVE q[j] \in D2
  <2>1. Link(c, q[j - 1], p[j], q[j])
    BY DEF Chain
  <2>2. PICK l \in Index : Used(c, q[j - 1], l) /\ Target(c, q[j - 1], l) = q[j]
    BY <2>1 DEF Link
  <2>3. j - 1 \in 0 .. n - 1 /\ j - 1 \in 0 .. n
    OBVIOUS
  <2>4. q[j - 1] \in D /\ q[j - 1] # dir /\ q[j] \in D
    BY <1>1, <2>3
  <2>5. q[j] \in w.onDisk
    BY <1>2, <2>4 DEF Sound, SoundHeaders, SoundTables
  <2> QED
    BY <2>2, <2>4, <2>5, OthersKept
<1>4. q[0] \in D2
  BY <1>1, <1>2 DEF Sound, SoundTables
<1>5. \A j \in 0 .. n : q[j] \in D2
  BY <1>3, <1>4
<1>6. \A j \in 0 .. n - 1, l \in Index : SameEntry(c, v.content, q[j], l)
  <2>1. \A j \in 0 .. n - 1 : q[j] \in D /\ q[j] # dir
    BY <1>1
  <2> QED
    BY <2>1, OthersKept
<1> DEFINE b == v.content
<1> HIDE DEF c, b
<1>7. Chain(b, D2, q, p, n)
  <2>1. Chain(c, D, q, p, n)
    BY DEF c
  <2>2. \A j \in 0 .. n - 1, l \in Index : SameEntry(c, b, q[j], l)
    BY <1>6 DEF b
  <2> QED
    BY <1>5, <2>1, <2>2, ChainKept
<1> QED
  BY <1>7 DEF b

-------------------------------------------------------------------------------
(* A directory that is being emptied *)

\* A call for the directory q[n] at the path p; those of Z are above it.
Calling(w, H, D, Z, q, p, n) ==
  /\ w \in World /\ ~w.aborted /\ Sound(w.content, w.onDisk, H, D, Z)
  /\ p \in Seq(Name) /\ n = Len(p) /\ n \in Nat \ {0} /\ Chain(w.content, D, q, p, n)
  /\ \A z \in Z : \E j \in 0 .. n - 1 : z = q[j]

\* What it leaves, when it is not aborted: the directories above are as they were,
\* but the entry of this one may be gone; their other files are still there.
Done(w, v, H, D, Z, q, n) ==
  /\ Sound(v.content, v.onDisk, H, D, Z)
  /\ \A j \in 0 .. n - 1 :
       /\ q[j] \in D /\ FirstOf(v.content, q[j]) = FirstOf(w.content, q[j])
       /\ \A l \in Index :
            /\ \/ SameEntry(w.content, v.content, q[j], l)
               \/ /\ Used(w.content, q[j], l) /\ Target(w.content, q[j], l) = q[n]
                  /\ ~Used(v.content, q[j], l) /\ q[n] \notin v.onDisk
            /\ Used(w.content, q[j], l) /\ Target(w.content, q[j], l) \in w.onDisk
               /\ Target(w.content, q[j], l) # q[n]
               => Target(w.content, q[j], l) \in v.onDisk

Returned(w, v, Z, q, n) ==
  Shrinks(w, v) /\ (~v.aborted => \E H, D : Done(w, v, H, D, Z, q, n))

\* What the call leaves alone as long as it is in q[n].
Outer(w0, w, q, n) ==
  \A j \in 0 .. n - 1 :
    /\ FirstOf(w.content, q[j]) = FirstOf(w0.content, q[j])
    /\ \A l \in Index :
         /\ SameEntry(w0.content, w.content, q[j], l)
         /\ Used(w0.content, q[j], l) /\ Target(w0.content, q[j], l) \in w0.onDisk
            => Target(w0.content, q[j], l) \in w.onDisk

\* After i turns of its loop: the table e in memory has all entries of that on the
\* disk; those from number i + 1 on are as they were, of the others those of
\* directories are left, which are gone or could not be removed.
Emptied(w, d, e, i) ==
  /\ FirstOf(w.content, d) \in Sector /\ e \in EntryTable
  /\ \A l \in Index : e[l].inUse => e[l].name \in Name
  /\ \A l, m \in Index : e[l].inUse /\ e[m].inUse /\ e[l].name = e[m].name => l = m
  /\ \A l \in Index : Used(w.content, d, l) => TableOf(w.content, d)[l] = e[l]
  /\ \A l \in Index : l > i /\ e[l].inUse => Used(w.content, d, l) /\ e[l].sector \in w.onDisk
  /\ \A l \in Index : l <= i /\ e[l].inUse =>
       e[l].isDirectory /\ (e[l].sector \notin w.onDisk \/ Used(w.content, d, l))

Going(w0, w, e, H, D, Z, q, p, n, i) ==
  /\ w \in World /\ ~w.aborted /\ Sound(w.content, w.onDisk, H, D, Z) /\ q[n] \in Z
  /\ n = Len(p) /\ n \in Nat \ {0} /\ p \in Seq(Name) /\ Chain(w.content, D, q, p, n)
  /\ \A z \in Z : \E j \in 0 .. n : z = q[j]
  /\ i \in 0 .. NumDirEntries
  /\ Outer(w0, w, q, n) /\ Emptied(w, q[n], e, i)

\* More directories may be about to be emptied; those that are no longer need not be.
LEMMA SoundWith ==
  ASSUME NEW c, NEW M, NEW H, NEW D, NEW Z, Sound(c, M, H, D, Z),
         NEW Y, \A z \in Z : z \in D => z \in Y
  PROVE  Sound(c, M, H, D, Y)
BY DEF Sound, SoundTables

\* An entry leads to a header that no other entry leads to, unless it may be that of
\* a directory that is gone.
LEMMA LiveTarget ==
  ASSUME NEW c, NEW M, NEW H, NEW D, NEW Z, Sound(c, M, H, D, Z), NEW d \in D, NEW k \in Index,
         Used(c, d, k), d \notin Z \/ Target(c, d, k) \in M
  PROVE  /\ Live(c, H, D, d, k) /\ Target(c, d, k) \in H /\ Target(c, d, k) \in M
         /\ TableOf(c, d)[k].name \in Name
         /\ \A g \in D, l \in Index :
              Used(c, g, l) /\ Target(c, g, l) = Target(c, d, k) => g = d /\ l = k
<1>1. Live(c, H, D, d, k) /\ TableOf(c, d)[k].name \in Name
  BY DEF Sound, SoundTables, Dangling
<1>2. Target(c, d, k) \in H
  BY <1>1 DEF Live, Top
<1> QED
  BY <1>1, <1>2 DEF Sound, SoundHeaders, SoundTables

\* When the loop of a call starts, its table in memory is that on the disk.
LEMMA LoopStarts ==
  ASSUME NEW w, NEW H, NEW D, NEW Z, NEW q, NEW p, NEW n, Calling(w, H, D, Z, q, p, n),
         NEW d, d = q[n], ~Unreadable(w, d), NEW e, e = FetchTable(w, d)
  PROVE  Going(w, w, e, H, D, Z \cup {d}, q, p, n, 0)
<1> DEFINE c == w.content
           Y == Z \cup {d}
<1>1. /\ w \in World /\ ~w.aborted /\ Sound(c, w.onDisk, H, D, Z)
      /\ p \in Seq(Name) /\ n = Len(p) /\ n \in Nat \ {0} /\ Chain(c, D, q, p, n)
      /\ \A z \in Z : \E j \in 0 .. n - 1 : z = q[j]
  BY DEF Calling
<1>2. d \in D /\ d \notin Z
  BY <1>1 DEF Chain
<1>3. Sound(c, w.onDisk, H, D, Y)
  <2>1. \A z \in Z : z \in Y
    OBVIOUS
  <2> HIDE DEF Y, c
  <2> QED
    BY <1>1, <2>1, SoundWith
<1>4. Outer(w, w, q, n)
  BY DEF Outer, SameEntry
<1>5. /\ e \in EntryTable /\ e = TableOf(c, d) /\ FirstOf(c, d) \in Sector
      /\ \A l \in Index : Used(c, d, l) <=> e[l].inUse
  BY <1>1, <1>2, TableRead
<1>6. ASSUME NEW l \in Index, e[l].inUse
      PROVE  e[l].name \in Name /\ Used(c, d, l) /\ e[l].sector \in w.onDisk
  <2>1. Used(c, d, l)
    BY <1>5, <1>6
  <2>2. TableOf(c, d)[l].name \in Name /\ Target(c, d, l) \in w.onDisk
    BY <1>1, <1>2, <2>1, LiveTarget
  <2> QED
    BY <1>5, <2>1, <2>2 DEF Target
<1>7. \A l, m \in Index : e[l].inUse /\ e[m].inUse /\ e[l].name = e[m].name => l = m
  BY <1>1, <1>2, <1>5 DEF Sound, SoundTables
<1>8. \A l \in Index : ~(l <= 0)
  BY TreeAssumption DEF Index
<1>9. Emptied(w, d, e, 0)
  BY <1>5, <1>6, <1>7, <1>8 DEF Emptied
<1>10. 0 \in 0 .. NumDirEntries
  BY TreeAssumption
<1>11. \A z \in Y : \E j \in 0 .. n : z = q[j]
  <2>1. n \in 0 .. n /\ \A j \in 0 .. n - 1 : j \in 0 .. n
    BY <1>1
  <2> QED
    BY <1>1, <2>1
<1> HIDE DEF Y
<1>12. d \in Y
  BY DEF Y
<1>13. Going(w, w, e, H, D, Y, q, p, n, 0)
  BY <1>1, <1>3, <1>4, <1>9, <1>10, <1>11, <1>12 DEF Going
<1> QED
  BY <1>13 DEF Y

\* An entry that is not in use is passed over.
LEMMA EntryPassed ==
  ASSUME NEW w0, NEW w, NEW e, NEW H, NEW D, NEW Z, NEW q, NEW p, NEW n,
         NEW i \in 0 .. NumDirEntries - 1, Going(w0, w, e, H, D, Z, q, p, n, i), ~e[i + 1].inUse
  PROVE  Going(w0, w, e, H, D, Z, q, p, n, i + 1)
<1>1. /\ i + 1 \in Index /\ i + 1 \in 0 .. NumDirEntries
      /\ \A l \in Index : l > i + 1 => l > i
      /\ \A l \in Index : l <= i + 1 => l <= i \/ l = i + 1
  BY TreeAssumption DEF Index
<1>2. Emptied(w, q[n], e, i + 1)
  BY <1>1 DEF Going, Emptied
<1> QED
  BY <1>1, <1>2 DEF Going

\* The entry of a file.
LEMMA EntryRemovable ==
  ASSUME NEW w0, NEW w, NEW e, NEW H, NEW D, NEW Z, NEW q, NEW p, NEW n,
         NEW i \in 0 .. NumDirEntries - 1, Going(w0, w, e, H, D, Z, q, p, n, i),
         NEW k, k = i + 1, e[k].inUse, ~e[k].isDirectory, NEW d, d = q[n]
  PROVE  Removable(w, H, D, Z, d, e, k)
<1> DEFINE c == w.content
<1>1. /\ w \in World /\ ~w.aborted /\ Sound(c, w.onDisk, H, D, Z) /\ d \in Z /\ d \in D
  BY DEF Going, Chain
<1>2. Emptied(w, d, e, i)
  BY DEF Going
<1>3. k \in Index /\ k > i
  BY TreeAssumption DEF Index
<1>4. /\ e \in EntryTable /\ FirstOf(c, d) \in Sector
      /\ Used(c, d, k) /\ TableOf(c, d)[k] = e[k] /\ e[k].sector \in w.onDisk
  BY <1>2, <1>3 DEF Emptied
<1>5. Live(c, H, D, d, k)
  <2>1. Target(c, d, k) \in w.onDisk
    BY <1>4 DEF Target
  <2> QED
    BY <1>1, <1>3, <1>4, <2>1, LiveTarget
<1>6. FindIndex(e, e[k].name) = k
  <2>1. \A l, m \in Index : e[l].inUse /\ e[m].inUse /\ e[l].name = e[m].name => l = m
    BY <1>2 DEF Emptied
  <2> QED
    BY <1>3, <1>4, <2>1, FoundByName
<1> DEFINE r == Less(e, k)
<1>7. r \in EntryTable /\ ~r[k].inUse /\ \A l \in Index : l # k => r[l] = e[l]
  BY <1>3, <1>4, LessIs
<1> HIDE DEF r
<1>8. ASSUME NEW l \in Index, r[l].inUse
      PROVE  /\ l # k /\ r[l].name \in Name
             /\ \/ r[l] = TableOf(c, d)[l]
                \/ d \in Z /\ r[l].isDirectory /\ r[l].sector \notin w.onDisk
  <2>1. l # k /\ r[l] = e[l] /\ e[l].inUse
    BY <1>7, <1>8
  <2>2. Used(c, d, l) => TableOf(c, d)[l] = e[l]
    BY <1>2 DEF Emptied
  <2>3. l > i \/ l <= i
    BY DEF Index
  <2>4. Used(c, d, l) \/ (e[l].isDirectory /\ e[l].sector \notin w.onDisk)
    BY <1>2, <2>1, <2>3 DEF Emptied
  <2>5. e[l].name \in Name
    BY <1>2, <2>1 DEF Emptied
  <2> QED
    BY <1>1, <2>1, <2>2, <2>4, <2>5
<1>9. \A l, m \in Index : r[l].inUse /\ r[m].inUse /\ r[l].name = r[m].name => l = m
  <2>1. \A l \in Index : r[l].inUse => e[l].inUse /\ r[l] = e[l]
    BY <1>7
  <2> QED
    BY <1>2, <2>1 DEF Emptied
<1>10. Without(c, w.onDisk, Z, d, k, r)
  BY <1>7, <1>8, <1>9 DEF Without, EntryTable
<1> QED
  BY <1>1, <1>3, <1>4, <1>5, <1>6, <1>10 DEF Removable, r

\* One turn after another.
LEMMA OuterOn ==
  ASSUME NEW w0, NEW w, NEW v, NEW q, NEW n \in Nat, Outer(w0, w, q, n), Outer(w, v, q, n)
  PROVE  Outer(w0, v, q, n)
<1> SUFFICES ASSUME NEW j \in 0 .. n - 1
             PROVE  /\ FirstOf(v.content, q[j]) = FirstOf(w0.content, q[j])
                    /\ \A l \in Index :
                         /\ SameEntry(w0.content, v.content, q[j], l)
                         /\ Used(w0.content, q[j], l) /\ Target(w0.content, q[j], l) \in w0.onDisk
                            => Target(w0.content, q[j], l) \in v.onDisk
  BY DEF Outer
<1>1. FirstOf(v.content, q[j]) = FirstOf(w0.content, q[j])
  BY DEF Outer
<1>2. ASSUME NEW l \in Index
      PROVE  SameEntry(w0.content, w.content, q[j], l) /\ SameEntry(w.content, v.content, q[j], l)
  BY DEF Outer
<1>3. ASSUME NEW l \in Index PROVE SameEntry(w0.content, v.content, q[j], l)
  BY <1>2 DEF SameEntry
<1>4. ASSUME NEW l \in Index, Used(w0.content, q[j], l), Target(w0.content, q[j], l) \in w0.onDisk
      PROVE  Target(w0.content, q[j], l) \in v.onDisk
  <2>1. Used(w.content, q[j], l) /\ Target(w.content, q[j], l) = Target(w0.content, q[j], l)
    BY <1>2, <1>4 DEF SameEntry, Target
  <2>2. Target(w0.content, q[j], l) \in w.onDisk
    BY <1>4 DEF Outer
  <2>3. \A m \in Index : Used(w.content, q[j], m) /\ Target(w.content, q[j], m) \in w.onDisk
          => Target(w.content, q[j], m) \in v.onDisk
    BY DEF Outer
  <2> QED
    BY <2>1, <2>2, <2>3
<1> QED
  BY <1>1, <1>3, <1>4

\* The turn for the entry of a file.
LEMMA FileTurn ==
  ASSUME NEW w0, NEW w, NEW e, NEW H, NEW D, NEW Z, NEW q, NEW p, NEW n,
         NEW i \in 0 .. NumDirEntries - 1, Going(w0, w, e, H, D, Z, q, p, n, i),
         NEW k, k = i + 1, e[k].inUse, ~e[k].isDirectory, NEW d, d = q[n],
         NEW v \in World, ~v.aborted, NEW H2, NEW D2, FileGone(w, v, H, D, Z, d, e, k, H2, D2)
  PROVE  Going(w0, v, Less(e, k), H2, D2, Z, q, p, n, k)
<1> DEFINE c == w.content
           b == v.content
           r == Less(e, k)
<1>1. Removable(w, H, D, Z, d, e, k)
  BY EntryRemovable
<1>2. /\ \A g \in D : FirstOf(b, g) = FirstOf(c, g)
      /\ TableOf(b, d) = r
      /\ \A g \in D, l \in Index : g # d => SameEntry(c, b, g, l)
      /\ \A g \in D, l \in Index :
           /\ Used(c, g, l) /\ Target(c, g, l) \in w.onDisk
           /\ g # d \/ l # k
           => Target(c, g, l) \in v.onDisk
  BY <1>1, OthersKept
<1>3. /\ n \in Nat \ {0} /\ Chain(c, D, q, p, n) /\ d \in D /\ Emptied(w, d, e, i)
      /\ \A j \in 0 .. n - 1 : q[j] \in D /\ q[j] # d
  <2>1. n \in Nat \ {0} /\ Chain(c, D, q, p, n) /\ Emptied(w, d, e, i)
    BY DEF Going
  <2>2. n \in 0 .. n /\ \A j \in 0 .. n - 1 : j \in 0 .. n /\ j # n
    BY <2>1
  <2> QED
    BY <2>1, <2>2 DEF Chain
<1>4. Chain(b, D2, q, p, n)
  BY <1>1, <1>3, FileChain
<1>5. Outer(w, v, q, n)
  BY <1>2, <1>3 DEF Outer
<1>6. Outer(w0, v, q, n)
  BY <1>3, <1>5, OuterOn DEF Going
<1>7. k \in Index /\ k > i /\ k \in 0 .. NumDirEntries
  BY TreeAssumption DEF Index
<1>8. r \in EntryTable /\ ~r[k].inUse /\ \A l \in Index : l # k => r[l] = e[l]
  BY <1>3, <1>7, LessIs DEF Emptied
<1> HIDE DEF r
<1>9. FirstOf(b, d) \in Sector
  BY <1>2, <1>3 DEF Emptied
<1>10. \A l \in Index : r[l].inUse => Used(b, d, l) /\ l # k /\ r[l] = e[l]
  BY <1>2, <1>8, <1>9 DEF Used
<1>11. ASSUME NEW l \in Index, l > k, r[l].inUse PROVE r[l].sector \in v.onDisk
  <2>1. l > i /\ l # k /\ r[l] = e[l] /\ e[l].inUse
    BY <1>7, <1>8, <1>11 DEF Index
  <2>2. Used(c, d, l) /\ e[l].sector \in w.onDisk /\ TableOf(c, d)[l] = e[l]
    BY <1>3, <2>1 DEF Emptied
  <2> QED
    BY <1>2, <1>3, <2>1, <2>2 DEF Target
<1>12. ASSUME NEW l \in Index, l <= k, r[l].inUse PROVE r[l].isDirectory
  <2>1. l <= i /\ r[l] = e[l] /\ e[l].inUse
    BY <1>10, <1>12 DEF Index
  <2> QED
    BY <1>3, <2>1 DEF Emptied
<1>13. /\ \A l \in Index : r[l].inUse => r[l].name \in Name
       /\ \A l, m \in Index : r[l].inUse /\ r[m].inUse /\ r[l].name = r[m].name => l = m
  BY <1>3, <1>10 DEF Emptied
<1>14. Emptied(v, d, r, k)
  BY <1>2, <1>8, <1>9, <1>10, <1>11, <1>12, <1>13 DEF Emptied
<1> QED
  BY <1>4, <1>6, <1>7, <1>14 DEF Going, FileGone, r

\* The entry of a directory: the call for it can be made.
LEMMA CallsBelow ==
  ASSUME NEW w0, NEW w, NEW e, NEW H, NEW D, NEW Z, NEW q, NEW p, NEW n,
         NEW i \in 0 .. NumDirEntries - 1, Going(w0, w, e, H, D, Z, q, p, n, i),
         NEW k, k = i + 1, e[k].inUse, e[k].isDirectory,
         NEW r, e[k].name \in Name => r \in Seq(Name), Len(r) = n + 1, r[n + 1] = e[k].name,
         \A j \in 1 .. n : r[j] = p[j]
  PROVE  \E u : /\ Calling(w, H, D, Z, u, r, n + 1)
                /\ u[n + 1] = e[k].sector /\ \A j \in 0 .. n : u[j] = q[j]
<1> DEFINE c == w.content
           d == q[n]
           g == e[k].sector
           x == e[k].name
<1>1. /\ w \in World /\ ~w.aborted /\ Sound(c, w.onDisk, H, D, Z)
      /\ n = Len(p) /\ n \in Nat \ {0} /\ p \in Seq(Name) /\ Chain(c, D, q, p, n)
      /\ \A z \in Z : \E j \in 0 .. n : z = q[j]
  BY DEF Going
<1>2. Emptied(w, d, e, i)
  BY DEF Going
<1>3. k \in Index /\ k > i
  BY TreeAssumption DEF Index
<1>4. /\ Used(c, d, k) /\ TableOf(c, d)[k] = e[k] /\ g \in w.onDisk /\ x \in Name
  BY <1>2, <1>3 DEF Emptied
<1>5. d \in D
  BY <1>1 DEF Chain
<1>6. Target(c, d, k) = g
  BY <1>4 DEF Target
<1>7. Live(c, H, D, d, k)
  BY <1>1, <1>3, <1>4, <1>5, <1>6, LiveTarget
<1>8. g \in D
  BY <1>4, <1>6, <1>7 DEF Live
<1>9. Link(c, d, x, g)
  BY <1>3, <1>4, <1>6 DEF Link
<1>10. r \in Seq(Name)
  BY <1>1, <1>4
<1> HIDE DEF c, d, g, x
<1>11. PICK u : Chain(c, D, u, r, n + 1) /\ u[n + 1] = g /\ \A j \in 0 .. n : u[j] = q[j]
  <2>1. Link(c, q[n], r[n + 1], g)
    BY <1>9 DEF d, x
  <2> DEFINE M == w.onDisk
  <2>2. Sound(c, M, H, D, Z) /\ n \in Nat /\ Chain(c, D, q, p, n) /\ g \in D
    BY <1>1, <1>8
  <2> HIDE DEF M
  <2>3. \E u : Chain(c, D, u, r, n + 1) /\ u[n + 1] = g /\ \A j \in 0 .. n : u[j] = q[j]
    BY <2>1, <2>2, ChainGrows
  <2> QED
    BY <2>3
<1>12. \A z \in Z : \E j \in 0 .. (n + 1) - 1 : z = u[j]
  <2>1. (n + 1) - 1 = n
    BY <1>1
  <2> QED
    BY <1>1, <1>11, <2>1
<1>13. n + 1 \in Nat \ {0} /\ n + 1 = Len(r)
  BY <1>1, <1>10
<1>14. Calling(w, H, D, Z, u, r, n + 1)
  BY <1>1, <1>10, <1>11, <1>12, <1>13 DEF Calling, c
<1> QED
  BY <1>11, <1>14 DEF g

\* The turn for the entry of a directory, whose call did what it should: the table
\* in memory still has its entry, that on the disk does not.
LEMMA DirectoryTurn ==
  ASSUME NEW w0, NEW w, NEW e, NEW H, NEW D, NEW Z, NEW q, NEW p, NEW n,
         NEW i \in 0 .. NumDirEntries - 1, Going(w0, w, e, H, D, Z, q, p, n, i),
         NEW k, k = i + 1, e[k].inUse, e[k].isDirectory,
         NEW u, u[n + 1] = e[k].sector, \A j \in 0 .. n : u[j] = q[j],
         NEW v \in World, ~v.aborted, v.onDisk \subseteq w.onDisk,
         NEW H2, NEW D2, Done(w, v, H2, D2, Z, u, n + 1)
  PROVE  Going(w0, v, e, H2, D2, Z, q, p, n, k)
<1> DEFINE c == w.content
           b == v.content
           d == q[n]
           g == e[k].sector
<1>1. /\ Sound(c, w.onDisk, H, D, Z) /\ n \in Nat \ {0} /\ Chain(c, D, q, p, n)
      /\ Outer(w0, w, q, n) /\ Emptied(w, d, e, i)
  BY DEF Going
<1>2. /\ k \in Index /\ k > i /\ k \in 0 .. NumDirEntries
      /\ \A l \in Index : l > k => l > i
      /\ \A l \in Index : l <= k => l <= i \/ l = k
  BY TreeAssumption DEF Index
<1>3. \A j \in 0 .. n - 1 : q[j] \in D /\ q[j] # d
  <2>1. n \in 0 .. n /\ \A j \in 0 .. n - 1 : j \in 0 .. n /\ j # n
    BY <1>1
  <2> QED
    BY <1>1, <2>1 DEF Chain
<1>4. Used(c, d, k) /\ TableOf(c, d)[k] = e[k] /\ g \in w.onDisk /\ Target(c, d, k) = g
  BY <1>1, <1>2 DEF Emptied, Target
<1>5. d \in D /\ \A f \in D, l \in Index : Used(c, f, l) /\ Target(c, f, l) = g => f = d /\ l = k
  <2>1. d \in D
    BY <1>1 DEF Chain
  <2> QED
    BY <1>1, <1>2, <1>4, <2>1, LiveTarget
<1>6. Sound(b, v.onDisk, H2, D2, Z)
  BY DEF Done
<1> HIDE DEF g
\* As it is after the call.
<1>7. ASSUME NEW j \in 0 .. n
      PROVE  /\ q[j] \in D2 /\ FirstOf(b, q[j]) = FirstOf(c, q[j])
             /\ \A l \in Index :
                  /\ SameEntry(c, b, q[j], l)
                     \/ (/\ Used(c, q[j], l) /\ Target(c, q[j], l) = g
                         /\ ~Used(b, q[j], l) /\ g \notin v.onDisk)
                  /\ Used(c, q[j], l) /\ Target(c, q[j], l) \in w.onDisk /\ Target(c, q[j], l) # g
                     => Target(c, q[j], l) \in v.onDisk
  <2>1. j \in 0 .. (n + 1) - 1 /\ u[j] = q[j] /\ u[n + 1] = g
    BY <1>1 DEF g
  <2> QED
    BY <2>1 DEF Done
<1>8. ASSUME NEW j \in 0 .. n - 1, NEW l \in Index
      PROVE  /\ SameEntry(c, b, q[j], l)
             /\ Used(c, q[j], l) /\ Target(c, q[j], l) \in w.onDisk => Target(c, q[j], l) \in v.onDisk
  <2>1. j \in 0 .. n /\ q[j] \in D /\ q[j] # d
    BY <1>1, <1>3
  <2>2. ~(Used(c, q[j], l) /\ Target(c, q[j], l) = g)
    BY <1>5, <2>1
  <2> QED
    BY <1>7, <2>1, <2>2
<1>9. Chain(b, D2, q, p, n)
  <2>1. \A j \in 0 .. n : q[j] \in D2
    BY <1>7
  <2>2. \A j \in 0 .. n - 1, l \in Index : SameEntry(c, b, q[j], l)
    BY <1>8
  <2>3. n \in Nat
    BY <1>1
  <2> HIDE DEF c, b
  <2> QED
    BY <1>1, <2>1, <2>2, <2>3, ChainKept
<1>10. Outer(w, v, q, n)
  <2>1. \A j \in 0 .. n - 1 : FirstOf(b, q[j]) = FirstOf(c, q[j])
    <3>1. \A j \in 0 .. n - 1 : j \in 0 .. n
      BY <1>1
    <3> QED
      BY <1>7, <3>1
  <2> QED
    BY <1>8, <2>1 DEF Outer
<1>11. Outer(w0, v, q, n)
  BY <1>1, <1>10, OuterOn
<1>12. /\ FirstOf(b, d) = FirstOf(c, d)
       /\ \A l \in Index :
            /\ SameEntry(c, b, d, l)
               \/ (Used(c, d, l) /\ Target(c, d, l) = g /\ ~Used(b, d, l) /\ g \notin v.onDisk)
            /\ Used(c, d, l) /\ Target(c, d, l) \in w.onDisk /\ Target(c, d, l) # g
               => Target(c, d, l) \in v.onDisk
  <2>1. n \in 0 .. n
    BY <1>1
  <2> QED
    BY <1>7, <2>1
<1>13. ASSUME NEW l \in Index, Used(b, d, l) PROVE TableOf(b, d)[l] = e[l]
  <2>1. SameEntry(c, b, d, l)
    BY <1>12, <1>13
  <2>2. Used(c, d, l) /\ TableOf(b, d)[l] = TableOf(c, d)[l]
    BY <1>13, <2>1 DEF SameEntry
  <2> QED
    BY <1>1, <2>2 DEF Emptied
<1>14. ASSUME NEW l \in Index, l > k, e[l].inUse PROVE Used(b, d, l) /\ e[l].sector \in v.onDisk
  <2>1. Used(c, d, l) /\ e[l].sector \in w.onDisk /\ TableOf(c, d)[l] = e[l] /\ l # k
    BY <1>1, <1>2, <1>14 DEF Emptied, Index
  <2>2. Target(c, d, l) = e[l].sector /\ Target(c, d, l) # g
    BY <1>5, <2>1 DEF Target
  <2>3. SameEntry(c, b, d, l) /\ Target(c, d, l) \in v.onDisk
    BY <1>12, <2>1, <2>2
  <2> QED
    BY <2>1, <2>2, <2>3 DEF SameEntry
<1>15. ASSUME NEW l \in Index, l <= k, e[l].inUse
       PROVE  e[l].isDirectory /\ (e[l].sector \notin v.onDisk \/ Used(b, d, l))
  <2>1. /\ e[l].isDirectory
        /\ e[l].sector \notin w.onDisk \/ (Used(c, d, l) /\ TableOf(c, d)[l] = e[l])
    <3>1. CASE l = k
      BY <1>4, <3>1
    <3>2. CASE l <= i
      BY <1>1, <1>15, <3>2 DEF Emptied
    <3> QED
      BY <1>2, <1>15, <3>1, <3>2
  <2>2. CASE e[l].sector \notin w.onDisk
    BY <2>1, <2>2
  <2>3. CASE Used(c, d, l) /\ TableOf(c, d)[l] = e[l]
    <3>1. Target(c, d, l) = e[l].sector
      BY <2>3 DEF Target
    <3>2. Used(b, d, l) \/ e[l].sector \notin v.onDisk
      BY <1>12, <2>3, <3>1 DEF SameEntry
    <3> QED
      BY <2>1, <3>2
  <2> QED
    BY <2>1, <2>2, <2>3
<1>16. Emptied(v, d, e, k)
  BY <1>1, <1>12, <1>13, <1>14, <1>15 DEF Emptied
<1> QED
  BY <1>2, <1>6, <1>9, <1>11, <1>16 DEF Going

\* The calls with d levels left do what they should.
Empties(d) ==
  \A w, H, D, Z, q, p, n :
    Calling(w, H, D, Z, q, p, n) => Returned(w, Removal[d][w][p], Z, q, n)

LoopIs(w0, v, Z, q, p, n, i) ==
  /\ v = [w |-> v.w, e |-> v.e] /\ Shrinks(w0, v.w)
  /\ ~v.w.aborted => \E H, D : Going(w0, v.w, v.e, H, D, Z, q, p, n, i)

\* A path with one more name.
LEMMA AppendIs ==
  ASSUME NEW p \in Seq(Name), NEW x, NEW r, r = Append(p, x)
  PROVE  /\ x \in Name => r \in Seq(Name)
         /\ Len(r) = Len(p) + 1 /\ r[Len(p) + 1] = x /\ \A j \in 1 .. Len(p) : r[j] = p[j]
OBVIOUS

\* Each turn of the loop does what it should, if the calls one level down do.
LEMMA LoopTurn ==
  ASSUME NEW d \in 0 .. PathMax, Empties(d), NEW i \in 0 .. NumDirEntries - 1,
         NEW w0, NEW v, NEW Z, NEW q, NEW p, NEW n, LoopIs(w0, v, Z, q, p, n, i),
         NEW y, y = NextEntry(Removal[d], v, q[n], p, i + 1)
  PROVE  LoopIs(w0, y, Z, q, p, n, i + 1)
<1> DEFINE w == v.w
           e == v.e
           k == i + 1
           sub == Removal[d]
           r == Append(p, e[k].name)
<1>1. /\ v = [w |-> w, e |-> e] /\ Shrinks(w0, w)
      /\ ~w.aborted => \E H, D : Going(w0, w, e, H, D, Z, q, p, n, i)
  BY DEF LoopIs
<1>2. CASE w.aborted
  <2>1. y = v
    BY <1>2 DEF NextEntry
  <2> QED
    BY <1>1, <1>2, <2>1 DEF LoopIs
<1>3. CASE ~w.aborted
  <2>1. PICK H, D : Going(w0, w, e, H, D, Z, q, p, n, i)
    BY <1>1, <1>3
  <2>2. CASE ~e[k].inUse
    <3>1. y = v
      BY <2>2 DEF NextEntry
    <3>2. Going(w0, w, e, H, D, Z, q, p, n, k)
      <4> HIDE DEF w, e
      <4> QED
        BY <2>1, <2>2, EntryPassed
    <3> QED
      BY <1>1, <3>1, <3>2 DEF LoopIs
  <2>3. CASE e[k].inUse /\ e[k].isDirectory
    <3> DEFINE t == sub[w][r]
    <3>1. y = [v EXCEPT !.w = t]
      BY <1>3, <2>3 DEF NextEntry
    <3> HIDE DEF w, e, k, sub, r
    <3>2. y = [w |-> t, e |-> e]
      <4> HIDE DEF t
      <4> QED
        BY <1>1, <3>1
    <3>3. p \in Seq(Name) /\ n = Len(p) /\ n \in Nat
      BY <2>1 DEF Going
    <3>4. /\ e[k].name \in Name => r \in Seq(Name)
          /\ Len(r) = n + 1 /\ r[n + 1] = e[k].name /\ \A j \in 1 .. n : r[j] = p[j]
      <4> DEFINE x == e[k].name
      <4>1. r = Append(p, x)
        BY DEF r
      <4> HIDE DEF x
      <4>2. /\ x \in Name => r \in Seq(Name)
            /\ Len(r) = Len(p) + 1 /\ r[Len(p) + 1] = x /\ \A j \in 1 .. Len(p) : r[j] = p[j]
        BY <3>3, <4>1, AppendIs
      <4> QED
        BY <3>3, <4>2 DEF x
    <3>5. k = i + 1
      BY DEF k
    <3>6. PICK u : /\ Calling(w, H, D, Z, u, r, n + 1)
                   /\ u[n + 1] = e[k].sector /\ \A j \in 0 .. n : u[j] = q[j]
      BY <2>1, <2>3, <3>4, <3>5, CallsBelow
    <3>7. Returned(w, t, Z, u, n + 1)
      BY <3>6 DEF Empties, sub
    <3> HIDE DEF t
    <3>8. Shrinks(w, t) /\ (~t.aborted => \E H2, D2 : Done(w, t, H2, D2, Z, u, n + 1))
      BY <3>7 DEF Returned
    <3>9. Shrinks(w0, t)
      BY <1>1, <3>8, ShrinksOn
    <3>10. t \in World /\ t.onDisk \subseteq w.onDisk
      BY <3>8 DEF Shrinks
    <3>11. ASSUME ~t.aborted PROVE \E H2, D2 : Going(w0, t, e, H2, D2, Z, q, p, n, k)
      <4>1. PICK H2, D2 : Done(w, t, H2, D2, Z, u, n + 1)
        BY <3>8, <3>11
      <4>2. Going(w0, t, e, H2, D2, Z, q, p, n, k)
        BY <2>1, <2>3, <3>5, <3>6, <3>10, <3>11, <4>1, DirectoryTurn
      <4> QED
        BY <4>2
    <3>12. y.w = t /\ y.e = e
      BY <3>2
    <3> QED
      BY <3>2, <3>5, <3>9, <3>11, <3>12 DEF LoopIs
  <2>4. CASE e[k].inUse /\ ~e[k].isDirectory
    <3> DEFINE x == e[k].name
               t == RemoveFile(w, q[n], e, x)
               f == RemoveEntry(e, x)
    <3>1. y = [w |-> t, e |-> f]
      BY <1>3, <2>4 DEF NextEntry
    <3> HIDE DEF w, e, k
    <3>2. k = i + 1
      BY DEF k
    <3> DEFINE g == q[n]
    <3>3. Removable(w, H, D, Z, g, e, k)
      BY <2>1, <2>4, <3>2, EntryRemovable
    <3>4. t = RemoveFile(w, g, e, e[k].name)
      OBVIOUS
    <3> HIDE DEF g, t
    <3>5. Shrinks(w, t) /\ (~t.aborted => \E H2, D2 : FileGone(w, t, H, D, Z, g, e, k, H2, D2))
      BY <3>3, <3>4, FileRemovedShrinks, FileRemoved
    <3>6. Shrinks(w0, t)
      BY <1>1, <3>5, ShrinksOn
    <3>7. f = Less(e, k)
      <4>1. FindIndex(e, x) = k /\ k # 0
        BY <3>3 DEF Removable, Index
      <4> QED
        BY <4>1 DEF RemoveEntry, Less
    <3> HIDE DEF f, x
    <3>8. ASSUME ~t.aborted PROVE \E H2, D2 : Going(w0, t, f, H2, D2, Z, q, p, n, k)
      <4>1. PICK H2, D2 : FileGone(w, t, H, D, Z, g, e, k, H2, D2)
        BY <3>5, <3>8
      <4>2. t \in World /\ g = q[n]
        BY <3>5 DEF Shrinks, g
      <4>3. Going(w0, t, Less(e, k), H2, D2, Z, q, p, n, k)
        BY <2>1, <2>4, <3>2, <3>8, <4>1, <4>2, FileTurn
      <4> QED
        BY <3>7, <4>3
    <3>9. y.w = t /\ y.e = f
      BY <3>1
    <3> QED
      BY <3>1, <3>2, <3>6, <3>8, <3>9 DEF LoopIs
  <2> QED
    BY <2>2, <2>3, <2>4
<1> QED
  BY <1>2, <1>3

\* So does the whole loop.
LEMMA LoopEnds ==
  ASSUME NEW d \in 0 .. PathMax, Empties(d),
         NEW w, NEW H, NEW D, NEW Z, NEW q, NEW p, NEW n, Calling(w, H, D, Z, q, p, n),
         NEW g, g = q[n], ~Unreadable(w, g), NEW a, a = EntriesRemoved(Removal[d], w, g, p),
         NEW Y, Y = Z \cup {g}
  PROVE  LoopIs(w, a[NumDirEntries], Y, q, p, n, NumDirEntries)
<1> DEFINE m == NumDirEntries
           A == {i \in Nat : LoopIs(w, a[i], Y, q, p, n, i)}
           e == FetchTable(w, g)
<1>1. m \in Nat
  BY TreeAssumption
<1>2. /\ a[0] = [w |-> w, e |-> e]
      /\ \A i \in 0 .. m - 1 : a[i + 1] = NextEntry(Removal[d], a[i], g, p, i + 1)
  BY <1>1, EntriesRemovedIs
<1>3. 0 \in A
  <2>1. Going(w, w, e, H, D, Y, q, p, n, 0)
    BY LoopStarts
  <2>2. Shrinks(w, w)
    BY AbortShrinks DEF Calling
  <2> HIDE DEF e
  <2>3. a[0].w = w /\ a[0].e = e
    BY <1>2
  <2> QED
    BY <1>2, <2>1, <2>2, <2>3 DEF LoopIs
<1>4. ASSUME NEW i \in 0 .. m - 1, i \in A PROVE i + 1 \in A
  <2> DEFINE v == a[i]
             y == a[i + 1]
  <2>1. LoopIs(w, v, Y, q, p, n, i) /\ y = NextEntry(Removal[d], v, g, p, i + 1)
    BY <1>2, <1>4
  <2> HIDE DEF v, y
  <2>2. LoopIs(w, y, Y, q, p, n, i + 1)
    BY <2>1, LoopTurn
  <2> QED
    BY <2>2 DEF y
<1>5. m \in A
  <2>1. A \in SUBSET Nat /\ m \in 0 .. m
    BY <1>1
  <2>2. \A i \in 0 .. m - 1 : i \in A => i + 1 \in A
    BY <1>4
  <2> HIDE DEF A, m
  <2>3. \A i \in 0 .. m : i \in A
    BY <1>1, <1>3, <2>1, <2>2, InductionUpTo
  <2> QED
    BY <2>1, <2>3
<1> QED
  BY <1>5

\* The last step: the entry of the directory itself is removed.
LEMMA LastRemoved ==
  ASSUME NEW w0 \in World, NEW w, NEW e, NEW H, NEW D, NEW Y, NEW q, NEW p, NEW n, NEW i,
         Going(w0, w, e, H, D, Y, q, p, n, i), Shrinks(w0, w),
         NEW Z, \A z \in Y : z # q[n] => z \in Z, NEW v, v = RemoveFrom(w, p).w
  PROVE  Returned(w0, v, Z, q, n)
<1> DEFINE c == w.content
           b == v.content
           M == w.onDisk
           N == v.onDisk
           g == q[n]
           f == q[n - 1]
           x == p[n]
           t == FetchTable(w, f)
<1>1. /\ w \in World /\ ~w.aborted /\ Sound(c, M, H, D, Y)
      /\ n = Len(p) /\ n \in Nat \ {0} /\ p \in Seq(Name) /\ Chain(c, D, q, p, n)
      /\ Outer(w0, w, q, n) /\ Emptied(w, g, e, i)
  BY DEF Going
<1>2. /\ g \in D /\ f \in D /\ Link(c, f, x, g)
      /\ n \in 0 .. n /\ n - 1 \in 0 .. n /\ n - 1 \in Nat
  <2>1. n \in 0 .. n /\ n - 1 \in 0 .. n /\ n \in 1 .. n /\ n - 1 \in Nat
    BY <1>1
  <2> QED
    BY <1>1, <2>1 DEF Chain
<1>3. Walk(w, p) = Stopped(q, n)
  <2>1. Stops(w, q, p, n)
    BY <1>1, <1>2 DEF Stops
  <2>2. WalkStops(w, p, q, n)
    BY <1>1, <2>1, WalkIs
  <2> QED
    BY <2>2 DEF WalkStops
<1>4. ~Unreadable(w, g)
  BY <1>1, <1>2, TableRead DEF Emptied
<1>5. ~Unreadable(w, f) /\ Find(t, x) = g
  BY <1>1, <1>2, LinkRead
<1>6. t \in EntryTable /\ t = TableOf(c, f) /\ \A l \in Index : Used(c, f, l) <=> t[l].inUse
  BY <1>1, <1>2, <1>5, TableRead
<1>7. PICK k \in Index : Used(c, f, k) /\ TableOf(c, f)[k].name = x /\ Target(c, f, k) = g
  BY <1>2 DEF Link
<1>8. t[k].inUse /\ t[k].name = x
  BY <1>6, <1>7
<1>9. g \in M /\ Live(c, H, D, f, k)
  <2>1. g \in M
    BY <1>1, <1>2 DEF Sound, SoundHeaders, SoundTables
  <2> QED
    BY <1>1, <1>2, <1>7, <2>1, LiveTarget
<1>10. v = RemoveFile(w, f, t, x)
  <2> DEFINE s == Walk(w, p)
  <2>1. s.here = g /\ s.above = f /\ s.depth = n
    BY <1>1, <1>3 DEF Stopped
  <2>2. LooksIn(s, p) = f /\ LooksFor(s, p) = x
    BY <1>1, <2>1 DEF LooksIn, LooksFor, Seqs!Last
  <2>3. g # -1
    BY <1>9, <1>1, Limits DEF Sound, SoundHeaders, Sector
  <2> HIDE DEF s, f, g, x
  <2> QED
    BY <1>1, <1>4, <1>5, <2>1, <2>2, <2>3 DEF RemoveFrom, s
<1> HIDE DEF f, x
<1>11. Removable(w, H, D, Y, f, t, k)
  BY <1>1, <1>2, <1>5, <1>8, <1>9, RemovableAsRead
<1>12. v = RemoveFile(w, f, t, t[k].name)
  BY <1>8, <1>10
<1> HIDE DEF t
<1>13. Shrinks(w, v) /\ (~v.aborted => \E H2, D2 : FileGone(w, v, H, D, Y, f, t, k, H2, D2))
  BY <1>11, <1>12, FileRemovedShrinks, FileRemoved
<1>14. Shrinks(w0, v)
  BY <1>13, ShrinksOn
<1>15. ASSUME ~v.aborted PROVE \E H2, D2 : Done(w0, v, H2, D2, Z, q, n)
  <2>1. PICK H2, D2 : FileGone(w, v, H, D, Y, f, t, k, H2, D2)
    BY <1>13, <1>15
  <2>2. /\ \A d \in D : FirstOf(b, d) = FirstOf(c, d)
        /\ TableOf(b, f) = Less(t, k)
        /\ \A d \in D, l \in Index : d # f => SameEntry(c, b, d, l)
        /\ \A d \in D, l \in Index :
             /\ Used(c, d, l) /\ Target(c, d, l) \in M
             /\ d # f \/ l # k
             => Target(c, d, l) \in N
    BY <1>11, <2>1, OthersKept
  <2>3. Sound(b, N, H2, D2, Y) /\ g \notin N
    BY <1>7, <2>1 DEF FileGone
  <2>4. Sound(b, N, H2, D2, Z)
    <3>1. \A z \in Y : z \in D2 => z \in Z
      <4>1. g \notin D2
        BY <2>3 DEF Sound, SoundHeaders, SoundTables
      <4> QED
        BY <4>1
    <3> HIDE DEF b, N
    <3> QED
      BY <2>3, <3>1, SoundWith
  <2>5. \A j \in 0 .. n - 1 : q[j] \in D2 /\ q[j] \in D
    <3> DEFINE m == n - 1
    <3>1. m \in Nat /\ m \in 0 .. n /\ q[m] = f
      BY <1>2 DEF f
    <3>2. Chain(c, D, q, p, m)
      <4> HIDE DEF m, c
      <4> QED
        BY <1>1, <3>1, ShorterChain
    <3> HIDE DEF m
    <3>3. Chain(b, D2, q, p, m)
      BY <1>11, <2>1, <3>1, <3>2, FileChain
    <3>4. \A j \in 0 .. m : q[j] \in D2 /\ q[j] \in D
      BY <3>2, <3>3 DEF Chain
    <3> QED
      BY <3>4 DEF m
  <2>6. ASSUME NEW l \in Index PROVE l # k => SameEntry(c, b, f, l)
    <3>1. l # k => Less(t, k)[l] = t[l]
      BY <1>6, LessIs
    <3>2. FirstOf(b, f) = FirstOf(c, f) /\ FirstOf(c, f) \in Sector
      BY <1>2, <1>7, <2>2 DEF Used
    <3> QED
      BY <1>6, <2>2, <3>1, <3>2 DEF SameEntry, Used
  <2>7. ~Used(b, f, k)
    <3>1. ~Less(t, k)[k].inUse
      BY <1>6, LessIs
    <3> QED
      BY <2>2, <3>1 DEF Used
  <2>8. ASSUME NEW j \in 0 .. n - 1
        PROVE  /\ FirstOf(b, q[j]) = FirstOf(w0.content, q[j])
               /\ \A l \in Index :
                    /\ \/ SameEntry(w0.content, b, q[j], l)
                       \/ /\ Used(w0.content, q[j], l) /\ Target(w0.content, q[j], l) = g
                          /\ ~Used(b, q[j], l) /\ g \notin N
                    /\ Used(w0.content, q[j], l) /\ Target(w0.content, q[j], l) \in w0.onDisk
                       /\ Target(w0.content, q[j], l) # g
                       => Target(w0.content, q[j], l) \in N
    <3> DEFINE o == w0.content
               d == q[j]
    <3>1. d \in D /\ FirstOf(b, d) = FirstOf(o, d)
      BY <1>1, <2>2, <2>5 DEF Outer
    <3>2. ASSUME NEW l \in Index
          PROVE  /\ SameEntry(o, c, d, l)
                 /\ Used(o, d, l) /\ Target(o, d, l) \in w0.onDisk => Target(o, d, l) \in M
      BY <1>1 DEF Outer
    <3> HIDE DEF o, d, g, N, M, c, b
    <3>3. ASSUME NEW l \in Index
          PROVE  SameEntry(o, b, d, l)
                 \/ (Used(o, d, l) /\ Target(o, d, l) = g /\ ~Used(b, d, l) /\ g \notin N)
      <4>1. CASE d = f /\ l = k
        <5>1. Used(o, d, l) /\ Target(o, d, l) = Target(c, d, l)
          BY <1>7, <3>2, <4>1 DEF SameEntry, Target
        <5> QED
          BY <1>7, <2>3, <2>7, <4>1, <5>1
      <4>2. CASE ~(d = f /\ l = k)
        <5>1. SameEntry(c, b, d, l) /\ SameEntry(o, c, d, l)
          BY <2>2, <2>6, <3>1, <3>2, <4>2
        <5> QED
          BY <5>1 DEF SameEntry
      <4> QED
        BY <4>1, <4>2
    <3>4. ASSUME NEW l \in Index, Used(o, d, l), Target(o, d, l) \in w0.onDisk, Target(o, d, l) # g
          PROVE  Target(o, d, l) \in N
      <4>1. Used(c, d, l) /\ Target(c, d, l) = Target(o, d, l) /\ Target(c, d, l) \in M
        BY <3>2, <3>4 DEF SameEntry, Target
      <4>2. d # f \/ l # k
        BY <1>7, <3>4, <4>1
      <4> QED
        BY <2>2, <3>1, <4>1, <4>2
    <3> QED
      BY <3>1, <3>3, <3>4 DEF o, d
  <2>9. Done(w0, v, H2, D2, Z, q, n)
    BY <2>4, <2>5, <2>8 DEF Done
  <2> QED
    BY <2>9
<1> QED
  BY <1>14, <1>15 DEF Returned

\* A directory that holds a file of its own name: only this file is removed.
LEMMA OneFileRemoved ==
  ASSUME NEW w, NEW H, NEW D, NEW Z, NEW q, NEW p, NEW n, Calling(w, H, D, Z, q, p, n),
         NEW g, g = q[n], ~Unreadable(w, g), NEW e, e = FetchTable(w, g),
         NEW x, ~IsDirectory(e, x), NEW v, v = RemoveFile(w, g, e, x)
  PROVE  Returned(w, v, Z, q, n)
<1> DEFINE c == w.content
           b == v.content
           M == w.onDisk
           N == v.onDisk
           k == FindIndex(e, x)
<1>1. /\ w \in World /\ ~w.aborted /\ Sound(c, M, H, D, Z)
      /\ n \in Nat \ {0} /\ Chain(c, D, q, p, n)
      /\ \A z \in Z : \E j \in 0 .. n - 1 : z = q[j]
  BY DEF Calling
<1>2. g \in D /\ g \notin Z /\ \A j \in 0 .. n - 1 : q[j] \in D /\ q[j] # g
  <2>1. n \in 0 .. n /\ \A j \in 0 .. n - 1 : j \in 0 .. n /\ j # n
    BY <1>1
  <2> QED
    BY <1>1, <2>1 DEF Chain
<1>3. e \in EntryTable /\ \A l \in Index : Used(c, g, l) <=> e[l].inUse
  BY <1>1, <1>2, TableRead
<1>4. k # 0
  BY DEF IsDirectory
<1>5. k \in Index /\ e[k].inUse /\ e[k].name = x
  BY <1>3, <1>4, FindIndexIs
<1> HIDE DEF k
<1>6. Live(c, H, D, g, k)
  BY <1>1, <1>2, <1>3, <1>5, LiveTarget
<1>7. Removable(w, H, D, Z, g, e, k)
  BY <1>1, <1>2, <1>5, <1>6, RemovableAsRead
<1>8. v = RemoveFile(w, g, e, e[k].name)
  BY <1>5
<1>9. Shrinks(w, v) /\ (~v.aborted => \E H2, D2 : FileGone(w, v, H, D, Z, g, e, k, H2, D2))
  BY <1>7, <1>8, FileRemovedShrinks, FileRemoved
<1>10. ASSUME ~v.aborted PROVE \E H2, D2 : Done(w, v, H2, D2, Z, q, n)
  <2>1. PICK H2, D2 : FileGone(w, v, H, D, Z, g, e, k, H2, D2)
    BY <1>9, <1>10
  <2>2. /\ \A d \in D : FirstOf(b, d) = FirstOf(c, d)
        /\ \A d \in D, l \in Index : d # g => SameEntry(c, b, d, l)
        /\ \A d \in D, l \in Index :
             /\ Used(c, d, l) /\ Target(c, d, l) \in M
             /\ d # g \/ l # k
             => Target(c, d, l) \in N
    BY <1>7, <2>1, OthersKept
  <2>3. n \in Nat
    BY <1>1
  <2>4. Chain(b, D2, q, p, n)
    BY <1>1, <1>7, <2>1, <2>3, FileChain
  <2>5. \A j \in 0 .. n - 1 : q[j] \in D2
    BY <1>1, <2>4 DEF Chain
  <2>6. Done(w, v, H2, D2, Z, q, n)
    BY <1>2, <2>1, <2>2, <2>5 DEF Done, FileGone
  <2> QED
    BY <2>6
<1> QED
  BY <1>9, <1>10 DEF Returned

\* A call does what it should, if the calls one level down do.
LEMMA CallReturns ==
  ASSUME NEW d \in 0 .. PathMax, Empties(d),
         NEW w, NEW H, NEW D, NEW Z, NEW q, NEW p, NEW n, Calling(w, H, D, Z, q, p, n),
         NEW v, v = RemoveTree(Removal[d], w, p)
  PROVE  Returned(w, v, Z, q, n)
<1> DEFINE c == w.content
           g == q[n]
           s == Walk(w, p)
           x == LooksFor(s, p)
           e == FetchTable(w, s.here)
           sub == Removal[d]
           a == EntriesRemoved(sub, w, g, p)
           u == a[NumDirEntries]
           Y == Z \cup {g}
<1>1. /\ w \in World /\ ~w.aborted /\ Sound(c, w.onDisk, H, D, Z)
      /\ n = Len(p) /\ n \in Nat \ {0} /\ Chain(c, D, q, p, n)
  BY DEF Calling
<1>2. s = Stopped(q, n)
  <2>1. Stops(w, q, p, n)
    BY <1>1 DEF Stops
  <2>2. WalkStops(w, p, q, n)
    BY <1>1, <2>1, WalkIs
  <2> QED
    BY <2>2 DEF WalkStops
<1>3. s.here = g
  BY <1>2 DEF Stopped
<1> HIDE DEF x, sub
<1>4. CASE Unreadable(w, g)
  <2>1. v = Abort(w)
    BY <1>3, <1>4 DEF RemoveTree
  <2> QED
    BY <1>1, <2>1, AbortShrinks DEF Returned
<1>5. CASE ~Unreadable(w, g) /\ ~IsDirectory(e, x)
  <2>1. e = FetchTable(w, g)
    BY <1>3
  <2>2. v = RemoveFile(w, g, e, x)
    BY <1>1, <1>3, <1>5 DEF RemoveTree, x
  <2> HIDE DEF e, g, s
  <2>3. g = q[n]
    BY DEF g
  <2> QED
    BY <1>5, <2>1, <2>2, <2>3, OneFileRemoved
<1>6. CASE ~Unreadable(w, g) /\ IsDirectory(e, x)
  <2>1. v = RemoveFrom(u.w, p).w
    BY <1>1, <1>3, <1>6 DEF RemoveTree, x, sub
  <2> HIDE DEF e, s
  <2>2. LoopIs(w, u, Y, q, p, n, NumDirEntries)
    <3>1. a = EntriesRemoved(Removal[d], w, g, p)
      BY DEF sub
    <3> HIDE DEF a, g
    <3>2. g = q[n]
      BY DEF g
    <3> QED
      BY <1>6, <3>1, <3>2, LoopEnds
  <2> HIDE DEF u
  <2>3. /\ Shrinks(w, u.w)
        /\ ~u.w.aborted => \E E, F : Going(w, u.w, u.e, E, F, Y, q, p, n, NumDirEntries)
    BY <2>2 DEF LoopIs
  <2>4. CASE u.w.aborted
    <3> DEFINE o == u.w
    <3>1. v = Abort(o)
      BY <2>1, <2>4 DEF RemoveFrom
    <3>2. o \in World /\ Shrinks(w, o)
      BY <2>3 DEF Shrinks
    <3> HIDE DEF o
    <3>3. Shrinks(o, v) /\ v.aborted
      BY <3>1, <3>2, AbortShrinks
    <3>4. Shrinks(w, v)
      BY <3>2, <3>3, ShrinksOn
    <3> QED
      BY <3>3, <3>4 DEF Returned
  <2>5. CASE ~u.w.aborted
    <3> DEFINE o == u.w
               f == u.e
    <3>1. PICK E, F : Going(w, o, f, E, F, Y, q, p, n, NumDirEntries)
      BY <2>3, <2>5
    <3>2. Shrinks(w, o) /\ v = RemoveFrom(o, p).w
      BY <2>1, <2>3
    <3> HIDE DEF o, f
    <3>3. \A z \in Y : z # q[n] => z \in Z
      OBVIOUS
    <3> HIDE DEF Y
    <3> QED
      BY <1>1, <3>1, <3>2, <3>3, LastRemoved
  <2> QED
    BY <2>4, <2>5
<1> QED
  BY <1>4, <1>5, <1>6

\* RecursiveRemove, called for a directory at its path, however deep, leaves the
\* directories above as they were but for the entry of this one, and the disk sound,
\* although it goes on with a table it read before the calls below changed the disk
\* (filesys.cc:530-572).
LEMMA AllEmpty ==
  ASSUME NEW d \in 0 .. PathMax + 1
  PROVE  Empties(d)
<1> DEFINE A == {i \in Nat : Empties(i)}
           m == PathMax + 1
<1>1. m \in Nat /\ PathMax \in Nat /\ m = PathMax + 1
  BY TreeAssumption
<1>2. 0 \in A
  <2> SUFFICES ASSUME NEW w, NEW H, NEW D, NEW Z, NEW q, NEW p, NEW n, Calling(w, H, D, Z, q, p, n)
               PROVE  Returned(w, Removal[0][w][p], Z, q, n)
    BY DEF Empties
  <2>1. w \in World /\ p \in Seq(Name)
    BY DEF Calling
  <2>2. Removal[0][w][p] = Abort(w)
    BY <2>1, RemovalIs
  <2> QED
    BY <2>1, <2>2, AbortShrinks DEF Returned
<1>3. ASSUME NEW i \in 0 .. m - 1, i \in A PROVE i + 1 \in A
  <2>1. i \in 0 .. PathMax /\ Empties(i) /\ i + 1 \in Nat
    BY <1>1, <1>3
  <2>2. ASSUME NEW w, NEW H, NEW D, NEW Z, NEW q, NEW p, NEW n, Calling(w, H, D, Z, q, p, n)
        PROVE  Returned(w, Removal[i + 1][w][p], Z, q, n)
    <3>1. w \in World /\ p \in Seq(Name)
      BY <2>2 DEF Calling
    <3> DEFINE v == Removal[i + 1][w][p]
    <3>2. v = RemoveTree(Removal[i], w, p)
      BY <2>1, <3>1, RemovalIs
    <3> HIDE DEF v
    <3>3. Returned(w, v, Z, q, n)
      BY <2>1, <2>2, <3>2, CallReturns
    <3> QED
      BY <3>3 DEF v
  <2>3. Empties(i + 1)
    BY <2>2 DEF Empties
  <2> QED
    BY <2>1, <2>3
<1>4. d \in A
  <2>1. A \in SUBSET Nat /\ d \in 0 .. m
    OBVIOUS
  <2>2. \A i \in 0 .. m - 1 : i \in A => i + 1 \in A
    BY <1>3
  <2> HIDE DEF A, m
  <2>3. \A i \in 0 .. m : i \in A
    BY <1>1, <1>2, <2>1, <2>2, InductionUpTo
  <2> QED
    BY <2>1, <2>3
<1> QED
  BY <1>4

-------------------------------------------------------------------------------
(* A path that leads nowhere *)

\* The directory q[m], where the walk along p stops, has no entry of the next name.
Missing(w, H, D, q, p, m) ==
  /\ w \in World /\ ~w.aborted /\ Sound(w.content, w.onDisk, H, D, {})
  /\ p \in Seq(Name) /\ Len(p) \in Nat /\ m \in 0 .. Len(p) - 1 /\ Chain(w.content, D, q, p, m)
  /\ FirstOf(w.content, q[m]) \in Sector
  /\ \A l \in Index : Used(w.content, q[m], l) => TableOf(w.content, q[m])[l].name # p[m + 1]

\* The files in it are removed; the call for a directory in it would be for the
\* same place again, and again, until the path is too long.
MissingReturned(w, v, g) ==
  /\ Shrinks(w, v)
  /\ ~v.aborted =>
       /\ \E H, D : Sound(v.content, v.onDisk, H, D, {})
       /\ \A l \in Index : Used(w.content, g, l) => ~TableOf(w.content, g)[l].isDirectory

MissingGoing(w0, w, e, H, D, q, p, m, i) ==
  /\ Missing(w, H, D, q, p, m) /\ e = TableOf(w.content, q[m]) /\ e \in EntryTable
  /\ \A l \in Index : l <= i => ~e[l].inUse
  /\ \A l \in Index : Used(w0.content, q[m], l) /\ TableOf(w0.content, q[m])[l].isDirectory
                        => e[l] = TableOf(w0.content, q[m])[l]

MissingLoop(w0, v, q, p, m, i) ==
  /\ v = [w |-> v.w, e |-> v.e] /\ Shrinks(w0, v.w)
  /\ ~v.w.aborted => \E H, D : MissingGoing(w0, v.w, v.e, H, D, q, p, m, i)

MissesAll(d) ==
  \A w, H, D, q, p, m :
    Missing(w, H, D, q, p, m) => MissingReturned(w, Removal[d][w][p], q[m])

\* A longer path leads nowhere either.
LEMMA MissingBelow ==
  ASSUME NEW w, NEW H, NEW D, NEW q, NEW p, NEW m, Missing(w, H, D, q, p, m),
         NEW x \in Name, NEW r, r = Append(p, x)
  PROVE  Missing(w, H, D, q, r, m)
<1> DEFINE n == Len(p)
<1>1. p \in Seq(Name) /\ n \in Nat /\ m \in 0 .. n - 1 /\ Chain(w.content, D, q, p, m)
  BY DEF Missing
<1>2. r \in Seq(Name) /\ Len(r) = n + 1 /\ \A j \in 1 .. n : r[j] = p[j]
  BY <1>1, AppendIs
<1> HIDE DEF n
<1>3. /\ m \in 0 .. Len(r) - 1 /\ Len(r) \in Nat /\ r[m + 1] = p[m + 1]
      /\ \A j \in 1 .. m : r[j] = p[j]
  BY <1>1, <1>2
<1>4. Chain(w.content, D, q, r, m)
  BY <1>1, <1>3 DEF Chain
<1> QED
  BY <1>2, <1>3, <1>4 DEF Missing

\* The turn for the entry of a file.
LEMMA MissingFile ==
  ASSUME NEW w0, NEW w, NEW e, NEW H, NEW D, NEW q, NEW p, NEW m,
         NEW i \in 0 .. NumDirEntries - 1, MissingGoing(w0, w, e, H, D, q, p, m, i),
         NEW k, k = i + 1, e[k].inUse, ~e[k].isDirectory, NEW g, g = q[m],
         NEW t, t = RemoveFile(w, g, e, e[k].name)
  PROVE  /\ Shrinks(w, t) /\ RemoveEntry(e, e[k].name) = Less(e, k)
         /\ ~t.aborted => \E H2, D2 : MissingGoing(w0, t, Less(e, k), H2, D2, q, p, m, k)
<1> DEFINE c == w.content
           b == t.content
           r == Less(e, k)
<1>1. /\ w \in World /\ ~w.aborted /\ Sound(c, w.onDisk, H, D, {})
      /\ m \in Nat /\ Chain(c, D, q, p, m) /\ FirstOf(c, g) \in Sector
      /\ \A l \in Index : Used(c, g, l) => TableOf(c, g)[l].name # p[m + 1]
      /\ e = TableOf(c, g) /\ e \in EntryTable
  BY DEF MissingGoing, Missing
<1>2. g \in D
  BY <1>1 DEF Chain
<1>3. k \in Index /\ k # 0 /\ \A l \in Index : l <= k => l = k \/ l <= i
  BY TreeAssumption DEF Index
<1>4. ~Unreadable(w, g) /\ e = FetchTable(w, g)
  BY <1>1, <1>2, TableRead
<1>5. Used(c, g, k)
  BY <1>1 DEF Used
<1>6. Live(c, H, D, g, k)
  BY <1>1, <1>2, <1>3, <1>5, LiveTarget
<1>7. Removable(w, H, D, {}, g, e, k)
  BY <1>1, <1>2, <1>3, <1>4, <1>6, RemovableAsRead
<1>8. Shrinks(w, t) /\ (~t.aborted => \E H2, D2 : FileGone(w, t, H, D, {}, g, e, k, H2, D2))
  BY <1>7, FileRemovedShrinks, FileRemoved
<1>9. RemoveEntry(e, e[k].name) = Less(e, k)
  BY <1>3, <1>7 DEF Removable, RemoveEntry, Less
<1>10. ASSUME ~t.aborted PROVE \E H2, D2 : MissingGoing(w0, t, r, H2, D2, q, p, m, k)
  <2>1. PICK H2, D2 : FileGone(w, t, H, D, {}, g, e, k, H2, D2)
    BY <1>8, <1>10
  <2>2. TableOf(b, g) = r /\ FirstOf(b, g) = FirstOf(c, g)
    BY <1>2, <1>7, <2>1, OthersKept
  <2>3. Chain(b, D2, q, p, m)
    BY <1>1, <1>7, <2>1, FileChain
  <2>4. r \in EntryTable /\ ~r[k].inUse /\ \A l \in Index : l # k => r[l] = e[l]
    BY <1>1, <1>3, LessIs
  <2> HIDE DEF r
  <2>5. \A l \in Index : Used(b, g, l) => TableOf(b, g)[l].name # p[m + 1]
    <3>1. ASSUME NEW l \in Index, Used(b, g, l) PROVE Used(c, g, l) /\ r[l] = e[l]
      BY <1>1, <2>2, <2>4, <3>1 DEF Used
    <3> QED
      BY <1>1, <2>2, <3>1
  <2>6. Missing(t, H2, D2, q, p, m)
    <3>1. t \in World /\ Sound(b, t.onDisk, H2, D2, {})
      BY <1>8, <2>1 DEF Shrinks, FileGone
    <3> QED
      BY <1>1, <1>10, <2>2, <2>3, <2>5, <3>1 DEF Missing, MissingGoing
  <2>7. \A l \in Index : l <= k => ~r[l].inUse
    BY <1>3, <2>4 DEF MissingGoing
  <2>8. \A l \in Index : Used(w0.content, g, l) /\ TableOf(w0.content, g)[l].isDirectory
                           => r[l] = TableOf(w0.content, g)[l]
    <3>1. \A l \in Index : Used(w0.content, g, l) /\ TableOf(w0.content, g)[l].isDirectory
                             => e[l] = TableOf(w0.content, g)[l]
      BY DEF MissingGoing
    <3> QED
      BY <2>4, <3>1
  <2>9. MissingGoing(w0, t, r, H2, D2, q, p, m, k)
    BY <2>2, <2>4, <2>6, <2>7, <2>8 DEF MissingGoing
  <2> QED
    BY <2>9
<1> QED
  BY <1>8, <1>9, <1>10

\* Each turn does what it should, if the calls one level down do.
LEMMA MissingTurn ==
  ASSUME NEW d \in 0 .. PathMax, MissesAll(d), NEW i \in 0 .. NumDirEntries - 1,
         NEW w0, NEW v, NEW q, NEW p, NEW m, MissingLoop(w0, v, q, p, m, i),
         NEW y, y = NextEntry(Removal[d], v, q[m], p, i + 1)
  PROVE  MissingLoop(w0, y, q, p, m, i + 1)
<1> DEFINE w == v.w
           e == v.e
           k == i + 1
           sub == Removal[d]
           r == Append(p, e[k].name)
<1>1. /\ v = [w |-> w, e |-> e] /\ Shrinks(w0, w)
      /\ ~w.aborted => \E H, D : MissingGoing(w0, w, e, H, D, q, p, m, i)
  BY DEF MissingLoop
<1>2. CASE w.aborted
  <2>1. y = v
    BY <1>2 DEF NextEntry
  <2> QED
    BY <1>1, <1>2, <2>1 DEF MissingLoop
<1>3. CASE ~w.aborted
  <2>1. PICK H, D : MissingGoing(w0, w, e, H, D, q, p, m, i)
    BY <1>1, <1>3
  <2>2. /\ k \in Index /\ k = i + 1
        /\ \A l \in Index : l <= k => l = k \/ l <= i
    BY TreeAssumption DEF Index
  <2>3. CASE ~e[k].inUse
    <3>1. y = v
      BY <2>3 DEF NextEntry
    <3> HIDE DEF k
    <3>2. MissingGoing(w0, w, e, H, D, q, p, m, k)
      BY <2>1, <2>2, <2>3 DEF MissingGoing
    <3> QED
      BY <1>1, <2>2, <3>1, <3>2 DEF MissingLoop
  <2>4. CASE e[k].inUse /\ e[k].isDirectory
    <3> DEFINE t == sub[w][r]
    <3>1. y = [v EXCEPT !.w = t]
      BY <1>3, <2>4 DEF NextEntry
    <3> HIDE DEF w, e, k, sub, r
    <3>2. y = [w |-> t, e |-> e]
      <4> HIDE DEF t
      <4> QED
        BY <1>1, <3>1
    <3>3. Missing(w, H, D, q, p, m) /\ e = TableOf(w.content, q[m])
      BY <2>1 DEF MissingGoing
    <3>4. Used(w.content, q[m], k)
      BY <2>4, <3>3 DEF Missing, Used
    <3>5. e[k].name \in Name
      BY <2>2, <3>3, <3>4 DEF Missing, Sound, SoundTables, Chain
    <3>6. Missing(w, H, D, q, r, m)
      BY <3>3, <3>5, MissingBelow DEF r
    <3>7. MissingReturned(w, t, q[m])
      BY <3>6 DEF MissesAll, sub
    <3> HIDE DEF t
    <3>8. Shrinks(w, t) /\ t.aborted
      BY <2>2, <2>4, <3>3, <3>4, <3>7 DEF MissingReturned
    <3>9. Shrinks(w0, t)
      BY <1>1, <3>8, ShrinksOn
    <3>10. y.w = t /\ y.e = e
      BY <3>2
    <3> QED
      BY <3>2, <3>8, <3>9, <3>10 DEF MissingLoop
  <2>5. CASE e[k].inUse /\ ~e[k].isDirectory
    <3> DEFINE x == e[k].name
               t == RemoveFile(w, q[m], e, x)
               f == RemoveEntry(e, x)
    <3>1. y = [w |-> t, e |-> f]
      BY <1>3, <2>5 DEF NextEntry
    <3> HIDE DEF w, e, k
    <3> DEFINE g == q[m]
    <3>2. g = q[m] /\ t = RemoveFile(w, g, e, e[k].name)
      OBVIOUS
    <3> HIDE DEF g, t
    <3>3. /\ Shrinks(w, t) /\ RemoveEntry(e, e[k].name) = Less(e, k)
          /\ ~t.aborted => \E H2, D2 : MissingGoing(w0, t, Less(e, k), H2, D2, q, p, m, k)
      BY <2>1, <2>2, <2>5, <3>2, MissingFile
    <3>4. f = Less(e, k)
      BY <3>3
    <3> HIDE DEF f, x
    <3>5. Shrinks(w0, t)
      BY <1>1, <3>3, ShrinksOn
    <3>6. y.w = t /\ y.e = f
      BY <3>1
    <3> QED
      BY <2>2, <3>1, <3>3, <3>4, <3>5, <3>6 DEF MissingLoop
  <2> QED
    BY <2>3, <2>4, <2>5
<1> QED
  BY <1>2, <1>3

\* So does the whole loop.
LEMMA MissingEnds ==
  ASSUME NEW d \in 0 .. PathMax, MissesAll(d),
         NEW w, NEW H, NEW D, NEW q, NEW p, NEW m, Missing(w, H, D, q, p, m),
         NEW g, g = q[m], NEW a, a = EntriesRemoved(Removal[d], w, g, p)
  PROVE  MissingLoop(w, a[NumDirEntries], q, p, m, NumDirEntries)
<1> DEFINE n == NumDirEntries
           A == {i \in Nat : MissingLoop(w, a[i], q, p, m, i)}
           e == FetchTable(w, g)
<1>1. n \in Nat
  BY TreeAssumption
<1>2. /\ a[0] = [w |-> w, e |-> e]
      /\ \A i \in 0 .. n - 1 : a[i + 1] = NextEntry(Removal[d], a[i], g, p, i + 1)
  BY <1>1, EntriesRemovedIs
<1>3. 0 \in A
  <2>1. /\ Sound(w.content, w.onDisk, H, D, {}) /\ FirstOf(w.content, g) \in Sector /\ g \in D
    BY DEF Missing, Chain
  <2>2. e \in EntryTable /\ e = TableOf(w.content, g)
    BY <2>1, TableRead
  <2>3. \A l \in Index : ~(l <= 0)
    BY DEF Index
  <2> HIDE DEF e
  <2>4. MissingGoing(w, w, e, H, D, q, p, m, 0)
    BY <2>2, <2>3 DEF MissingGoing
  <2>5. Shrinks(w, w)
    BY AbortShrinks DEF Missing
  <2>6. a[0].w = w /\ a[0].e = e
    BY <1>2
  <2> QED
    BY <1>2, <2>4, <2>5, <2>6 DEF MissingLoop
<1>4. ASSUME NEW i \in 0 .. n - 1, i \in A PROVE i + 1 \in A
  <2> DEFINE v == a[i]
             y == a[i + 1]
  <2>1. MissingLoop(w, v, q, p, m, i) /\ y = NextEntry(Removal[d], v, g, p, i + 1)
    BY <1>2, <1>4
  <2> HIDE DEF v, y
  <2>2. MissingLoop(w, y, q, p, m, i + 1)
    BY <2>1, MissingTurn
  <2> QED
    BY <2>2 DEF y
<1>5. n \in A
  <2>1. A \in SUBSET Nat /\ n \in 0 .. n
    BY <1>1
  <2>2. \A i \in 0 .. n - 1 : i \in A => i + 1 \in A
    BY <1>4
  <2> HIDE DEF A, n
  <2>3. \A i \in 0 .. n : i \in A
    BY <1>1, <1>3, <2>1, <2>2, InductionUpTo
  <2> QED
    BY <2>1, <2>3
<1> QED
  BY <1>5

\* So does a call.
LEMMA MissingCall ==
  ASSUME NEW d \in 0 .. PathMax, MissesAll(d),
         NEW w, NEW H, NEW D, NEW q, NEW p, NEW m, Missing(w, H, D, q, p, m),
         NEW v, v = RemoveTree(Removal[d], w, p), NEW g, g = q[m]
  PROVE  MissingReturned(w, v, g)
<1> DEFINE c == w.content
           s == Walk(w, p)
           x == LooksFor(s, p)
           e == FetchTable(w, s.here)
           sub == Removal[d]
           a == EntriesRemoved(sub, w, g, p)
           u == a[NumDirEntries]
           o == u.w
           f == u.e
<1>1. /\ w \in World /\ ~w.aborted /\ Sound(c, w.onDisk, H, D, {})
      /\ p \in Seq(Name) /\ Len(p) \in Nat /\ m \in 0 .. Len(p) - 1 /\ Chain(c, D, q, p, m)
      /\ FirstOf(c, g) \in Sector
      /\ \A l \in Index : Used(c, g, l) => TableOf(c, g)[l].name # p[m + 1]
  BY DEF Missing
<1>2. g \in D
  BY <1>1 DEF Chain
<1> DEFINE t == FetchTable(w, g)
<1>3. ~Unreadable(w, g) /\ t \in EntryTable /\ t = TableOf(c, g) /\ \A l \in Index : Used(c, g, l) <=> t[l].inUse
  BY <1>1, <1>2, TableRead
<1>4. FindIndex(t, p[m + 1]) = 0
  <2> HIDE DEF t
  <2> QED
    BY <1>1, <1>3, FindIndexIs
<1>5. s = Stopped(q, m)
  <2>1. Stops(w, q, p, m)
    BY <1>1, <1>4 DEF Stops, HasDirectory
  <2>2. WalkStops(w, p, q, m)
    BY <1>1, <2>1, WalkIs
  <2> QED
    BY <2>2 DEF WalkStops
<1>6. s.here = g /\ s.depth = m
  BY <1>5 DEF Stopped
<1>7. IsDirectory(e, x)
  <2>1. e = t
    BY <1>6
  <2>2. x = p[m + 1]
    BY <1>1, <1>6 DEF LooksFor
  <2> HIDE DEF e, x, t
  <2> QED
    BY <1>4, <2>1, <2>2 DEF IsDirectory
<1> HIDE DEF x, sub
<1>8. v = RemoveFrom(o, p).w
  BY <1>1, <1>3, <1>6, <1>7 DEF RemoveTree, x, sub
<1> HIDE DEF e, s
<1>9. MissingLoop(w, u, q, p, m, NumDirEntries)
  <2>1. a = EntriesRemoved(Removal[d], w, g, p)
    BY DEF sub
  <2> HIDE DEF a
  <2> QED
    BY <2>1, MissingEnds
<1> HIDE DEF u
<1>10. Shrinks(w, o) /\ (~o.aborted => \E E, F : MissingGoing(w, o, f, E, F, q, p, m, NumDirEntries))
  BY <1>9 DEF MissingLoop
<1> HIDE DEF o, f
<1>11. CASE o.aborted
  <2>1. v = Abort(o) /\ o \in World
    BY <1>8, <1>10, <1>11 DEF RemoveFrom, Shrinks
  <2>2. Shrinks(o, v) /\ v.aborted
    BY <2>1, AbortShrinks
  <2>3. Shrinks(w, v)
    BY <1>10, <2>2, ShrinksOn
  <2> QED
    BY <2>2, <2>3 DEF MissingReturned
<1>12. CASE ~o.aborted
  <2>1. PICK E, F : MissingGoing(w, o, f, E, F, q, p, m, NumDirEntries)
    BY <1>10, <1>12
  <2>2. o \in World /\ Sound(o.content, o.onDisk, E, F, {})
    BY <2>1 DEF MissingGoing, Missing
  <2>3. p # <<>>
    BY <1>1
  <2>4. /\ Shrinks(o, v)
        /\ ~v.aborted => \E H2, D2 : Sound(v.content, v.onDisk, H2, D2, {})
    BY <1>1, <1>8, <1>12, <2>2, <2>3, RemoveIs
  <2>5. Shrinks(w, v)
    BY <1>10, <2>4, ShrinksOn
  <2>6. ASSUME NEW l \in Index, Used(c, g, l), TableOf(c, g)[l].isDirectory PROVE FALSE
    <3>1. f[l] = TableOf(c, g)[l] /\ (l <= NumDirEntries => ~f[l].inUse)
      BY <2>1, <2>6 DEF MissingGoing
    <3>2. l <= NumDirEntries
      BY TreeAssumption DEF Index
    <3> QED
      BY <2>6, <3>1, <3>2 DEF Used
  <2> QED
    BY <2>4, <2>5, <2>6 DEF MissingReturned
<1> QED
  BY <1>11, <1>12

\* RecursiveRemove, called for a path that leads nowhere, empties the directory where
\* its walk stops or is aborted, and leaves the disk sound if it is not.
LEMMA AllMiss ==
  ASSUME NEW d \in 0 .. PathMax + 1
  PROVE  MissesAll(d)
<1> DEFINE A == {i \in Nat : MissesAll(i)}
           n == PathMax + 1
<1>1. n \in Nat /\ PathMax \in Nat /\ n = PathMax + 1
  BY TreeAssumption
<1>2. 0 \in A
  <2> SUFFICES ASSUME NEW w, NEW H, NEW D, NEW q, NEW p, NEW m, Missing(w, H, D, q, p, m)
               PROVE  MissingReturned(w, Removal[0][w][p], q[m])
    BY DEF MissesAll
  <2>1. w \in World /\ p \in Seq(Name)
    BY DEF Missing
  <2>2. Removal[0][w][p] = Abort(w)
    BY <2>1, RemovalIs
  <2> QED
    BY <2>1, <2>2, AbortShrinks DEF MissingReturned
<1>3. ASSUME NEW i \in 0 .. n - 1, i \in A PROVE i + 1 \in A
  <2>1. i \in 0 .. PathMax /\ MissesAll(i) /\ i + 1 \in Nat
    BY <1>1, <1>3
  <2>2. ASSUME NEW w, NEW H, NEW D, NEW q, NEW p, NEW m, Missing(w, H, D, q, p, m)
        PROVE  MissingReturned(w, Removal[i + 1][w][p], q[m])
    <3>1. w \in World /\ p \in Seq(Name)
      BY <2>2 DEF Missing
    <3> DEFINE v == Removal[i + 1][w][p]
               g == q[m]
    <3>2. v = RemoveTree(Removal[i], w, p)
      BY <2>1, <3>1, RemovalIs
    <3>3. g = q[m]
      OBVIOUS
    <3> HIDE DEF v, g
    <3>4. MissingReturned(w, v, g)
      BY <2>1, <2>2, <3>2, <3>3, MissingCall
    <3> QED
      BY <3>4 DEF v, g
  <2>3. MissesAll(i + 1)
    BY <2>2 DEF MissesAll
  <2> QED
    BY <2>1, <2>3
<1>4. d \in A
  <2>1. A \in SUBSET Nat /\ d \in 0 .. n
    OBVIOUS
  <2>2. \A i \in 0 .. n - 1 : i \in A => i + 1 \in A
    BY <1>3
  <2> HIDE DEF A, n
  <2>3. \A i \in 0 .. n : i \in A
    BY <1>1, <1>2, <2>1, <2>2, InductionUpTo
  <2> QED
    BY <2>1, <2>3
<1> QED
  BY <1>4

\* A RecursiveRemove that is not aborted leaves a sound disk; one that is aborted
\* left the disk as it was or removed something.
LEMMA RecursiveRemoveIs ==
  ASSUME NEW H, NEW D, SoundDisk(H, D), NEW p \in Path, NEW v, v = RecursiveRemoveResult(p)
  PROVE  /\ Shrinks(Disk, v)
         /\ ~v.aborted => LeavesSound(v)
<1> DEFINE d == IF Len(p) > PathMax THEN 0 ELSE PathMax + 1 - Len(p)
           w == Disk
           c == w.content
           n == Len(p)
<1>1. w \in World /\ ~w.aborted /\ Sound(c, w.onDisk, H, D, {})
  BY DEF SoundDisk
<1>2. p \in Seq(Name) /\ p # <<>> /\ n \in Nat \ {0}
  BY LastIs
<1>3. v = Removal[d][w][p]
  BY DEF RecursiveRemoveResult
<1>4. d = 0 \/ (d \in 1 .. PathMax /\ n <= PathMax)
  BY <1>2, TreeAssumption
<1> HIDE DEF d, w
<1>5. CASE d = 0
  <2>1. v = Abort(w)
    BY <1>1, <1>2, <1>3, <1>5, RemovalIs
  <2> QED
    BY <1>1, <2>1, AbortShrinks DEF w
<1>6. CASE d \in 1 .. PathMax
  <2>1. d \in 0 .. PathMax + 1
    BY <1>6, TreeAssumption
  <2> DEFINE i == d - 1
  <2>2. i \in 0 .. PathMax /\ i + 1 = d
    BY <1>6, TreeAssumption
  <2>3. v = RemoveTree(Removal[i], w, p)
    <3> HIDE DEF i
    <3>1. Removal[i + 1][w][p] = RemoveTree(Removal[i], w, p)
      BY <1>1, <1>2, <2>2, RemovalIs
    <3> QED
      BY <1>3, <2>2, <3>1
  <2>4. PICK q, m : Chain(c, D, q, p, m) /\ Stops(w, q, p, m)
    BY <1>1, <1>2, ChainStops
  <2>5. m \in 0 .. n /\ \A j \in 0 .. m : q[j] \in D
    BY <2>4 DEF Chain, Stops
  <2>6. CASE m = n
    <3>1. Calling(w, H, D, {}, q, p, n)
      BY <1>1, <1>2, <2>4, <2>6 DEF Calling
    <3>2. Returned(w, v, {}, q, n)
      <4>1. Empties(d)
        BY <2>1, AllEmpty
      <4> QED
        BY <1>3, <3>1, <4>1 DEF Empties
    <3> QED
      BY <3>2 DEF Returned, Done, LeavesSound, Shrinks, w
  <2>7. CASE m # n
    <3> DEFINE g == q[m]
               s == Walk(w, p)
               x == p[m + 1]
               e == FetchTable(w, g)
    <3>1. m \in 0 .. n - 1 /\ m < n /\ g \in D /\ ~HasDirectory(w, g, x)
      BY <1>2, <2>4, <2>5, <2>7 DEF Stops
    <3>2. s = Stopped(q, m)
      <4>1. WalkStops(w, p, q, m)
        BY <1>1, <1>2, <2>4, WalkIs
      <4> QED
        BY <4>1 DEF WalkStops
    <3>3. s.here = g /\ LooksFor(s, p) = x
      BY <3>1, <3>2 DEF Stopped, LooksFor
    <3>4. CASE Unreadable(w, g)
      <4>1. v = Abort(w)
        BY <2>3, <3>3, <3>4 DEF RemoveTree
      <4> QED
        BY <1>1, <4>1, AbortShrinks DEF w
    <3>5. CASE ~Unreadable(w, g) /\ FindIndex(e, x) = 0
      <4>1. /\ e \in EntryTable /\ e = TableOf(c, g) /\ FirstOf(c, g) \in Sector
            /\ \A l \in Index : Used(c, g, l) <=> e[l].inUse
        BY <1>1, <3>1, <3>5, TableRead
      <4>2. \A l \in Index : ~(e[l].inUse /\ e[l].name = x)
        <5> HIDE DEF e, x
        <5> QED
          BY <3>5, <4>1, FindIndexIs
      <4>3. Missing(w, H, D, q, p, m)
        BY <1>1, <1>2, <2>4, <3>1, <4>1, <4>2 DEF Missing
      <4>4. MissesAll(d)
        BY <2>1, AllMiss
      <4>5. MissingReturned(w, v, q[m])
        BY <1>3, <4>3, <4>4 DEF MissesAll
      <4> QED
        BY <4>5 DEF MissingReturned, LeavesSound, Shrinks, w
    <3>6. CASE ~Unreadable(w, g) /\ FindIndex(e, x) # 0 /\ ~IsDirectory(e, x)
      <4>1. v = RemoveFile(w, g, e, x)
        BY <1>1, <2>3, <3>3, <3>6 DEF RemoveTree
      <4> DEFINE k == FindIndex(e, x)
      <4>2. e \in EntryTable /\ \A l \in Index : Used(c, g, l) <=> e[l].inUse
        BY <1>1, <3>1, <3>6, TableRead
      <4>3. k \in Index /\ e[k].inUse /\ e[k].name = x
        <5> HIDE DEF e, x
        <5> QED
          BY <3>6, <4>2, FindIndexIs
      <4> HIDE DEF k
      <4>4. Live(c, H, D, g, k)
        BY <1>1, <3>1, <4>2, <4>3, LiveTarget
      <4> HIDE DEF g
      <4>5. Removable(w, H, D, {}, g, e, k)
        BY <1>1, <3>1, <3>6, <4>3, <4>4, RemovableAsRead
      <4>6. v = RemoveFile(w, g, e, e[k].name)
        BY <4>1, <4>3
      <4> HIDE DEF e
      <4>7. Shrinks(w, v) /\ (~v.aborted => \E H2, D2 : Sound(v.content, v.onDisk, H2, D2, {}))
        BY <4>5, <4>6, FileRemovedShrinks
      <4> QED
        BY <4>7 DEF LeavesSound, Shrinks, w
    <3> QED
      BY <3>1, <3>4, <3>5, <3>6 DEF HasDirectory
  <2> QED
    BY <2>6, <2>7
<1> QED
  BY <1>4, <1>5, <1>6

-------------------------------------------------------------------------------
(* The invariant *)

\* Unless a recursive removal was cut short, the disk is sound.
IInv ==
  /\ map \subseteq Sector /\ content \in Content /\ cutShort \in BOOLEAN
  /\ ~cutShort => Consistent(content, map)

\* On a sound disk no sector has two owners.
LEMMA SoundIsConsistent ==
  ASSUME NEW c, NEW M, NEW H, NEW D, Sound(c, M, H, D, {})
  PROVE  Consistent(c, M)
<1>1. H \in SUBSET Sector /\ D \in SUBSET Sector
  BY DEF Sound, SoundHeaders, SoundTables
<1> QED
  BY <1>1 DEF Consistent

\* A step that leaves the disk sound keeps the invariant.
LEMMA NextIsSound ==
  ASSUME SoundNext, cutShort' \in BOOLEAN
  PROVE  IInv'
<1>1. PICK H, D : Sound(content', map', H, D, {})
  BY DEF SoundNext
<1> DEFINE c == content'
           M == map'
<1>2. Consistent(c, M)
  <2>1. Sound(c, M, H, D, {})
    BY <1>1
  <2> HIDE DEF c, M
  <2> QED
    BY <2>1, SoundIsConsistent
<1> QED
  BY <1>2 DEF SoundNext, IInv

\* The invariant holds of a new disk.
LEMMA InitIInv == Init => IInv
<1> SUFFICES ASSUME Init PROVE IInv
  OBVIOUS
<1>1. PICK H, D : Sound(content, map, H, D, {})
  BY InitIsSound
<1>2. Consistent(content, map)
  BY <1>1, SoundIsConsistent
<1> QED
  BY <1>2, InitIsSound DEF IInv

\* The invariant says that the disk is sound.
LEMMA DiskIsSound ==
  ASSUME IInv, ~cutShort
  PROVE  \E H, D : SoundDisk(H, D)
<1>1. PICK H, D : Sound(content, map, H, D, {})
  BY DEF IInv, Consistent
<1> QED
  BY <1>1, DiskIs DEF IInv

\* Each operation keeps the invariant.
LEMMA CreateKeepsIInv ==
  ASSUME IInv, NEW p \in Path, NEW size \in FileSize, Create(p, size)
  PROVE  IInv'
<1> DEFINE r == CreateResult(p, size)
           v == r.w
<1>1. ~cutShort /\ ~ThroughFile(Disk, p) /\ Effect(v) /\ cutShort' = cutShort
  BY DEF Create, Effect
<1>2. PICK H, D : SoundDisk(H, D)
  BY <1>1, DiskIsSound
<1> HIDE DEF r
<1>3. LeavesSound(v)
  BY <1>1, <1>2, CreateIs DEF r
<1> HIDE DEF v
<1>4. SoundNext
  BY <1>1, <1>3, EffectIs
<1> QED
  BY <1>1, <1>4, NextIsSound DEF IInv

\* CreateDirectory keeps the disk sound.
LEMMA CreateDirectoryKeepsIInv ==
  ASSUME IInv, NEW p \in Path, CreateDirectory(p)
  PROVE  IInv'
<1> DEFINE v == CreateDirectoryResult(p)
<1>1. ~cutShort /\ ~ThroughFile(Disk, p) /\ Effect(v) /\ cutShort' = cutShort
  BY DEF CreateDirectory, Effect
<1>2. PICK H, D : SoundDisk(H, D)
  BY <1>1, DiskIsSound
<1>3. LeavesSound(v)
  BY <1>1, <1>2, CreateDirectoryIs
<1> HIDE DEF v
<1>4. SoundNext
  BY <1>1, <1>3, EffectIs
<1> QED
  BY <1>1, <1>4, NextIsSound DEF IInv

\* What is as it was is sound.
LEMMA UntouchedIsSound ==
  ASSUME NEW H, NEW D, SoundDisk(H, D), NEW v, Shrinks(Disk, v), Untouched(Disk, v)
  PROVE  LeavesSound(v)
BY DEF SoundDisk, Shrinks, Untouched, LeavesSound

\* Remove keeps the disk sound.
LEMMA RemoveKeepsIInv ==
  ASSUME IInv, NEW p \in Path, Remove(p)
  PROVE  IInv'
<1> DEFINE r == RemoveResult(p)
           v == r.w
           w == Disk
<1>1. ~cutShort /\ Effect(v) /\ cutShort' = cutShort
  BY DEF Remove, Effect
<1>2. PICK H, D : SoundDisk(H, D)
  BY <1>1, DiskIsSound
<1>3. w \in World /\ ~w.aborted /\ Sound(w.content, w.onDisk, H, D, {})
  BY <1>2 DEF SoundDisk
<1>4. p \in Seq(Name) /\ p # <<>>
  BY LastIs
<1>5. v = RemoveFrom(w, p).w
  BY DEF RemoveResult
<1> HIDE DEF r, v, w
<1>6. /\ Shrinks(w, v) /\ (v.aborted => Untouched(w, v))
      /\ ~v.aborted => \E H2, D2 : Sound(v.content, v.onDisk, H2, D2, {})
  BY <1>3, <1>4, <1>5, RemoveIs
<1>7. LeavesSound(v)
  <2>1. CASE v.aborted
    BY <1>2, <1>6, <2>1, UntouchedIsSound DEF w
  <2>2. CASE ~v.aborted
    BY <1>6, <2>2 DEF LeavesSound, Shrinks
  <2> QED
    BY <2>1, <2>2
<1>8. SoundNext
  BY <1>1, <1>7, EffectIs
<1> QED
  BY <1>1, <1>8, NextIsSound DEF IInv

\* RecursiveRemove keeps the disk sound.
LEMMA RecursiveRemoveKeepsIInv ==
  ASSUME IInv, NEW p \in Path, RecursiveRemove(p)
  PROVE  IInv'
<1> DEFINE v == RecursiveRemoveResult(p)
<1>1. ~cutShort /\ Effect(v) /\ cutShort' = (v.aborted /\ v.onDisk # map)
  BY DEF RecursiveRemove, Effect
<1>2. PICK H, D : SoundDisk(H, D)
  BY <1>1, DiskIsSound
<1>3. Shrinks(Disk, v) /\ (~v.aborted => LeavesSound(v))
  BY <1>2, RecursiveRemoveIs
<1> HIDE DEF v
<1>4. CASE v.aborted /\ v.onDisk # map
  <2>1. v \in World /\ map' = v.onDisk /\ content' = v.content /\ cutShort' = TRUE
    BY <1>1, <1>3, <1>4 DEF Effect, Shrinks
  <2>2. map' \subseteq Sector /\ content' \in Content
    BY <2>1 DEF World
  <2> QED
    BY <2>1, <2>2 DEF IInv
<1>5. CASE ~(v.aborted /\ v.onDisk # map)
  <2>1. LeavesSound(v)
    <3>1. CASE v.onDisk = map
      <4>1. Untouched(Disk, v)
        BY <1>2, <1>3, <3>1 DEF SoundDisk, Shrinks
      <4> QED
        BY <1>2, <1>3, <4>1, UntouchedIsSound
    <3>2. CASE ~v.aborted
      BY <1>3, <3>2
    <3> QED
      BY <1>5, <3>1, <3>2
  <2>2. SoundNext
    BY <1>1, <2>1, EffectIs
  <2>3. cutShort' = FALSE
    BY <1>1, <1>5
  <2> QED
    BY <2>2, <2>3, NextIsSound
<1> QED
  BY <1>4, <1>5

\* The invariant is inductive.
LEMMA NextIInv == IInv /\ [Next]_vars => IInv'
<1> SUFFICES ASSUME IInv, [Next]_vars PROVE IInv'
  OBVIOUS
<1>1. ASSUME NEW p \in Path, NEW size \in FileSize, Create(p, size) PROVE IInv'
  BY <1>1, CreateKeepsIInv
<1>2. ASSUME NEW p \in Path, CreateDirectory(p) PROVE IInv'
  BY <1>2, CreateDirectoryKeepsIInv
<1>3. ASSUME NEW p \in Path, Remove(p) PROVE IInv'
  BY <1>3, RemoveKeepsIInv
<1>4. ASSUME NEW p \in Path, RecursiveRemove(p) PROVE IInv'
  BY <1>4, RecursiveRemoveKeepsIInv
<1>5. CASE UNCHANGED vars
  <2>1. map' = map /\ content' = content /\ cutShort' = cutShort
    BY <1>5 DEF vars
  <2> QED
    BY <2>1 DEF IInv
<1> QED
  BY <1>1, <1>2, <1>3, <1>4, <1>5 DEF Next

\* The disk stays sound whatever calls are made, for any geometry of the disk, any
\* names and sizes, and any depth of the directories: each operation of FileSystem,
\* whether it succeeds, fails or is aborted, keeps the invariant, unless a recursive
\* removal was aborted after it had removed something.
THEOREM DiskStaysSound == Spec => []IInv
<1> QED
  BY InitIInv, NextIInv, PTL DEF Spec

\* The invariant is strong enough for both properties.
LEMMA IInvOwned == IInv => EachSectorOneOwner
<1> SUFFICES ASSUME IInv, ~cutShort PROVE EachSectorOneOwner
  BY DEF EachSectorOneOwner
<1>1. PICK H, D : Sound(content, map, H, D, {})
  BY DEF IInv, Consistent
<1> QED
  BY <1>1, SoundIsOwned DEF IInv

\* The invariant implies the type invariant.
LEMMA IInvTypeOK == IInv => TypeOK
<1> SUFFICES ASSUME IInv PROVE TypeOK
  OBVIOUS
<1>1. map \subseteq Sector /\ cutShort \in BOOLEAN /\ content \in Content
  BY DEF IInv
<1>2. DOMAIN content = Sector /\ \A s \in Sector : content[s].kind \in {"header", "table", "data"}
  BY <1>1 DEF Content, Header, Data
<1>3. ASSUME ~cutShort PROVE \A f, g \in Entries : f.path = g.path => f = g
  <2>1. PICK H, D : Sound(content, map, H, D, {})
    BY <1>3 DEF IInv, Consistent
  <2> QED
    BY <2>1, SoundIsOwned DEF IInv
<1> QED
  BY <1>1, <1>2, <1>3 DEF TypeOK

\* No sector is ever in two files, twice in one, or in a file and not marked
\* (FileHeader::Allocate and Deallocate, the bitmap, the directories).
THEOREM SectorsHaveOneOwner == Spec => []EachSectorOneOwner
<1> QED
  BY DiskStaysSound, IInvOwned, PTL

\* Sectors, headers and tables are what they should be, and no path leads to two
\* files (Directory::Add).
THEOREM TypeCorrect == Spec => []TypeOK
<1> QED
  BY DiskStaysSound, IInvTypeOK, PTL

-------------------------------------------------------------------------------
(* What an open file writes *)

\* The way along p is that to its parent and one step more.
LEMMA LastOnPath ==
  ASSUME NEW w, NEW p \in Seq(Name), p # <<>>, NEW f, f = FindPath(w, Seqs!Front(p))
  PROVE  FindPath(w, p) = NextOnPath(w, f, Seqs!Last(p))
<1> DEFINE n == Len(p)
           r == Seqs!Front(p)
           a == OnPath(w, r)
           b == OnPath(w, p)
           A == {i \in Nat : b[i] = a[i]}
<1>1. n \in Nat \ {0} /\ Len(r) = n - 1 /\ \A i \in 1 .. n - 1 : r[i] = p[i]
  BY FrontIs
<1>2. /\ b[0] = DirectorySector
      /\ \A i \in 0 .. n - 1 : b[i + 1] = NextOnPath(w, b[i], p[i + 1])
  <2>1. n \in Nat /\ n = Len(p)
    BY <1>1
  <2> QED
    BY <2>1, OnPathIs
<1>3. /\ a[0] = DirectorySector
      /\ \A i \in 0 .. (n - 1) - 1 : a[i + 1] = NextOnPath(w, a[i], r[i + 1])
  <2> HIDE DEF r
  <2>1. n - 1 \in Nat /\ n - 1 = Len(r)
    BY <1>1
  <2> QED
    BY <2>1, OnPathIs
<1>4. f = a[n - 1] /\ FindPath(w, p) = b[n] /\ Seqs!Last(p) = p[n]
  BY <1>1 DEF FindPath, Seqs!Last
<1> HIDE DEF a, b, r
<1>5. 0 \in A
  BY <1>2, <1>3
<1>6. ASSUME NEW i \in 0 .. (n - 1) - 1, i \in A PROVE i + 1 \in A
  <2>1. i \in 0 .. n - 1 /\ i + 1 \in 1 .. n - 1 /\ i + 1 \in Nat
    BY <1>1
  <2>2. r[i + 1] = p[i + 1] /\ b[i] = a[i]
    BY <1>1, <1>6, <2>1
  <2> QED
    BY <1>2, <1>3, <2>1, <2>2
<1>7. n - 1 \in A
  <2> DEFINE l == n - 1
  <2>1. A \in SUBSET Nat /\ l \in Nat /\ l \in 0 .. l
    BY <1>1
  <2>2. \A i \in 0 .. l - 1 : i \in A => i + 1 \in A
    BY <1>6
  <2> HIDE DEF A, l
  <2>3. \A i \in 0 .. l : i \in A
    BY <1>5, <2>1, <2>2, InductionUpTo
  <2> QED
    BY <2>1, <2>3 DEF l
<1> QED
  <2>1. n - 1 \in 0 .. n - 1 /\ (n - 1) + 1 = n
    BY <1>1
  <2> QED
    BY <1>2, <1>4, <1>7, <2>1

\* What FindPath finds is the header of a file or directory in use.
LEMMA FindPathIs ==
  ASSUME NEW H, NEW D, SoundDisk(H, D), NEW p \in Path, ~ThroughFile(Disk, p),
         NEW s, s = FindPath(Disk, p), s \in Sector
  PROVE  s \in H
<1> DEFINE w == Disk
           x == Seqs!Last(p)
           f == FindPath(w, Seqs!Front(p))
           e == FetchTable(w, f)
<1>1. p \in Seq(Name) /\ p # <<>>
  BY LastIs
<1>2. w.content = content /\ Sound(w.content, map, H, D, {})
  BY DEF SoundDisk
<1>3. s = NextOnPath(w, f, x)
  BY <1>1, LastOnPath
<1>4. f \in D \/ f = -1 \/ f = -2
  BY <1>1, <1>2, ParentIs
<1>5. ~(s < 0)
  BY DEF Sector
<1> HIDE DEF w, x, f
<1>6. f \in D /\ ~Unreadable(w, f) /\ s = Find(e, x)
  <2>1. ~(f < 0)
    BY <1>3, <1>5 DEF NextOnPath
  <2>2. f \in D
    BY <1>4, <2>1
  <2> QED
    BY <1>3, <1>5, <2>1, <2>2 DEF NextOnPath
<1>7. e \in EntryTable /\ e = TableOf(w.content, f) /\ \A k \in Index : Used(w.content, f, k) <=> e[k].inUse
  BY <1>2, <1>6, TableRead
<1> HIDE DEF e
<1> DEFINE k == FindIndex(e, x)
<1>8. k # 0 /\ s = e[k].sector
  BY <1>5, <1>6 DEF Find
<1>9. k \in Index /\ e[k].inUse
  <2>1. \A l : l = FindIndex(e, x) /\ l # 0 => l \in Index /\ e[l].inUse
    BY <1>7, FindIndexIs
  <2> QED
    BY <1>8, <2>1
<1> HIDE DEF k
<1>10. Live(w.content, H, D, f, k)
  BY <1>2, <1>6, <1>7, <1>9 DEF Sound, SoundTables
<1> QED
  BY <1>7, <1>8, <1>10 DEF Live, Top, Target

\* Each file that can be opened has a header in use; its blocks are where it is read and written.
LEMMA IInvWrites == IInv => WritesChangeTheirBytes
<1> SUFFICES ASSUME IInv, NEW p \in Path, Legal(p), NEW o \in Open(Disk, p),
                    Complete(content, o.hdr)
             PROVE  LET blocks == BlocksOf(content, FindPath(Disk, p))
                    IN  /\ Laid(content, o.hdr, blocks)
                        /\ \A pos \in 0 .. o.hdr.numBytes, n \in 0 .. o.hdr.numBytes + 1 :
                             WriteIsExact(OldBytes, content, o.hdr, blocks, pos, NewBytes(n))
  BY DEF WritesChangeTheirBytes
<1> DEFINE s == FindPath(Disk, p)
           h == o.hdr
           blocks == BlocksOf(content, s)
<1>1. ~cutShort /\ ~ThroughFile(Disk, p)
  BY DEF Legal
<1>2. PICK H, D : SoundDisk(H, D)
  BY <1>1, DiskIsSound
<1>3. s \in Sector /\ h = content[s]
  <2>1. Disk.content = content
    BY <1>2 DEF SoundDisk
  <2> QED
    BY <2>1 DEF Open, Opened
<1>4. s \in H
  BY <1>1, <1>2, <1>3, FindPathIs
<1>5. Shape(content, H)
  BY <1>2, SoundShape DEF SoundDisk, Sound
<1> HIDE DEF s
<1>6. Laid(content, h, blocks)
  BY <1>3, <1>4, <1>5, CompleteIsLaid
<1> HIDE DEF h, blocks
<1>7. ASSUME NEW pos \in 0 .. h.numBytes, NEW n \in 0 .. h.numBytes + 1
      PROVE  WriteIsExact(OldBytes, content, h, blocks, pos, NewBytes(n))
  <2>1. h.numBytes \in Nat
    BY <1>6 DEF Laid
  <2>2. pos \in Nat /\ n \in Nat
    BY <2>1
  <2> DEFINE Byte == {<<"new", i>> : i \in 1 .. n}
  <2>3. NewBytes(n) \in Seq(Byte)
    <3>1. NewBytes(n) \in [1 .. n -> Byte]
      BY DEF NewBytes
    <3> HIDE DEF Byte
    <3> QED
      BY <2>2, <3>1
  <2> HIDE DEF Byte
  <2>4. SectorSize \in Nat \ {0}
    BY Limits
  <2> QED
    BY <1>6, <2>2, <2>3, <2>4, WritesAreExact
<1> QED
  BY <1>6, <1>7 DEF h, blocks, s

\* A file that can be opened and has all its blocks is written exactly: these bytes of it and no other
\* on the disk (OpenFile::WriteAt, FileHeader::ByteToSector), whatever calls were made before.
THEOREM WritesStayInTheFile == Spec => []WritesChangeTheirBytes
<1> QED
  BY DiskStaysSound, IInvWrites, PTL

-------------------------------------------------------------------------------
(* The tree of files *)

\* The first names of a path.
Names1(p, i) == SubSeq(p, 1, i)

\* The first i names of a path.
LEMMA Names1Is ==
  ASSUME NEW p \in Seq(Name), NEW i \in 0 .. Len(p)
  PROVE  /\ Names1(p, i) \in Seq(Name) /\ Len(Names1(p, i)) = i
         /\ \A j \in 1 .. i : Names1(p, i)[j] = p[j]
         /\ i < Len(p) => Names1(p, i + 1) = Append(Names1(p, i), p[i + 1])
         /\ Names1(p, 0) = <<>> /\ Names1(p, Len(p)) = p
<1>0. Len(p) \in Nat /\ \A j \in 1 .. Len(p) : p[j] \in Name
  BY ElementOfSeq, LenProperties
<1>1. ASSUME NEW n \in 0 .. Len(p)
      PROVE  /\ Names1(p, n) \in Seq(Name) /\ Len(Names1(p, n)) = n
             /\ \A j \in 1 .. n : Names1(p, n)[j] = p[j]
  <2>1. \A j \in 1 .. n : p[j] \in Name
    BY <1>0
  <2>2. n \in Int /\ 1 \in Int
    BY <1>0
  <2> QED
    BY <1>0, <2>1, <2>2, SubSeqProperties DEF Names1
<1>2. ASSUME i < Len(p) PROVE Names1(p, i + 1) = Append(Names1(p, i), p[i + 1])
  <2>1. i + 1 \in 0 .. Len(p) /\ i + 1 \in 1 .. Len(p)
    BY <1>0, <1>2
  <2> DEFINE r == Append(Names1(p, i), p[i + 1])
  <2>2. p[i + 1] \in Name
    BY <1>0, <2>1
  <2>3. /\ r \in Seq(Name) /\ Len(r) = i + 1 /\ r[i + 1] = p[i + 1]
        /\ \A j \in 1 .. i : r[j] = p[j]
    BY <1>1, <2>2, AppendIs
  <2>4. /\ Names1(p, i + 1) \in Seq(Name) /\ Len(Names1(p, i + 1)) = i + 1
        /\ \A j \in 1 .. i + 1 : Names1(p, i + 1)[j] = p[j]
    BY <1>1, <2>1
  <2> HIDE DEF r
  <2>5. \A j \in 1 .. i + 1 : Names1(p, i + 1)[j] = r[j]
    BY <2>3, <2>4
  <2>6. Names1(p, i + 1) = r
    BY <2>3, <2>4, <2>5, SeqEqual
  <2> QED
    BY <2>6 DEF r
<1>3. Names1(p, 0) = <<>>
  BY <1>0, SubSeqEmpty DEF Names1
<1>4. Names1(p, Len(p)) = p
  BY SubSeqFull DEF Names1
<1> QED
  BY <1>1, <1>2, <1>3, <1>4

\* Paths with the same m names begin with the same m names.
LEMMA Names1Same ==
  ASSUME NEW p \in Seq(Name), NEW r \in Seq(Name), NEW m \in 0 .. Len(p), m \in 0 .. Len(r),
         \A j \in 1 .. m : p[j] = r[j]
  PROVE  Names1(p, m) = Names1(r, m)
<1>1. /\ Names1(p, m) \in Seq(Name) /\ Len(Names1(p, m)) = m
      /\ \A j \in 1 .. m : Names1(p, m)[j] = p[j]
  BY Names1Is
<1>2. /\ Names1(r, m) \in Seq(Name) /\ Len(Names1(r, m)) = m
      /\ \A j \in 1 .. m : Names1(r, m)[j] = r[j]
  BY Names1Is
<1> DEFINE s == Names1(p, m)
           t == Names1(r, m)
<1> HIDE DEF s, t
<1>3. s \in Seq(Name) /\ t \in Seq(Name) /\ Len(s) = m /\ Len(t) = m /\ \A j \in 1 .. m : s[j] = t[j]
  BY <1>1, <1>2 DEF s, t
<1>4. s = t
  BY <1>3, SeqEqual
<1> QED
  BY <1>4 DEF s, t

\* One path begins with another.
LEMMA PrefixIs ==
  ASSUME NEW s \in Seq(Name), NEW t \in Seq(Name)
  PROVE  Seqs!IsPrefix(s, t) <=> (Len(s) <= Len(t) /\ s = Names1(t, Len(s)))
BY SubSeqFull DEF Seqs!IsPrefix, Names1

\* f is the file of entry k of the directory at path p, to which the directories
\* q lead.
At(c, D, f, q, p, k) ==
  /\ p \in Seq(Name) /\ Chain(c, D, q, p, Len(p)) /\ k \in Index
  /\ Used(c, q[Len(p)], k) /\ f = EntryFile(c, p, q[Len(p)], k)

\* The directories on the way.
DirectoryOn(q, p, i) == [path |-> Names1(p, i), sector |-> q[i], isDirectory |-> TRUE]

\* What EntriesIn finds is at a place of the tree.
LEMMA FoundIsAt ==
  ASSUME NEW c, NEW M, NEW H, NEW D, Sound(c, M, H, D, {}), NEW n, n = Tables(c),
         NEW i \in 0 .. n, NEW f \in Reached(c)[i], f # Root
  PROVE  \E q, p, k : At(c, D, f, q, p, k)
<1> DEFINE R == Reached(c)
           IsAt(g) == \E q, p, k : At(c, D, g, q, p, k)
           Good == {j \in Nat : \A g \in R[j] : g # Root => IsAt(g)}
<1>0. n \in Nat
  BY TablesType
<1>1. /\ R[0] = {Root}
      /\ \A j \in 0 .. n - 1 : R[j + 1] =
           {Root} \cup UNION {EntriesOf(c, g) : g \in {g \in R[j] : g.isDirectory}}
  BY <1>0, ReachedIs
<1>2. SoundTables(c, M, H, D, {})
  BY DEF Sound
<1>3. \A j \in 0 .. n : FoundWell(c, H, D, R[j], IF j = 0 THEN {} ELSE R[j - 1])
  BY FilesFound
<1> HIDE DEF R, IsAt
<1>4. 0 \in Good
  BY <1>1
<1>5. ASSUME NEW j \in 0 .. n - 1, j \in Good PROVE j + 1 \in Good
  <2> SUFFICES ASSUME NEW g \in R[j + 1], g # Root PROVE IsAt(g)
    OBVIOUS
  <2>1. PICK d \in R[j] : d.isDirectory /\ g \in EntriesOf(c, d)
    BY <1>1
  <2>2. d.sector \in D /\ d.path \in Seq(Name)
    BY <1>0, <1>3, <2>1 DEF FoundWell
  <2>3. PICK k \in Index : Used(c, d.sector, k) /\ g = EntryFile(c, d.path, d.sector, k)
    BY <1>2, <2>1, <2>2, EntriesAre
  <2>4. \E q : Chain(c, D, q, d.path, Len(d.path)) /\ q[Len(d.path)] = d.sector
    <3>1. CASE d = Root
      <4>1. d.path = <<>> /\ d.sector = DirectorySector
        BY <3>1 DEF Root
      <4> DEFINE q == [l \in Nat |-> DirectorySector]
      <4>2. Chain(c, D, q, d.path, 0) /\ q[0] = DirectorySector
        BY ChainStarts
      <4>3. Len(d.path) = 0
        BY <4>1
      <4> HIDE DEF q
      <4> QED
        BY <4>1, <4>2, <4>3
    <3>2. CASE d # Root
      <4>1. IsAt(d)
        BY <1>5, <3>2
      <4>2. PICK q, p, l : At(c, D, d, q, p, l)
        BY <4>1 DEF IsAt
      <4> DEFINE m == Len(p)
                 x == TableOf(c, q[m])[l].name
      <4>3. /\ p \in Seq(Name) /\ Chain(c, D, q, p, m) /\ l \in Index /\ m \in Nat
            /\ Used(c, q[m], l) /\ d = EntryFile(c, p, q[m], l)
        BY <4>2, LenProperties DEF At
      <4>4. q[m] \in D
        BY <4>3 DEF Chain
      <4>5. x \in Name
        BY <1>2, <4>3, <4>4 DEF SoundTables
      <4>6. d.path = Append(p, x) /\ d.sector = Target(c, q[m], l) /\ TableOf(c, q[m])[l].isDirectory
        BY <2>1, <4>3 DEF EntryFile
      <4>7. /\ Len(d.path) = m + 1 /\ d.path[m + 1] = x /\ \A i1 \in 1 .. m : d.path[i1] = p[i1]
        BY <4>3, <4>6, AppendIs
      <4>8. Link(c, q[m], d.path[m + 1], d.sector)
        BY <4>3, <4>6, <4>7 DEF Link
      <4> DEFINE g1 == d.sector
                 r  == d.path
      <4>9. /\ m \in Nat /\ Chain(c, D, q, p, m) /\ g1 \in D /\ Link(c, q[m], r[m + 1], g1)
            /\ \A j1 \in 1 .. m : r[j1] = p[j1]
        BY <2>2, <4>3, <4>7, <4>8
      <4> HIDE DEF m, x, g1, r
      <4>10. \E u : Chain(c, D, u, r, m + 1) /\ u[m + 1] = g1
        BY <4>9, ChainGrows
      <4> QED
        BY <4>7, <4>10 DEF r, g1
    <3> QED
      BY <3>1, <3>2
  <2>5. PICK q : Chain(c, D, q, d.path, Len(d.path)) /\ q[Len(d.path)] = d.sector
    BY <2>4
  <2>6. At(c, D, g, q, d.path, k)
    BY <2>2, <2>3, <2>5 DEF At
  <2> QED
    BY <2>6 DEF IsAt
<1>6. \A j \in 0 .. n : j \in Good
  <2>1. Good \in SUBSET Nat
    OBVIOUS
  <2> HIDE DEF Good
  <2> QED
    BY <1>0, <1>4, <1>5, <2>1, InductionUpTo
<1> QED
  BY <1>6 DEF R, IsAt

\* The directories on a way all have tables: it is not longer than there are.
LEMMA ChainIsShort ==
  ASSUME NEW c, NEW M, NEW H, NEW D, Sound(c, M, H, D, {}),
         NEW q, NEW p, NEW n \in Nat, Chain(c, D, q, p, n), FirstOf(c, q[n]) \in Sector
  PROVE  n + 1 <= Tables(c)
<1> DEFINE T == {t \in Sector : c[t].kind = "table"}
           f == [i \in 0 .. n |-> FirstOf(c, q[i])]
<1>1. SoundTables(c, M, H, D, {})
  BY DEF Sound
<1>2. ASSUME NEW i \in 0 .. n PROVE q[i] \in D /\ FirstOf(c, q[i]) \in Sector
  <2>1. q[i] \in D
    BY DEF Chain
  <2>2. CASE i = n
    BY <2>1, <2>2
  <2>3. CASE i # n
    <3>1. i + 1 \in 1 .. n /\ (i + 1) - 1 = i
      BY <2>3
    <3>2. Link(c, q[i], p[i + 1], q[i + 1])
      BY <3>1 DEF Chain
    <3> QED
      BY <2>1, <3>2 DEF Link, Used
  <2> QED
    BY <2>2, <2>3
<1>3. \A i \in 0 .. n : f[i] \in T
  <2> TAKE i \in 0 .. n
  <2>1. c[FirstOf(c, q[i])] \in TableRecord
    BY <1>1, <1>2 DEF SoundTables
  <2>2. c[FirstOf(c, q[i])].kind = "table"
    BY <2>1 DEF TableRecord
  <2> QED
    BY <1>2, <2>2
<1>4. \A i, j \in 0 .. n : f[i] = f[j] => i = j
  <2> SUFFICES ASSUME NEW i \in 0 .. n, NEW j \in 0 .. n, FirstOf(c, q[i]) = FirstOf(c, q[j])
               PROVE  i = j
    OBVIOUS
  <2>1. q[i] = q[j]
    BY <1>2, TablesApart
  <2> QED
    BY <2>1 DEF Chain
<1>5. IsFiniteSet(T)
  <2>1. IsFiniteSet(Sector)
    BY Limits, FS_Interval DEF Sector
  <2> QED
    BY <2>1, FS_Subset
<1>6. f \in [0 .. n -> T]
  BY <1>3
<1> HIDE DEF T, f
<1>7. f \in Injection(0 .. n, T)
  BY <1>4, <1>6 DEF Injection, IsInjective
<1>8. Cardinality(0 .. n) <= Cardinality(T)
  BY <1>5, <1>7, FS_Injection
<1>9. Cardinality(0 .. n) = n + 1
  BY FS_Interval
<1> QED
  BY <1>8, <1>9 DEF T, Tables

\* Where directories lead to an entry its file is found.
LEMMA AtIsFound ==
  ASSUME NEW c, NEW M, NEW H, NEW D, Sound(c, M, H, D, {}),
         NEW q, NEW p, NEW k, NEW f, At(c, D, f, q, p, k)
  PROVE  f \in EntriesIn(c)
<1> DEFINE R == Reached(c)
           n == Tables(c)
           m == Len(p)
           Good == {i \in Nat : \A j \in i .. n : DirectoryOn(q, p, i) \in R[j]}
<1>0. n \in Nat
  BY TablesType
<1>1. /\ R[0] = {Root}
      /\ \A j \in 0 .. n - 1 : R[j + 1] =
           {Root} \cup UNION {EntriesOf(c, g) : g \in {g \in R[j] : g.isDirectory}}
  BY <1>0, ReachedIs
<1>2. SoundTables(c, M, H, D, {})
  BY DEF Sound
<1>3. /\ p \in Seq(Name) /\ Chain(c, D, q, p, m) /\ k \in Index /\ m \in Nat
      /\ Used(c, q[m], k) /\ f = EntryFile(c, p, q[m], k)
  BY LenProperties DEF At
<1>4. m + 1 <= n
  BY <1>3, ChainIsShort DEF Used
<1> HIDE DEF R, n, m
<1>5. ASSUME NEW d, d.sector \in D, d.isDirectory, NEW l \in Index, Used(c, d.sector, l),
             NEW j \in 0 .. n - 1, d \in R[j]
      PROVE  EntryFile(c, d.path, d.sector, l) \in R[j + 1]
  <2>1. EntryFile(c, d.path, d.sector, l) \in EntriesOf(c, d)
    BY <1>2, <1>5, EntriesAre
  <2> QED
    BY <1>1, <1>5, <2>1
<1>6. 0 \in Good
  <2>1. DirectoryOn(q, p, 0) = Root
    <3>1. 0 \in 0 .. Len(p) /\ q[0] = DirectorySector
      BY <1>3 DEF Chain, m
    <3>2. Names1(p, 0) = <<>>
      BY <1>3, <3>1, Names1Is
    <3> QED
      BY <3>1, <3>2 DEF DirectoryOn, Root
  <2>2. \A j \in 0 .. n : Root \in R[j]
    <3> TAKE j \in 0 .. n
    <3>1. CASE j = 0
      BY <1>1, <3>1
    <3>2. CASE j # 0
      <4>1. j - 1 \in 0 .. n - 1 /\ (j - 1) + 1 = j
        BY <1>0, <3>2
      <4> QED
        BY <1>1, <4>1
    <3> QED
      BY <3>1, <3>2
  <2> QED
    BY <2>1, <2>2
<1>7. ASSUME NEW i \in 0 .. m - 1, i \in Good PROVE i + 1 \in Good
  <2> SUFFICES ASSUME NEW j \in i + 1 .. n PROVE DirectoryOn(q, p, i + 1) \in R[j]
    BY <1>7
  <2>1. j - 1 \in i .. n /\ j - 1 \in 0 .. n - 1 /\ (j - 1) + 1 = j
    BY <1>0, <1>3
  <2>2. DirectoryOn(q, p, i) \in R[j - 1]
    BY <1>7, <2>1
  <2>3. i + 1 \in 1 .. m /\ (i + 1) - 1 = i /\ i \in 0 .. m /\ i < Len(p) /\ i \in 0 .. Len(p)
    BY <1>3 DEF m
  <2>4. Link(c, q[i], p[i + 1], q[i + 1]) /\ q[i] \in D
    BY <1>3, <2>3 DEF Chain
  <2>5. PICK l \in Index : /\ Used(c, q[i], l) /\ TableOf(c, q[i])[l].name = p[i + 1]
                           /\ TableOf(c, q[i])[l].isDirectory /\ Target(c, q[i], l) = q[i + 1]
    BY <2>4 DEF Link
  <2>6. TableOf(c, q[i])[l].isDirectory = TRUE
    <3>1. c[FirstOf(c, q[i])] \in TableRecord
      BY <1>2, <2>4, <2>5 DEF SoundTables, Used
    <3>2. TableOf(c, q[i])[l] \in Entry
      BY <3>1 DEF TableOf, TableRecord
    <3>3. TableOf(c, q[i])[l].isDirectory \in BOOLEAN
      BY <3>2 DEF Entry
    <3> QED
      BY <2>5, <3>3
  <2>7. Names1(p, i + 1) = Append(Names1(p, i), p[i + 1])
    BY <1>3, <2>3, Names1Is
  <2> DEFINE d == DirectoryOn(q, p, i)
  <2>8. d.sector = q[i] /\ d.path = Names1(p, i) /\ d.isDirectory
    BY DEF DirectoryOn
  <2>9. EntryFile(c, Names1(p, i), q[i], l) = DirectoryOn(q, p, i + 1)
    BY <2>5, <2>6, <2>7 DEF EntryFile, DirectoryOn
  <2> HIDE DEF d
  <2>10. d \in R[j - 1] /\ Used(c, d.sector, l) /\ d.sector \in D
    BY <2>2, <2>4, <2>5, <2>8 DEF d
  <2>11. EntryFile(c, d.path, d.sector, l) \in R[(j - 1) + 1]
    BY <1>5, <2>1, <2>8, <2>10
  <2> QED
    BY <2>1, <2>8, <2>9, <2>11
<1>8. \A i \in 0 .. m : i \in Good
  <2>1. Good \in SUBSET Nat
    OBVIOUS
  <2> HIDE DEF Good
  <2> QED
    BY <1>3, <1>6, <1>7, <2>1, InductionUpTo
<1>9. n - 1 \in m .. n /\ n - 1 \in 0 .. n - 1 /\ (n - 1) + 1 = n /\ m \in 0 .. m
  BY <1>0, <1>3, <1>4
<1> DEFINE d == DirectoryOn(q, p, m)
<1>10. d \in R[n - 1]
  BY <1>8, <1>9
<1>11. d.sector = q[m] /\ d.path = p /\ d.isDirectory
  BY <1>3, Names1Is DEF DirectoryOn, m
<1>12. q[m] \in D
  BY <1>3 DEF Chain
<1> HIDE DEF d
<1>13. EntryFile(c, d.path, d.sector, k) \in R[n]
  BY <1>3, <1>5, <1>9, <1>10, <1>11, <1>12
<1>14. f \in R[n]
  BY <1>3, <1>11, <1>13
<1>15. f # Root
  <2>1. f.path = Append(p, TableOf(c, q[m])[k].name)
    BY <1>3 DEF EntryFile
  <2>2. Len(f.path) = Len(p) + 1
    BY <1>3, <2>1, AppendIs
  <2>3. Len(Root.path) = 0
    BY DEF Root
  <2> QED
    BY <1>3, <2>2, <2>3 DEF m
<1> QED
  BY <1>14, <1>15 DEF EntriesIn, R, n

\* What is found in the tree are the files that directories lead to.
LEMMA TreeIs ==
  ASSUME NEW c, NEW M, NEW H, NEW D, Sound(c, M, H, D, {})
  PROVE  \A f : f \in EntriesIn(c) <=> \E q, p, k : At(c, D, f, q, p, k)
<1>1. Tables(c) \in 0 .. Tables(c)
  BY TablesType
<1>2. \A f : f \in EntriesIn(c) => \E q, p, k : At(c, D, f, q, p, k)
  BY <1>1, FoundIsAt DEF EntriesIn
<1> QED
  BY <1>2, AtIsFound

-------------------------------------------------------------------------------
(* Disks that agree *)

\* The tables of directories are in marked sectors: where the marked sectors are
\* the same the entries are.
LEMMA UsedSame ==
  ASSUME NEW c, NEW M, NEW H, NEW D, Sound(c, M, H, D, {}), NEW b, \A y \in M : b[y] = c[y],
         NEW d \in D
  PROVE  \A k \in Index : /\ Used(b, d, k) <=> Used(c, d, k)
                          /\ Used(c, d, k) => TableOf(b, d) = TableOf(c, d)
<1>1. d \in H /\ d \in M /\ Names(c[d], H, M \ {FreeMapSector, DirectorySector})
  BY DEF Sound, SoundTables, SoundHeaders
<1>2. FirstOf(b, d) = FirstOf(c, d)
  BY <1>1 DEF FirstOf
<1>3. 0 \in Direct
  BY Limits DEF Direct
<1>4. FirstOf(c, d) \in Sector => FirstOf(c, d) \in M
  BY <1>1, <1>3 DEF FirstOf, Names
<1>5. FirstOf(c, d) \in Sector => TableOf(b, d) = TableOf(c, d)
  BY <1>2, <1>4 DEF TableOf
<1> QED
  BY <1>2, <1>5 DEF Used

\* A place stays one as long as the sectors in use keep what they hold.
LEMMA AtSame ==
  ASSUME NEW c, NEW M, NEW H, NEW D, Sound(c, M, H, D, {}), NEW b, \A y \in M : b[y] = c[y],
         NEW f, NEW q, NEW p, NEW k, At(c, D, f, q, p, k)
  PROVE  At(b, D, f, q, p, k)
<1> DEFINE n == Len(p)
<1>1. /\ p \in Seq(Name) /\ Chain(c, D, q, p, n) /\ k \in Index /\ n \in Nat
      /\ Used(c, q[n], k) /\ f = EntryFile(c, p, q[n], k)
  BY LenProperties DEF At
<1>2. \A j \in 0 .. n : q[j] \in D
  BY <1>1 DEF Chain
<1>3. n \in 0 .. n
  BY <1>1
<1>4. Used(b, q[n], k) /\ TableOf(b, q[n]) = TableOf(c, q[n])
  BY <1>1, <1>2, <1>3, UsedSame
<1>5. f = EntryFile(b, p, q[n], k)
  BY <1>1, <1>4 DEF EntryFile, Target
<1>6. \A j \in 0 .. n - 1, l \in Index : SameEntry(c, b, q[j], l)
  <2> TAKE j \in 0 .. n - 1, l \in Index
  <2>1. q[j] \in D
    BY <1>1, <1>2
  <2> QED
    BY <2>1, UsedSame DEF SameEntry
<1>7. Chain(b, D, q, p, n)
  BY <1>1, <1>2, <1>6, ChainKept
<1> QED
  BY <1>1, <1>4, <1>5, <1>7 DEF At

\* Then the same files are found.
LEMMA TreeSame ==
  ASSUME NEW c, NEW M, NEW H, NEW D, Sound(c, M, H, D, {}), NEW b, \A y \in M : b[y] = c[y]
  PROVE  /\ Sound(b, M, H, D, {}) /\ EntriesIn(b) = EntriesIn(c)
         /\ FilesIn(b) = FilesIn(c)
<1>1. Sound(b, M, H, D, {})
  <2>1. M \in SUBSET Sector
    BY DEF Sound, SoundHeaders
  <2> QED
    BY <2>1, SoundOn
<1>2. \A f, q, p, k : At(c, D, f, q, p, k) => At(b, D, f, q, p, k)
  BY AtSame
<1>3. \A f, q, p, k : At(b, D, f, q, p, k) => At(c, D, f, q, p, k)
  <2>1. \A y \in M : c[y] = b[y]
    OBVIOUS
  <2> QED
    BY <1>1, <2>1, AtSame
<1>4. \A f : f \in EntriesIn(b) <=> f \in EntriesIn(c)
  <2>1. \A f : f \in EntriesIn(c) <=> \E q, p, k : At(c, D, f, q, p, k)
    BY TreeIs
  <2>2. \A f : f \in EntriesIn(b) <=> \E q, p, k : At(b, D, f, q, p, k)
    BY <1>1, TreeIs
  <2> QED
    BY <1>2, <1>3, <2>1, <2>2
<1>5. EntriesIn(b) = EntriesIn(c)
  BY <1>4
<1> QED
  BY <1>1, <1>5 DEF FilesIn

\* Where the headers are the same, so are the places and sectors of each file.
LEMMA PlacesSame ==
  ASSUME NEW c, NEW b, NEW S, \A x \in S : b[x] = c[x]
  PROVE  /\ PlacesIn(b, S) = PlacesIn(c, S)
         /\ \A r \in PlacesIn(c, S) : Named(b, r) = Named(c, r)
         /\ SubHeadersOf(b, S) = SubHeadersOf(c, S)
<1>1. ASSUME NEW T, T \subseteq S
      PROVE  /\ PlacesIn(b, T) = PlacesIn(c, T)
             /\ \A r \in PlacesIn(c, T) : Named(b, r) = Named(c, r)
  <2> DEFINE P == UNION {{x} \X Slots(c[x]) : x \in T}
  <2>1. UNION {{x} \X Slots(b[x]) : x \in T} = P
    <3>1. \A x \in T : {x} \X Slots(b[x]) = {x} \X Slots(c[x])
      BY <1>1
    <3>2. {{x} \X Slots(b[x]) : x \in T} = {{x} \X Slots(c[x]) : x \in T}
      BY <3>1
    <3> QED
      BY <3>2
  <2>2. \A r \in P : r[1] \in T
    OBVIOUS
  <2>3. \A r \in P : Named(b, r) = Named(c, r)
    BY <1>1, <2>2 DEF Named
  <2>4. PlacesIn(b, T) = {r \in P : Named(b, r) \in Sector}
    BY <2>1 DEF PlacesIn
  <2>5. PlacesIn(c, T) = {r \in P : Named(c, r) \in Sector}
    BY DEF PlacesIn
  <2> HIDE DEF P
  <2> QED
    BY <2>3, <2>4, <2>5
<1> DEFINE T == {x \in S : Children(c[x]) > 0}
<1>2. {x \in S : Children(b[x]) > 0} = T
  OBVIOUS
<1>3. /\ PlacesIn(b, T) = PlacesIn(c, T)
      /\ \A r \in PlacesIn(c, T) : Named(b, r) = Named(c, r)
  <2>1. T \subseteq S
    OBVIOUS
  <2> HIDE DEF T
  <2> QED
    BY <1>1, <2>1
<1>4. SubHeadersOf(b, S) = {Named(b, r) : r \in PlacesIn(b, T)}
  BY <1>2 DEF SubHeadersOf
<1>5. SubHeadersOf(c, S) = {Named(c, r) : r \in PlacesIn(c, T)}
  BY DEF SubHeadersOf
<1> HIDE DEF T
<1>6. SubHeadersOf(b, S) = SubHeadersOf(c, S)
  BY <1>3, <1>4, <1>5
<1> QED
  BY <1>1, <1>6

\* A file keeps its places as long as the headers keep what they hold.
LEMMA LayoutSame ==
  ASSUME NEW c, NEW M, NEW H, SoundHeaders(c, M, H), NEW s \in H, NEW b, \A x \in H : b[x] = c[x]
  PROVE  Layout(b, s) = Layout(c, s) /\ SectorsOf(b, s) = SectorsOf(c, s)
<1>1. \A S : S \subseteq H => /\ SubHeadersOf(c, S) \subseteq H
                              /\ SubHeadersOf(b, S) = SubHeadersOf(c, S)
  <2> SUFFICES ASSUME NEW S, S \subseteq H
               PROVE  /\ SubHeadersOf(c, S) \subseteq H
                      /\ SubHeadersOf(b, S) = SubHeadersOf(c, S)
    OBVIOUS
  <2>1. \A x \in S : b[x] = c[x]
    OBVIOUS
  <2> QED
    BY <2>1, SubHeadersAre, PlacesSame
<1> DEFINE second == SubHeadersOf(c, {s})
           third  == SubHeadersOf(c, second)
           fourth == SubHeadersOf(c, third)
           G == HeadersOf(c, s)
<1>2. second \subseteq H /\ SubHeadersOf(b, {s}) = second
  BY <1>1
<1>3. third \subseteq H /\ SubHeadersOf(b, second) = third
  BY <1>1, <1>2
<1>4. fourth \subseteq H /\ SubHeadersOf(b, third) = fourth
  BY <1>1, <1>3
<1>5. G = {s} \cup second \cup third \cup fourth
  BY DEF HeadersOf
<1>6. HeadersOf(b, s) = G
  BY <1>2, <1>3, <1>4, <1>5 DEF HeadersOf
<1>7. \A x \in G : b[x] = c[x]
  BY <1>2, <1>3, <1>4, <1>5
<1> HIDE DEF G
<1>8. /\ PlacesIn(b, G) = PlacesIn(c, G)
      /\ \A r \in PlacesIn(c, G) : Named(b, r) = Named(c, r)
  BY <1>7, PlacesSame
<1>9. Layout(b, s) = Layout(c, s)
  <2>1. Layout(b, s) = [r \in PlacesIn(b, G) |-> Named(b, r)]
    BY <1>6 DEF Layout
  <2>2. Layout(c, s) = [r \in PlacesIn(c, G) |-> Named(c, r)]
    BY DEF Layout, G
  <2> QED
    BY <1>8, <2>1, <2>2
<1>10. SectorsOf(b, s) = SectorsOf(c, s)
  <2>1. SectorsOf(b, s) = {s} \cup {Named(b, r) : r \in PlacesIn(b, G)}
    BY <1>6 DEF SectorsOf
  <2>2. SectorsOf(c, s) = {s} \cup {Named(c, r) : r \in PlacesIn(c, G)}
    BY DEF SectorsOf, G
  <2> QED
    BY <1>8, <2>1, <2>2
<1> QED
  BY <1>9, <1>10

\* Files that are found on a sound disk where their headers are as they were are
\* kept.
LEMMA FilesKept ==
  ASSUME NEW M, NEW H, NEW D, Sound(content, M, H, D, {}), NEW F, F \subseteq Files,
         NEW v, NEW H2, NEW D2, Sound(v.content, v.onDisk, H2, D2, {}),
         F \subseteq FilesIn(v.content), \A x \in H : v.content[x] = content[x]
  PROVE  Kept(F, v)
<1> SUFFICES ASSUME NEW f \in F
             PROVE  /\ Layout(v.content, f.sector) = Layout(content, f.sector)
                    /\ Owned(f) \subseteq v.onDisk
  BY DEF Kept
<1>1. f.sector \in H
  BY FilesAreApart DEF Files, Top
<1>2. SoundHeaders(content, M, H) /\ SoundHeaders(v.content, v.onDisk, H2)
  BY DEF Sound
<1>3. /\ Layout(v.content, f.sector) = Layout(content, f.sector)
      /\ SectorsOf(v.content, f.sector) = SectorsOf(content, f.sector)
  BY <1>1, <1>2, LayoutSame
<1>4. Top(v.content, H2, f.sector)
  BY FilesAreApart
<1>5. SectorsOf(v.content, f.sector) \subseteq v.onDisk
  BY <1>2, <1>4, OwnersApart
<1> QED
  BY <1>3, <1>5 DEF Owned

-------------------------------------------------------------------------------
(* The tree without a file *)

\* A part of a way is a way along the same names.
LEMMA ChainOf ==
  ASSUME NEW c, NEW D, NEW q, NEW p, NEW n \in Nat, Chain(c, D, q, p, n), NEW m \in 0 .. n,
         NEW r, \A i \in 1 .. m : r[i] = p[i]
  PROVE  Chain(c, D, q, r, m)
BY DEF Chain

\* The directories on a way are found.
LEMMA DirectoryFound ==
  ASSUME NEW c, NEW M, NEW H, NEW D, Sound(c, M, H, D, {}), NEW p \in Seq(Name),
         NEW q, Chain(c, D, q, p, Len(p)), NEW j \in 1 .. Len(p)
  PROVE  DirectoryOn(q, p, j) \in EntriesIn(c)
<1> DEFINE i == j - 1
           r == Names1(p, i)
<1>1. /\ Len(p) \in Nat /\ i \in 0 .. Len(p) /\ i < Len(p) /\ i + 1 = j /\ j \in 0 .. Len(p)
  BY LenProperties
<1>2. /\ r \in Seq(Name) /\ Len(r) = i /\ \A l \in 1 .. i : r[l] = p[l]
      /\ Names1(p, j) = Append(r, p[j])
  <2> HIDE DEF i
  <2>1. Names1(p, i + 1) = Append(r, p[i + 1])
    BY <1>1, Names1Is
  <2> QED
    BY <1>1, <2>1, Names1Is
<1>3. Link(c, q[j - 1], p[j], q[j]) /\ q[i] \in D
  BY <1>1 DEF Chain
<1>4. PICK k \in Index : /\ Used(c, q[i], k) /\ TableOf(c, q[i])[k].name = p[j]
                         /\ TableOf(c, q[i])[k].isDirectory /\ Target(c, q[i], k) = q[j]
  BY <1>3 DEF Link
<1>5. TableOf(c, q[i])[k].isDirectory = TRUE
  <2>1. c[FirstOf(c, q[i])] \in TableRecord
    BY <1>3, <1>4 DEF Sound, SoundTables, Used
  <2>2. TableOf(c, q[i])[k] \in Entry
    BY <2>1 DEF TableOf, TableRecord
  <2>3. TableOf(c, q[i])[k].isDirectory \in BOOLEAN
    BY <2>2 DEF Entry
  <2> QED
    BY <1>4, <2>3
<1>6. DirectoryOn(q, p, j) = EntryFile(c, r, q[i], k)
  BY <1>2, <1>4, <1>5 DEF DirectoryOn, EntryFile
<1>7. Chain(c, D, q, r, i)
  <2> HIDE DEF i, r
  <2> QED
    BY <1>1, <1>2, ChainOf
<1>8. At(c, D, DirectoryOn(q, p, j), q, r, k)
  BY <1>2, <1>4, <1>6, <1>7 DEF At
<1> HIDE DEF r
<1> QED
  BY <1>8, AtIsFound

\* One way leads to a directory.
LEMMA OneWay ==
  ASSUME NEW c, NEW M, NEW H, NEW D, Sound(c, M, H, D, {}),
         NEW p \in Seq(Name), NEW q, Chain(c, D, q, p, Len(p)),
         NEW r \in Seq(Name), NEW u, Chain(c, D, u, r, Len(r)), q[Len(p)] = u[Len(r)]
  PROVE  p = r
<1>1. Len(p) \in Nat /\ Len(r) \in Nat
  BY LenProperties
<1>2. q[0] = DirectorySector /\ u[0] = DirectorySector
  BY DEF Chain
<1>3. Len(p) = 0 <=> Len(r) = 0
  <2>1. ASSUME Len(p) = 0 PROVE Len(r) = 0
    <3>1. u[Len(r)] = u[0]
      BY <1>2, <2>1
    <3> QED
      BY <1>1, <3>1 DEF Chain
  <2>2. ASSUME Len(r) = 0 PROVE Len(p) = 0
    <3>1. q[Len(p)] = q[0]
      BY <1>2, <2>2
    <3> QED
      BY <1>1, <3>1 DEF Chain
  <2> QED
    BY <2>1, <2>2
<1>4. CASE Len(p) = 0
  <2>1. Len(p) = Len(r) /\ \A i \in 1 .. Len(p) : p[i] = r[i]
    BY <1>3, <1>4
  <2> QED
    BY <2>1, SeqEqual
<1>5. CASE Len(p) # 0
  <2>1. Len(p) \in 1 .. Len(p) /\ Len(r) \in 1 .. Len(r)
    BY <1>1, <1>3, <1>5
  <2> DEFINE f == DirectoryOn(q, p, Len(p))
             g == DirectoryOn(u, r, Len(r))
  <2>2. f \in EntriesIn(c) /\ g \in EntriesIn(c)
    BY <2>1, DirectoryFound
  <2>3. f.sector = q[Len(p)] /\ g.sector = u[Len(r)] /\ f.path = Names1(p, Len(p))
        /\ g.path = Names1(r, Len(r))
    BY DEF DirectoryOn
  <2>4. f.path = p /\ g.path = r
    BY <1>1, <2>3, Names1Is
  <2> HIDE DEF f, g
  <2>5. f = g
    BY <2>2, <2>3, FilesAreApart DEF FilesIn
  <2> QED
    BY <2>4, <2>5
<1> QED
  BY <1>4, <1>5

\* A file removed: that of entry k of the directory dir at path p0.
TakenFrom(w, v, H, D, q0, p0, dir, e, k, H2, D2) ==
  /\ Removable(w, H, D, {}, dir, e, k) /\ e = TableOf(w.content, dir)
  /\ FileGone(w, v, H, D, {}, dir, e, k, H2, D2)
  /\ p0 \in Seq(Name) /\ Chain(w.content, D, q0, p0, Len(p0)) /\ q0[Len(p0)] = dir

\* Its entry is the only one that is not as it was.
LEMMA OtherEntries ==
  ASSUME NEW w, NEW v, NEW H, NEW D, NEW q0, NEW p0, NEW dir, NEW e, NEW k, NEW H2, NEW D2,
         TakenFrom(w, v, H, D, q0, p0, dir, e, k, H2, D2), NEW d \in D, NEW l \in Index
  PROVE  /\ ~Used(v.content, dir, k)
         /\ d # dir \/ l # k => /\ SameEntry(w.content, v.content, d, l)
                                /\ SameEntry(v.content, w.content, d, l)
<1> DEFINE c == w.content
           b == v.content
<1>1. /\ Removable(w, H, D, {}, dir, e, k) /\ e = TableOf(c, dir)
      /\ FileGone(w, v, H, D, {}, dir, e, k, H2, D2)
  BY DEF TakenFrom
<1>2. /\ dir \in D /\ k \in Index /\ e \in EntryTable /\ FirstOf(c, dir) \in Sector
  BY <1>1 DEF Removable
<1>3. /\ FirstOf(b, d) = FirstOf(c, d) /\ FirstOf(b, dir) = FirstOf(c, dir)
      /\ TableOf(b, dir) = Less(e, k)
      /\ d # dir => SameEntry(c, b, d, l)
  BY <1>1, <1>2, OthersKept
<1>4. ~Less(e, k)[k].inUse /\ \A i \in Index : i # k => Less(e, k)[i] = e[i]
  BY <1>2, LessIs
<1>5. ~Used(b, dir, k)
  BY <1>3, <1>4 DEF Used
<1>6. ASSUME d = dir, l # k PROVE SameEntry(c, b, d, l)
  BY <1>1, <1>3, <1>4, <1>6 DEF SameEntry, Used
<1>7. ASSUME SameEntry(c, b, d, l) PROVE SameEntry(b, c, d, l)
  BY <1>7 DEF SameEntry
<1> QED
  BY <1>3, <1>5, <1>6, <1>7

\* What is found after it was removed was found before, and not under it.
LEMMA NothingElseFound ==
  ASSUME NEW w, NEW v, NEW H, NEW D, NEW q0, NEW p0, NEW dir, NEW e, NEW k, NEW H2, NEW D2,
         TakenFrom(w, v, H, D, q0, p0, dir, e, k, H2, D2),
         NEW f0, f0 = EntryFile(w.content, p0, dir, k), NEW f \in EntriesIn(v.content)
  PROVE  f \in EntriesIn(w.content) /\ ~Seqs!IsPrefix(f0.path, f.path)
<1> DEFINE c == w.content
           b == v.content
           x0 == TableOf(c, dir)[k].name
<1>1. /\ Removable(w, H, D, {}, dir, e, k) /\ e = TableOf(c, dir)
      /\ FileGone(w, v, H, D, {}, dir, e, k, H2, D2)
      /\ p0 \in Seq(Name) /\ Chain(c, D, q0, p0, Len(p0)) /\ q0[Len(p0)] = dir
  BY DEF TakenFrom
<1>2. /\ Sound(c, w.onDisk, H, D, {}) /\ Sound(b, v.onDisk, H2, D2, {}) /\ D2 \subseteq D
      /\ Target(c, dir, k) \notin v.onDisk /\ dir \in D /\ k \in Index /\ Used(c, dir, k)
  BY <1>1 DEF Removable, FileGone
<1>3. PICK q, p, l : At(b, D2, f, q, p, l)
  BY <1>2, TreeIs
<1> DEFINE n == Len(p)
<1>4. /\ p \in Seq(Name) /\ Chain(b, D2, q, p, n) /\ l \in Index /\ n \in Nat /\ n \in 0 .. n
      /\ Used(b, q[n], l) /\ f = EntryFile(b, p, q[n], l)
  BY <1>3, LenProperties DEF At
<1>5. \A j \in 0 .. n : q[j] \in D2 /\ q[j] \in D /\ q[j] \in v.onDisk
  <2>1. \A j \in 0 .. n : q[j] \in D2
    BY <1>4 DEF Chain
  <2> QED
    BY <1>2, <2>1 DEF Sound, SoundTables, SoundHeaders
<1>6. \A d \in D, i \in Index : Used(b, d, i) => SameEntry(b, c, d, i)
  BY OtherEntries
<1>7. At(c, D, f, q, p, l)
  <2>1. \A j \in 0 .. n - 1, i \in Index :
          Used(b, q[j], i) /\ Target(b, q[j], i) = q[j + 1] => SameEntry(b, c, q[j], i)
    BY <1>4, <1>5, <1>6
  <2>2. Chain(c, D, q, p, n)
    <3> HIDE DEF n, b, c
    <3> QED
      BY <1>4, <1>5, <2>1, ChainKept
  <2>3. SameEntry(b, c, q[n], l)
    BY <1>4, <1>5, <1>6
  <2>4. Used(c, q[n], l) /\ TableOf(c, q[n])[l] = TableOf(b, q[n])[l]
    BY <1>4, <2>3 DEF SameEntry
  <2>5. f = EntryFile(c, p, q[n], l)
    BY <1>4, <2>4 DEF EntryFile, Target
  <2> QED
    BY <1>4, <2>2, <2>4, <2>5 DEF At
<1>8. f \in EntriesIn(c)
  BY <1>2, <1>7, AtIsFound
<1>9. f0 \in EntriesIn(c) /\ At(c, D, f0, q0, p0, k)
  <2>1. At(c, D, f0, q0, p0, k)
    BY <1>1, <1>2 DEF At
  <2> QED
    BY <1>2, <2>1, AtIsFound
<1>10. f0.sector \notin v.onDisk
  BY <1>2 DEF EntryFile
<1>11. f.sector \in v.onDisk
  <2>1. Live(b, H2, D2, q[n], l)
    BY <1>2, <1>4, <1>5 DEF Sound, SoundTables
  <2>2. Target(b, q[n], l) \in v.onDisk
    BY <1>2, <2>1 DEF Live, Top, Sound, SoundHeaders
  <2> QED
    BY <1>4, <2>2 DEF EntryFile
<1>12. ASSUME Seqs!IsPrefix(f0.path, f.path) PROVE FALSE
  <2> DEFINE m == Len(p0) + 1
             x == TableOf(b, q[n])[l].name
  <2>1. x \in Name /\ x0 \in Name
    BY <1>2, <1>4, <1>5 DEF Sound, SoundTables
  <2>2. f.path = Append(p, x) /\ f0.path = Append(p0, x0)
    BY <1>4 DEF EntryFile
  <2>3. /\ f.path \in Seq(Name) /\ Len(f.path) = n + 1 /\ \A i \in 1 .. n : f.path[i] = p[i]
        /\ f0.path \in Seq(Name) /\ Len(f0.path) = m
    BY <1>1, <1>4, <2>1, <2>2, AppendIs
  <2>4. m <= n + 1 /\ m \in Nat \ {0} /\ f0.path = Names1(f.path, m)
    BY <1>1, <1>12, <2>3, PrefixIs, LenProperties
  <2> HIDE DEF m, x, x0
  <2>5. CASE m = n + 1
    <3>1. f0.path = f.path
      BY <2>3, <2>4, <2>5, Names1Is
    <3>2. f = f0
      BY <1>2, <1>8, <1>9, <3>1, FilesAreApart
    <3> QED
      BY <1>10, <1>11, <3>2
  <2>6. CASE m <= n
    <3>1. m \in 1 .. n /\ m \in 0 .. Len(p) /\ m \in 0 .. Len(f.path) /\ m \in 0 .. n
      BY <1>4, <2>3, <2>4, <2>6
    <3>2. Names1(f.path, m) = Names1(p, m)
      <4>1. \A i \in 1 .. m : f.path[i] = p[i]
        BY <2>3, <3>1
      <4> QED
        BY <1>4, <2>3, <3>1, <4>1, Names1Same
    <3> DEFINE g == DirectoryOn(q, p, m)
    <3>3. g \in EntriesIn(c)
      <4>1. Chain(c, D, q, p, Len(p))
        BY <1>7 DEF At
      <4> QED
        BY <1>2, <1>4, <3>1, <4>1, DirectoryFound
    <3>4. g.path = f0.path /\ g.sector = q[m]
      BY <2>4, <3>2 DEF DirectoryOn
    <3> HIDE DEF g
    <3>5. g = f0
      BY <1>2, <1>9, <3>3, <3>4, FilesAreApart
    <3> QED
      BY <1>5, <1>10, <3>1, <3>4, <3>5
  <2> QED
    BY <1>4, <2>4, <2>5, <2>6
<1> QED
  BY <1>8, <1>12

\* The entry is not on the way to a file that is not under it.
LEMMA NotOnTheWay ==
  ASSUME NEW c, NEW M, NEW H, NEW D, Sound(c, M, H, D, {}),
         NEW q0, NEW p0 \in Seq(Name), Chain(c, D, q0, p0, Len(p0)),
         NEW dir, q0[Len(p0)] = dir, NEW k \in Index, Used(c, dir, k),
         NEW f0, f0 = EntryFile(c, p0, dir, k),
         NEW f, NEW q, NEW p, NEW i, At(c, D, f, q, p, i), ~Seqs!IsPrefix(f0.path, f.path),
         NEW j \in 0 .. Len(p), NEW l \in Index, Used(c, q[j], l),
         j < Len(p) => Target(c, q[j], l) = q[j + 1], j = Len(p) => l = i
  PROVE  q[j] # dir \/ l # k
<1> DEFINE n == Len(p)
           x == TableOf(c, q[n])[i].name
<1>1. /\ p \in Seq(Name) /\ Chain(c, D, q, p, n) /\ i \in Index /\ n \in Nat
      /\ Used(c, q[n], i) /\ f = EntryFile(c, p, q[n], i)
  BY LenProperties DEF At
<1>2. \A m \in 0 .. n : q[m] \in D
  BY <1>1 DEF Chain
<1>3. x \in Name /\ f.path = Append(p, x)
  BY <1>1, <1>2 DEF Sound, SoundTables, EntryFile
<1>4. f.path \in Seq(Name) /\ Len(f.path) = n + 1 /\ \A m \in 1 .. n : f.path[m] = p[m]
  BY <1>1, <1>3, AppendIs
<1> SUFFICES ASSUME q[j] = dir, l = k PROVE FALSE
  OBVIOUS
<1>5. p0 = Names1(p, j)
  <2>1. Names1(p, j) \in Seq(Name) /\ Len(Names1(p, j)) = j /\ \A m \in 1 .. j : Names1(p, j)[m] = p[m]
    BY <1>1, Names1Is
  <2>2. Chain(c, D, q, Names1(p, j), j)
    <3> HIDE DEF n
    <3> QED
      BY <1>1, <2>1, ChainOf DEF n
  <2> DEFINE r == Names1(p, j)
  <2>3. r \in Seq(Name) /\ Chain(c, D, q, r, Len(r)) /\ q[Len(r)] = q0[Len(p0)]
    BY <2>1, <2>2
  <2> HIDE DEF r
  <2>4. r = p0
    BY <2>3, OneWay
  <2> QED
    BY <2>4 DEF r
<1>6. CASE j = Len(p)
  <2>1. p0 = p
    BY <1>1, <1>5, <1>6, Names1Is
  <2>2. f0 = f
    BY <1>1, <1>6, <2>1
  <2>3. Seqs!IsPrefix(f.path, f.path)
    <3>1. Len(f.path) <= Len(f.path) /\ f.path = Names1(f.path, Len(f.path))
      BY <1>1, <1>4, Names1Is
    <3> QED
      BY <1>4, <3>1, PrefixIs
  <2> QED
    BY <2>2, <2>3
<1>7. CASE j < Len(p)
  <2>1. j + 1 \in 1 .. n /\ (j + 1) - 1 = j /\ j + 1 \in 0 .. Len(p) /\ j + 1 \in 0 .. Len(f.path)
    BY <1>1, <1>4, <1>7
  <2>2. Link(c, q[j], p[j + 1], q[j + 1])
    BY <1>1, <2>1 DEF Chain
  <2>3. PICK m \in Index : /\ Used(c, q[j], m) /\ TableOf(c, q[j])[m].name = p[j + 1]
                           /\ Target(c, q[j], m) = q[j + 1]
    BY <2>2 DEF Link
  <2>4. m = l
    <3>1. q[j] \in D /\ Target(c, q[j], l) = q[j + 1] /\ q[j + 1] \in D
      BY <1>2, <1>7, <2>1
    <3> QED
      BY <2>3, <3>1 DEF Sound, SoundTables
  <2>5. f0.path = Append(Names1(p, j), p[j + 1])
    BY <1>5, <2>3, <2>4 DEF EntryFile
  <2>6. f0.path = Names1(p, j + 1)
    BY <1>1, <1>7, <2>5, Names1Is
  <2>7. Names1(f.path, j + 1) = Names1(p, j + 1)
    <3>1. \A h \in 1 .. j + 1 : f.path[h] = p[h]
      BY <1>1, <1>4, <2>1
    <3> QED
      BY <1>1, <1>4, <2>1, <3>1, Names1Same
  <2>8. Seqs!IsPrefix(f0.path, f.path)
    <3>1. f0.path \in Seq(Name) /\ Len(f0.path) = j + 1
      BY <1>1, <2>1, <2>6, Names1Is
    <3>2. j + 1 <= n + 1
      BY <1>1, <2>1
    <3> QED
      BY <1>4, <2>6, <2>7, <3>1, <3>2, PrefixIs
  <2> QED
    BY <2>8
<1> QED
  BY <1>1, <1>6, <1>7

\* What was found before, and not under it, is found after.
LEMMA AllElseFound ==
  ASSUME NEW w, NEW v, NEW H, NEW D, NEW q0, NEW p0, NEW dir, NEW e, NEW k, NEW H2, NEW D2,
         TakenFrom(w, v, H, D, q0, p0, dir, e, k, H2, D2),
         NEW f0, f0 = EntryFile(w.content, p0, dir, k),
         NEW f \in EntriesIn(w.content), ~Seqs!IsPrefix(f0.path, f.path)
  PROVE  f \in EntriesIn(v.content)
<1> DEFINE c == w.content
           b == v.content
<1>1. /\ Removable(w, H, D, {}, dir, e, k) /\ e = TableOf(c, dir)
      /\ FileGone(w, v, H, D, {}, dir, e, k, H2, D2)
      /\ p0 \in Seq(Name) /\ Chain(c, D, q0, p0, Len(p0)) /\ q0[Len(p0)] = dir
  BY DEF TakenFrom
<1>2. /\ Sound(c, w.onDisk, H, D, {}) /\ Sound(b, v.onDisk, H2, D2, {})
      /\ dir \in D /\ k \in Index /\ Used(c, dir, k)
  BY <1>1 DEF Removable, FileGone
<1>3. PICK q, p, i : At(c, D, f, q, p, i)
  BY <1>2, TreeIs
<1> DEFINE n == Len(p)
<1>4. /\ p \in Seq(Name) /\ Chain(c, D, q, p, n) /\ i \in Index /\ n \in Nat /\ n \in 0 .. n
      /\ Used(c, q[n], i) /\ f = EntryFile(c, p, q[n], i)
  BY <1>3, LenProperties DEF At
<1>5. \A j \in 0 .. n : q[j] \in D /\ q[j] \in w.onDisk
  BY <1>2, <1>4 DEF Chain, Sound, SoundTables, SoundHeaders
<1>6. ASSUME NEW j \in 0 .. n, NEW l \in Index, Used(c, q[j], l),
             j < n => Target(c, q[j], l) = q[j + 1], j = n => l = i
      PROVE  q[j] # dir \/ l # k
  <2> HIDE DEF c, b
  <2> QED
    BY <1>1, <1>2, <1>3, <1>6, NotOnTheWay DEF c
<1>7. ASSUME NEW j \in 0 .. n, NEW l \in Index, Used(c, q[j], l),
             j < n => Target(c, q[j], l) = q[j + 1], j = n => l = i
      PROVE  SameEntry(c, b, q[j], l)
  <2>1. q[j] # dir \/ l # k
    BY <1>6, <1>7
  <2> QED
    BY <1>5, <2>1, OtherEntries
<1>8. ASSUME NEW j \in 0 .. n PROVE q[j] \in D2
  <2>1. CASE j = 0
    <3>1. q[0] = DirectorySector
      BY <1>4 DEF Chain
    <3> QED
      BY <1>2, <2>1, <3>1 DEF Sound, SoundTables
  <2>2. CASE j # 0
    <3>1. j \in 1 .. n /\ j - 1 \in 0 .. n /\ j - 1 < n /\ (j - 1) + 1 = j /\ j - 1 # n
      BY <1>4, <2>2
    <3>2. Link(c, q[j - 1], p[j], q[j])
      BY <1>4, <3>1 DEF Chain
    <3>3. PICK l \in Index : Used(c, q[j - 1], l) /\ Target(c, q[j - 1], l) = q[j]
      BY <3>2 DEF Link
    <3>4. q[j - 1] # dir \/ l # k
      BY <1>6, <3>1, <3>3
    <3>5. q[j - 1] \in D /\ q[j] \in D /\ q[j] \in w.onDisk
      BY <1>5, <3>1
    <3> QED
      BY <1>1, <3>3, <3>4, <3>5, OthersKept
  <2> QED
    BY <2>1, <2>2
<1>9. Chain(b, D2, q, p, n)
  <2>1. \A j \in 0 .. n - 1, l \in Index :
          Used(c, q[j], l) /\ Target(c, q[j], l) = q[j + 1] => SameEntry(c, b, q[j], l)
    BY <1>4, <1>7
  <2> HIDE DEF n, b, c
  <2> QED
    BY <1>4, <1>8, <2>1, ChainKept
<1>10. SameEntry(c, b, q[n], i)
  BY <1>4, <1>7
<1>11. Used(b, q[n], i) /\ TableOf(b, q[n])[i] = TableOf(c, q[n])[i]
  BY <1>4, <1>10 DEF SameEntry
<1>12. f = EntryFile(b, p, q[n], i)
  BY <1>4, <1>11 DEF EntryFile, Target
<1>13. At(b, D2, f, q, p, i)
  BY <1>4, <1>9, <1>11, <1>12 DEF At
<1> QED
  BY <1>2, <1>13, AtIsFound

\* The removal of a file takes it and what is under it out of the tree.
LEMMA TreeWithout ==
  ASSUME NEW w, NEW v, NEW H, NEW D, NEW q0, NEW p0, NEW dir, NEW e, NEW k, NEW H2, NEW D2,
         TakenFrom(w, v, H, D, q0, p0, dir, e, k, H2, D2),
         NEW f0, f0 = EntryFile(w.content, p0, dir, k)
  PROVE  /\ f0 \in EntriesIn(w.content)
         /\ EntriesIn(v.content) = {f \in EntriesIn(w.content) : ~Seqs!IsPrefix(f0.path, f.path)}
<1>1. f0 \in EntriesIn(w.content)
  <2>1. At(w.content, D, f0, q0, p0, k) /\ Sound(w.content, w.onDisk, H, D, {})
    BY DEF TakenFrom, At, Removable
  <2> QED
    BY <2>1, AtIsFound
<1>2. \A f \in EntriesIn(v.content) : f \in EntriesIn(w.content) /\ ~Seqs!IsPrefix(f0.path, f.path)
  BY NothingElseFound
<1>3. \A f \in EntriesIn(w.content) : ~Seqs!IsPrefix(f0.path, f.path) => f \in EntriesIn(v.content)
  BY AllElseFound
<1> QED
  BY <1>1, <1>2, <1>3

-------------------------------------------------------------------------------
(* What a Remove gives back *)

\* RemoveFile gives back the sectors of the bytes of its file and its header.
LEMMA FileGivesBack ==
  ASSUME NEW w, NEW H, NEW D, NEW Z, NEW dir, NEW e, NEW k, Removable(w, H, D, Z, dir, e, k),
         NEW v, v = RemoveFile(w, dir, e, e[k].name), ~v.aborted,
         NEW s, s = Target(w.content, dir, k)
  PROVE  v.onDisk = w.onDisk \ ({s} \cup DataOf(w.content, w.content[s]))
<1> DEFINE c == w.content
           x == e[k].name
           f == FetchMap(w)
           h == c[s]
           u == Deallocate(f, h)
           g == [u EXCEPT !.map = @ \ {s}]
           m == WriteMap(g)
<1>1. /\ w \in World /\ ~w.aborted /\ Sound(c, w.onDisk, H, D, Z)
      /\ k \in Index /\ Live(c, H, D, dir, k)
      /\ e \in EntryTable /\ e[k] = TableOf(c, dir)[k] /\ FindIndex(e, x) = k
  BY DEF Removable
<1>2. k # 0
  BY <1>1, TreeAssumption DEF Index
<1>3. RemoveEntry(e, x) = Less(e, k) /\ Find(e, x) = s
  BY <1>1, <1>2, RemoveEntryIs DEF Target
<1>4. v = WriteTable(m, dir, Less(e, k))
  BY <1>3 DEF RemoveFile
<1>5. s \in H /\ Shape(c, H) /\ h.numBytes <= MaxSize
  <2>1. SoundHeaders(c, w.onDisk, H) /\ s \in H
    BY <1>1 DEF Sound, Live, Top
  <2>2. Sized(h, MaxSize)
    BY <2>1 DEF SoundHeaders
  <2>3. h.numBytes <= MaxSize
    BY <2>2, Limits DEF Sized, MaxSize
  <2> QED
    BY <2>1, <2>3, SoundShape
<1>6. /\ f \in World /\ f.map = w.onDisk /\ f.onDisk = w.onDisk /\ f.content = c /\ ~f.aborted
  BY <1>1, FetchMapIs
<1>7. u \in World
  <2> HIDE DEF f, c
  <2>1. Shape(f.content, H) /\ f.content[s].numBytes <= MaxSize
    BY <1>5, <1>6
  <2>2. Unmarks(f, Deallocate(f, f.content[s]), Below4(f.content, {s}))
    BY <1>5, <1>6, <2>1, Level4Unmarks
  <2> QED
    BY <1>6, <2>2 DEF Unmarks
<1> HIDE DEF f
<1>8. ASSUME ~u.aborted PROVE u.map = w.onDisk \ DataOf(c, h)
  <2>1. Shape(f.content, H) /\ h = f.content[s]
    BY <1>5, <1>6
  <2> HIDE DEF h
  <2>2. u.map = f.map \ DataOf(f.content, h)
    BY <1>5, <1>6, <1>8, <2>1, DeallocateFrees
  <2> QED
    BY <1>6, <2>2
<1> HIDE DEF u
<1>9. g \in World /\ g.map = u.map \ {s} /\ g.aborted = u.aborted
  BY <1>7 DEF World
<1> HIDE DEF g
<1>10. m \in World /\ m.aborted = u.aborted /\ (~u.aborted => m.onDisk = u.map \ {s})
  BY <1>9, WriteMapIs
<1> HIDE DEF m
<1>11. Less(e, k) \in EntryTable
  BY <1>1, LessIs
<1>12. v.onDisk = m.onDisk /\ ~m.aborted
  <2> DEFINE t == TableSector(m, dir)
             r == Less(e, k)
  <2>1. r \in EntryTable /\ v = WriteTable(m, dir, r)
    BY <1>4, <1>11
  <2> HIDE DEF r
  <2>2. v.onDisk = m.onDisk /\ (v.aborted <=> (m.aborted \/ t \notin Sector))
    BY <1>10, <2>1, WriteTableIs
  <2> QED
    BY <2>2
<1> QED
  BY <1>8, <1>10, <1>12

\* A Remove that returns TRUE has removed the file of the entry at p, unless p goes
\* through a file.
RemovedAt(w, v, H, D, q, p, j, e, k) ==
  /\ j = Len(p) - 1 /\ Chain(w.content, D, q, p, j)
  /\ Removable(w, H, D, {}, q[j], e, k) /\ e = TableOf(w.content, q[j]) /\ e[k].name = p[j + 1]
  /\ v = RemoveFile(w, q[j], e, e[k].name) /\ ~v.aborted

\* Remove, when it returns TRUE, has followed a path of directories and removed the
\* file of the entry found in the last one.
LEMMA RemoveTakes ==
  ASSUME NEW w \in World, NEW H, NEW D, Sound(w.content, w.onDisk, H, D, {}),
         NEW p \in Seq(Name), p # <<>>, ~ThroughFile(w, p), NEW r, r = RemoveFrom(w, p), r.ok
  PROVE  \E q, j, e, k : RemovedAt(w, r.w, H, D, q, p, j, e, k)
<1> DEFINE c == w.content
           n == Len(p)
<1>1. n \in Nat /\ n # 0
  BY EmptySeq
<1>2. PICK q, m : Chain(c, D, q, p, m) /\ Stops(w, q, p, m)
  BY <1>1, ChainStops
<1>3. m \in 0 .. n /\ \A i \in 0 .. m : q[i] \in D
  BY <1>2 DEF Chain, Stops
<1>4. Walk(w, p) = Stopped(q, m)
  <2>1. WalkStops(w, p, q, m)
    BY <1>1, <1>2, WalkIs
  <2> QED
    BY <2>1 DEF WalkStops
<1> DEFINE y   == Walk(w, p)
           j   == IF m < n THEN m ELSE m - 1
           dir == LooksIn(y, p)
           x   == LooksFor(y, p)
           e   == FetchTable(w, dir)
           k   == FindIndex(e, x)
<1>5. y.here = q[m] /\ dir = q[j] /\ x = p[j + 1]
  <2>1. Seqs!Last(p) = p[n]
    BY DEF Seqs!Last
  <2>2. CASE m < n
    BY <1>4, <2>2 DEF Stopped, LooksIn, LooksFor
  <2>3. CASE m = n
    BY <1>1, <1>4, <2>1, <2>3 DEF Stopped, LooksIn, LooksFor
  <2> QED
    BY <1>1, <1>3, <2>2, <2>3
<1>6. j \in 0 .. n - 1 /\ j \in 0 .. m /\ m \in Nat
  BY <1>1, <1>3
<1>7. Find(e, x) # -1 /\ ~w.aborted /\ ~Unreadable(w, q[m])
      /\ r.w = RemoveFile(w, dir, e, x) /\ ~r.w.aborted
  BY <1>5 DEF RemoveFrom
<1>8. q[j] \in D /\ ~Unreadable(w, q[j])
  <2>1. q[j] \in D
    BY <1>3, <1>6
  <2>2. CASE m < n
    BY <1>7, <2>1, <2>2
  <2>3. CASE m = n
    <3>1. m \in 1 .. m
      BY <1>1, <1>3, <2>3
    <3>2. Link(c, q[m - 1], p[m], q[m]) /\ j = m - 1
      BY <1>2, <2>3, <3>1 DEF Chain
    <3> QED
      BY <2>1, <3>2, LinkRead
  <2> QED
    BY <1>3, <2>2, <2>3
<1>9. Chain(c, D, q, p, j)
  BY <1>2, <1>6, ShorterChain
<1>19. j = n - 1
  <2>1. ASSUME m + 1 < n PROVE FALSE
    <3>1. y.depth = m /\ y.here = dir /\ x = p[m + 1]
      BY <1>4, <1>5, <1>6, <2>1 DEF Stopped
    <3>2. ~Unreadable(w, y.here) /\ FindIndex(FetchTable(w, y.here), p[y.depth + 1]) # 0
      BY <1>5, <1>7, <3>1 DEF Find
    <3> HIDE DEF y
    <3> QED
      BY <2>1, <3>1, <3>2 DEF ThroughFile, y
  <2> QED
    BY <1>1, <1>3, <1>6, <2>1
<1> HIDE DEF y, j, x
<1>10. dir = q[j] /\ x = p[j + 1]
  BY <1>5
<1> HIDE DEF dir
<1>11. e \in EntryTable /\ e = TableOf(c, q[j]) /\ \A l \in Index : Used(c, q[j], l) <=> e[l].inUse
  BY <1>8, <1>10, TableRead
<1>12. k # 0
  BY <1>7 DEF Find
<1>13. k \in Index /\ e[k].inUse /\ e[k].name = x
  <2> HIDE DEF e
  <2> QED
    BY <1>11, <1>12, FindIndexIs
<1>14. e = FetchTable(w, q[j])
  BY <1>10
<1> HIDE DEF e, k
<1>15. Live(c, H, D, q[j], k)
  BY <1>8, <1>11, <1>13 DEF Sound, SoundTables
<1>16. Removable(w, H, D, {}, q[j], e, k)
  BY <1>7, <1>8, <1>13, <1>14, <1>15, RemovableAsRead
<1>17. r.w = RemoveFile(w, q[j], e, e[k].name)
  BY <1>7, <1>10, <1>13 DEF e
<1>18. RemovedAt(w, r.w, H, D, q, p, j, e, k)
  BY <1>7, <1>9, <1>10, <1>11, <1>13, <1>16, <1>17, <1>19 DEF RemovedAt
<1> QED
  BY <1>18

\* On a sound disk Remove keeps its promise.
LEMMA RemoveKeepsItsPromise ==
  ASSUME NEW H, NEW D, SoundDisk(H, D), NEW p \in Path, ~ThroughFile(Disk, p),
         NEW r, r = RemoveResult(p), r.ok
  PROVE  \E f \in Entries :
           /\ f.path = p
           /\ EntriesIn(r.w.content) = Entries \ Under(p)
           /\ Kept(Files \ Under(p), r.w)
           /\ r.w.onDisk = map \ GivenBack(f)
<1> DEFINE w == Disk
           v == r.w
<1>1. /\ w \in World /\ w.onDisk = map /\ w.content = content /\ ~w.aborted
      /\ Sound(content, map, H, D, {})
  BY DEF SoundDisk
<1>2. p \in Seq(Name) /\ p # <<>> /\ Len(p) \in Nat \ {0}
  BY LastIs
<1>3. r = RemoveFrom(w, p) /\ ~ThroughFile(w, p)
  BY DEF RemoveResult
<1> HIDE DEF w
<1>4. PICK q, j, e, k : RemovedAt(w, v, H, D, q, p, j, e, k)
  BY <1>1, <1>2, <1>3, RemoveTakes
<1> DEFINE p0  == Names1(p, j)
           dir == q[j]
           f0  == EntryFile(content, p0, dir, k)
<1>5. /\ j = Len(p) - 1 /\ j \in 0 .. Len(p) /\ j \in Nat /\ j < Len(p) /\ j + 1 \in 0 .. Len(p)
      /\ Chain(content, D, q, p, j)
      /\ Removable(w, H, D, {}, dir, e, k) /\ e = TableOf(content, dir) /\ e[k].name = p[j + 1]
      /\ v = RemoveFile(w, dir, e, e[k].name) /\ ~v.aborted
  BY <1>1, <1>2, <1>4 DEF RemovedAt
<1>6. p0 \in Seq(Name) /\ Len(p0) = j /\ \A i \in 1 .. j : p0[i] = p[i]
  BY <1>2, <1>5, Names1Is
<1>7. Chain(content, D, q, p0, Len(p0)) /\ q[Len(p0)] = dir
  <2> HIDE DEF p0
  <2>1. j \in 0 .. j
    BY <1>5
  <2> QED
    BY <1>5, <1>6, <2>1, ChainOf
<1>8. v \in World /\ \E H2, D2 : FileGone(w, v, H, D, {}, dir, e, k, H2, D2)
  <2> HIDE DEF dir, v
  <2> QED
    BY <1>5, FileRemoved
<1>9. PICK H2, D2 : FileGone(w, v, H, D, {}, dir, e, k, H2, D2)
  BY <1>8
<1>10. TakenFrom(w, v, H, D, q, p0, dir, e, k, H2, D2)
  BY <1>1, <1>5, <1>6, <1>7, <1>9 DEF TakenFrom
<1>11. /\ f0 \in Entries
       /\ EntriesIn(v.content) = {f \in Entries : ~Seqs!IsPrefix(f0.path, f.path)}
  <2> HIDE DEF v, p0, dir
  <2>1. f0 = EntryFile(w.content, p0, dir, k)
    BY <1>1
  <2> HIDE DEF f0
  <2> QED
    BY <1>1, <1>10, <2>1, TreeWithout DEF Entries
<1>17. f0.path = p
  <2>1. f0.path = Append(p0, p[j + 1])
    BY <1>5 DEF EntryFile
  <2>2. f0.path = Names1(p, j + 1)
    BY <1>2, <1>5, <2>1, Names1Is
  <2>3. j + 1 = Len(p)
    BY <1>2, <1>5
  <2> QED
    BY <1>2, <2>2, <2>3, Names1Is
<1> DEFINE gone == Under(p)
<1>12. EntriesIn(v.content) = Entries \ gone
  BY <1>11, <1>17 DEF Under
<1>13. Sound(v.content, v.onDisk, H2, D2, {}) /\ \A x \in H : v.content[x] = content[x]
  BY <1>1, <1>9 DEF FileGone
<1>15. Kept(Files \ gone, v)
  <2>1. Files \ gone \subseteq FilesIn(v.content)
    BY <1>12 DEF Files, FilesIn, Entries
  <2> HIDE DEF v, gone
  <2> QED
    BY <1>1, <1>13, <2>1, FilesKept
<1>16. v.onDisk = map \ GivenBack(f0)
  <2> DEFINE s == f0.sector
  <2>1. s = Target(w.content, dir, k)
    BY <1>1 DEF EntryFile
  <2>2. /\ Removable(w, H, D, {}, dir, e, k)
        /\ v = RemoveFile(w, dir, e, e[k].name) /\ ~v.aborted
    BY <1>5
  <2> HIDE DEF s, dir, v
  <2>3. v.onDisk = w.onDisk \ ({s} \cup DataOf(w.content, w.content[s]))
    BY ONLY <2>1, <2>2, FileGivesBack
  <2> QED
    BY <1>1, <2>3 DEF GivenBack, s
<1> QED
  BY <1>11, <1>12, <1>15, <1>16, <1>17

\* On a sound disk Remove gives back what it takes away, and that only.
LEMMA IInvRemoves == IInv => RemoveFreesItsOwn
<1> SUFFICES ASSUME IInv, NEW p \in Path, NEW r, r = RemoveResult(p), Legal(p), r.ok
             PROVE  \E f \in Entries :
                      /\ f.path = p
                      /\ EntriesIn(r.w.content) = Entries \ Under(p)
                      /\ Kept(Files \ Under(p), r.w)
                      /\ r.w.onDisk = map \ GivenBack(f)
  BY DEF RemoveFreesItsOwn
<1>1. PICK H, D : SoundDisk(H, D)
  BY DiskIsSound DEF Legal
<1> QED
  BY <1>1, RemoveKeepsItsPromise DEF Legal

\* A Remove that returns TRUE, of a path that does not go through a file, takes the
\* file or directory at that path out of the tree, with what is under it, gives back
\* its header and the sectors of its bytes and no other sector, and leaves all other
\* files where they were, in their sectors (filesys.cc:353, FileHeader::Deallocate).
THEOREM RemovalsFreeTheirOwn == Spec => []RemoveFreesItsOwn
<1> QED
  BY DiskStaysSound, IInvRemoves, PTL

-------------------------------------------------------------------------------
(* A Create that returns TRUE adds its file and no other *)

\* A file is added in a directory that is at path p0.
AddedTo(c, M, H, D, dir, k, x, isDir, s, h, N, b, M2, H2, D2, q0, p0) ==
  /\ FileAdded(c, M, H, D, dir, k, x, isDir, s, h, N, b, M2, H2, D2)
  /\ p0 \in Seq(Name) /\ Chain(c, D, q0, p0, Len(p0)) /\ q0[Len(p0)] = dir

\* Then all other files are where they were.
LEMMA OldEntriesFound ==
  ASSUME NEW c, NEW M, NEW H, NEW D, NEW dir, NEW k, NEW x, NEW isDir, NEW s, NEW h, NEW N,
         NEW b, NEW M2, NEW H2, NEW D2, NEW q0, NEW p0,
         AddedTo(c, M, H, D, dir, k, x, isDir, s, h, N, b, M2, H2, D2, q0, p0),
         NEW f, NEW q, NEW p, NEW l, At(c, D, f, q, p, l)
  PROVE  At(b, D2, f, q, p, l)
<1> DEFINE n == Len(p)
<1>1. EntriesGrow(c, D, dir, k, x, isDir, s, b, D2)
  BY EntryAdded DEF AddedTo
<1>2. /\ p \in Seq(Name) /\ Chain(c, D, q, p, n) /\ l \in Index /\ n \in Nat /\ n \in 0 .. n
      /\ Used(c, q[n], l) /\ f = EntryFile(c, p, q[n], l)
  BY LenProperties DEF At
<1>3. \A j \in 0 .. n : q[j] \in D /\ q[j] \in D2
  BY <1>1, <1>2 DEF Chain, EntriesGrow
<1>4. \A d \in D, i \in Index : Used(c, d, i) => SameEntry(c, b, d, i)
  BY <1>1 DEF EntriesGrow, SameEntry
<1>5. \A j \in 0 .. n - 1, i \in Index :
        Used(c, q[j], i) /\ Target(c, q[j], i) = q[j + 1] => SameEntry(c, b, q[j], i)
  BY <1>2, <1>3, <1>4
<1>6. Chain(b, D2, q, p, n)
  <2> HIDE DEF n
  <2> QED
    BY <1>2, <1>3, <1>5, ChainKept
<1>7. Used(b, q[n], l) /\ TableOf(b, q[n])[l] = TableOf(c, q[n])[l]
  BY <1>1, <1>2, <1>3 DEF EntriesGrow
<1>8. f = EntryFile(b, p, q[n], l)
  BY <1>2, <1>7 DEF EntryFile, Target
<1> QED
  BY <1>2, <1>6, <1>7, <1>8 DEF At

\* And what is found is one of them, or the new one.
LEMMA NoOthersFound ==
  ASSUME NEW c, NEW M, NEW H, NEW D, NEW dir, NEW k, NEW x, NEW isDir, NEW s, NEW h, NEW N,
         NEW b, NEW M2, NEW H2, NEW D2, NEW q0, NEW p0,
         AddedTo(c, M, H, D, dir, k, x, isDir, s, h, N, b, M2, H2, D2, q0, p0),
         NEW f, NEW q, NEW p, NEW l, At(b, D2, f, q, p, l)
  PROVE  f = EntryFile(b, p0, dir, k) \/ At(c, D, f, q, p, l)
<1> DEFINE n == Len(p)
<1>1. /\ EntriesGrow(c, D, dir, k, x, isDir, s, b, D2) /\ Sound(c, M, H, D, {}) /\ s \notin D
      /\ p0 \in Seq(Name) /\ Chain(c, D, q0, p0, Len(p0)) /\ q0[Len(p0)] = dir
  <2>1. EntriesGrow(c, D, dir, k, x, isDir, s, b, D2)
    BY EntryAdded DEF AddedTo
  <2>2. Sound(c, M, H, D, {}) /\ s \notin D
    BY DEF AddedTo, FileAdded, Sound, SoundTables, SoundHeaders
  <2> QED
    BY <2>1, <2>2 DEF AddedTo
<1>2. /\ p \in Seq(Name) /\ Chain(b, D2, q, p, n) /\ l \in Index /\ n \in Nat /\ n \in 0 .. n
      /\ Used(b, q[n], l) /\ f = EntryFile(b, p, q[n], l)
  BY LenProperties DEF At
<1>3. \A j \in 0 .. n : q[j] \in D2
  BY <1>2 DEF Chain
<1>4. ASSUME NEW j \in 0 .. n PROVE q[j] \in D
  <2>1. CASE j = n
    BY <1>1, <1>2, <1>3, <2>1 DEF EntriesGrow
  <2>2. CASE j # n
    <3>1. j + 1 \in 1 .. n /\ (j + 1) - 1 = j
      BY <1>2, <2>2
    <3>2. Link(b, q[j], p[j + 1], q[j + 1])
      BY <1>2, <3>1 DEF Chain
    <3> QED
      BY <1>1, <1>3, <3>2 DEF Link, EntriesGrow
  <2> QED
    BY <2>1, <2>2
<1>5. ASSUME NEW d \in D, NEW i \in Index, Used(b, d, i), d # dir \/ i # k
      PROVE  SameEntry(b, c, d, i)
  BY <1>1, <1>5 DEF EntriesGrow, SameEntry
<1>6. \A j \in 0 .. n - 1, i \in Index :
        Used(b, q[j], i) /\ Target(b, q[j], i) = q[j + 1] => SameEntry(b, c, q[j], i)
  <2> SUFFICES ASSUME NEW j \in 0 .. n - 1, NEW i \in Index,
                      Used(b, q[j], i), Target(b, q[j], i) = q[j + 1]
               PROVE  SameEntry(b, c, q[j], i)
    OBVIOUS
  <2>1. j \in 0 .. n /\ j + 1 \in 0 .. n
    BY <1>2
  <2>2. q[j + 1] # s
    BY <1>1, <1>4, <2>1
  <2>3. q[j] # dir \/ i # k
    BY <1>1, <2>2 DEF EntriesGrow
  <2> QED
    BY <1>4, <1>5, <2>1, <2>3
<1>7. Chain(c, D, q, p, n)
  <2> HIDE DEF n
  <2> QED
    BY <1>2, <1>4, <1>6, ChainKept
<1>8. CASE q[n] = dir /\ l = k
  <2>1. p = p0
    BY <1>1, <1>2, <1>7, <1>8, OneWay
  <2> QED
    BY <1>2, <1>8, <2>1
<1>9. CASE ~(q[n] = dir /\ l = k)
  <2>1. SameEntry(b, c, q[n], l)
    BY <1>2, <1>4, <1>5, <1>9
  <2>2. Used(c, q[n], l) /\ TableOf(c, q[n])[l] = TableOf(b, q[n])[l]
    BY <1>2, <2>1 DEF SameEntry
  <2>3. f = EntryFile(c, p, q[n], l)
    BY <1>2, <2>2 DEF EntryFile, Target
  <2> QED
    BY <1>2, <1>7, <2>2, <2>3 DEF At
<1> QED
  BY <1>8, <1>9

\* The tree grows by one file or directory, in a sector that no other has.
LEMMA TreeWith ==
  ASSUME NEW c, NEW M, NEW H, NEW D, NEW dir, NEW k, NEW x, NEW isDir, NEW s, NEW h, NEW N,
         NEW b, NEW M2, NEW H2, NEW D2, NEW q0, NEW p0,
         AddedTo(c, M, H, D, dir, k, x, isDir, s, h, N, b, M2, H2, D2, q0, p0),
         NEW f0, f0 = [path |-> Append(p0, x), sector |-> s, isDirectory |-> isDir]
  PROVE  EntriesIn(b) = EntriesIn(c) \cup {f0} /\ f0 \notin EntriesIn(c)
<1>1. /\ Sound(c, M, H, D, {}) /\ Sound(b, M2, H2, D2, {})
      /\ EntriesGrow(c, D, dir, k, x, isDir, s, b, D2) /\ k \in Index
  BY EntryAdded DEF AddedTo, FileAdded
<1>2. f0 = EntryFile(b, p0, dir, k)
  BY <1>1 DEF EntryFile, EntriesGrow
<1>3. At(b, D2, f0, q0, p0, k)
  <2> DEFINE n == Len(p0)
  <2>1. /\ p0 \in Seq(Name) /\ Chain(c, D, q0, p0, n) /\ q0[n] = dir /\ n \in Nat
    BY LenProperties DEF AddedTo
  <2>2. \A j \in 0 .. n : q0[j] \in D /\ q0[j] \in D2
    BY <1>1, <2>1 DEF Chain, EntriesGrow
  <2>3. \A d \in D, i \in Index : Used(c, d, i) => SameEntry(c, b, d, i)
    BY <1>1 DEF EntriesGrow, SameEntry
  <2>4. \A j \in 0 .. n - 1, i \in Index :
          Used(c, q0[j], i) /\ Target(c, q0[j], i) = q0[j + 1] => SameEntry(c, b, q0[j], i)
    BY <2>1, <2>2, <2>3
  <2>5. Chain(b, D2, q0, p0, n)
    <3> HIDE DEF n
    <3> QED
      BY <2>1, <2>2, <2>4, ChainKept
  <2> QED
    BY <1>1, <1>2, <2>1, <2>5 DEF At, EntriesGrow
<1>4. \A f : f \in EntriesIn(c) <=> \E q, p, l : At(c, D, f, q, p, l)
  BY <1>1, TreeIs
<1>5. \A f : f \in EntriesIn(b) <=> \E q, p, l : At(b, D2, f, q, p, l)
  BY <1>1, TreeIs
<1>6. \A f, q, p, l : At(c, D, f, q, p, l) => At(b, D2, f, q, p, l)
  BY OldEntriesFound
<1>7. \A f, q, p, l : At(b, D2, f, q, p, l) => f = f0 \/ At(c, D, f, q, p, l)
  BY <1>2, NoOthersFound
<1>8. f0 \notin EntriesIn(c)
  <2>1. s \notin H
    BY DEF AddedTo, FileAdded, Sound, SoundHeaders
  <2>2. f0 \in EntriesIn(c) => Top(c, H, f0.sector)
    BY <1>1, FilesAreApart DEF FilesIn
  <2> QED
    BY <2>1, <2>2 DEF Top
<1>9. \A f : f \in EntriesIn(b) <=> f \in EntriesIn(c) \cup {f0}
  BY <1>3, <1>4, <1>5, <1>6, <1>7
<1> QED
  BY <1>8, <1>9

\* A file made on a disk with room for it has a sector for each of its blocks.
LEMMA MadeIsComplete ==
  ASSUME NEW w, NEW H, NEW D, NEW parent, NEW x, NEW isDir, NEW size, NEW s, NEW a, NEW v,
         Making(w, H, D, parent, x, isDir, size, s, a, v), v \in World,
         Made(w, parent, x, isDir, size, s, a, v), NumClear(w) >= Needed(size)
  PROVE  Complete(v.content, a.header)
<1> DEFINE u == Marked(w, s)
           h == a.header
           c == a.w.content
           b == v.content
           t == FirstOf(w.content, parent)
<1>1. /\ w \in World /\ ~w.aborted /\ Sound(w.content, w.onDisk, H, D, {}) /\ w.map = w.onDisk
      /\ size \in 1 .. MaxSize /\ s = FindAndSet(w) /\ a = Allocate(u, size)
      /\ parent \in D /\ ~Unreadable(w, parent)
  BY DEF Making
<1>2. /\ s \in Sector /\ Sized(h, MaxSize) /\ a.w.map = v.onDisk /\ ~a.w.aborted
      /\ \A y \in Sector : y # s /\ y # t => b[y] = c[y]
  BY DEF Made
<1>3. u = ForHeader(w)
  BY <1>1 DEF ForHeader
<1>4. Needed(size) \in Nat \ {0}
  BY <1>1, Limits, NeededTypes DEF MaxSize
<1> DEFINE need == Needed(size)
<1>5. u \in World /\ ~u.aborted /\ u.map # {} /\ NumClear(u) >= need - 1
  <2> HIDE DEF need, u
  <2>1. need \in Nat \ {0} /\ NumClear(w) >= need
    BY <1>4 DEF need
  <2> QED
    BY <1>1, <1>3, <2>1, ForHeaderIs
<1>6. Filled(u, need, a)
  <2> HIDE DEF u
  <2> QED
    BY <1>1, <1>5, AllocateFills
<1>7. Complete(c, h)
  BY <1>6 DEF Filled
<1>8. PICK N : Takes(c, h, N, a.w.map \ u.map)
  <2> HIDE DEF u
  <2>1. Allocated(u, size, a)
    BY <1>1, <1>5, Level4Allocates
  <2> QED
    BY <1>2, <2>1 DEF Allocated
<1>9. u.map = w.map \cup {s}
  BY <1>1, <1>2, MarkedIs
<1>10. t \in w.map
  <2>1. IsLeaf(w.content[parent]) /\ parent \in H
    BY <1>1 DEF Sound, SoundTables
  <2>2. t \in Sector
    BY <1>1, TableRead
  <2> QED
    BY <1>1, <2>1, <2>2, Limits DEF Sound, SoundHeaders, Names, FirstOf, Direct
<1>11. \A y \in N : b[y] = c[y]
  <2> TAKE y \in N
  <2>1. y \in v.onDisk \ u.map
    BY <1>2, <1>8 DEF Takes
  <2>2. y \in Sector /\ y # s /\ y # t
    BY <1>9, <1>10, <2>1 DEF World
  <2> QED
    BY <1>2, <2>2
<1> HIDE DEF b, c, h, u
<1>12. DataOf(b, h) = DataOf(c, h)
  <2> DEFINE new == a.w.map \ u.map
  <2>1. Takes(c, h, N, new)
    BY <1>8
  <2> HIDE DEF new
  <2>2. Held(c, h, N, new)
    BY <1>2, <2>1, TakesHolds
  <2> QED
    BY <1>11, <2>2, DataSame
<1> QED
  BY <1>7, <1>12 DEF Complete, b, h

\* The file that a Create which returns TRUE has made.
CreatedIn(v, p, size, s, room) ==
  /\ v \in World /\ s \in v.onDisk
  /\ \E H2, D2 : Sound(v.content, v.onDisk, H2, D2, {})
  /\ LET f == [path |-> p, sector |-> s, isDirectory |-> FALSE]
     IN  EntriesIn(v.content) = Entries \cup {f} /\ f \notin Entries
  /\ v.content[s].numBytes = size
  /\ \E N, new : Held(v.content, v.content[s], N, new) /\ N \subseteq v.onDisk
  /\ room => Complete(v.content, v.content[s])

\* A path is its last name in the directory that FindPath finds for the others.
LEMMA PathIs ==
  ASSUME NEW p \in Path, NEW n, n = Len(p), NEW p0, p0 = Names1(p, n - 1)
  PROVE  p0 \in Seq(Name) /\ Len(p0) = n - 1 /\ n \in Nat \ {0} /\ Append(p0, Seqs!Last(p)) = p
<1>1. p \in Seq(Name) /\ n \in Nat \ {0} /\ Seqs!Last(p) = p[n]
  BY LastIs
<1>2. n - 1 \in 0 .. Len(p) /\ n - 1 < Len(p) /\ (n - 1) + 1 = n
  BY <1>1
<1> DEFINE i == n - 1
<1>3. i \in 0 .. Len(p) /\ i < Len(p) /\ i + 1 = n
  BY <1>2
<1> HIDE DEF i
<1>4. /\ Names1(p, i) \in Seq(Name) /\ Len(Names1(p, i)) = i
      /\ \A j \in 1 .. i : Names1(p, i)[j] = p[j]
      /\ Names1(p, i + 1) = Append(Names1(p, i), p[i + 1]) /\ Names1(p, Len(p)) = p
  BY <1>1, <1>3, Names1Is
<1> QED
  BY <1>1, <1>3, <1>4 DEF i

\* The directory that p is to be added in is at path p0.
ParentPath(c, D, p, x, q, dir, p0) ==
  p0 \in Seq(Name) /\ p = Append(p0, x) /\ Chain(c, D, q, p0, Len(p0)) /\ q[Len(p0)] = dir

\* A path is the last name in the directory that FindPath finds for the others.
LEMMA PathOfParent ==
  ASSUME NEW c, NEW D, NEW p \in Path, NEW q, NEW m \in Nat, Len(p) = m + 1, Chain(c, D, q, p, m)
  PROVE  \E p0 : ParentPath(c, D, p, Seqs!Last(p), q, q[m], p0)
<1> DEFINE p0 == Names1(p, m)
<1>0. m = Len(p) - 1
  BY LastIs
<1>1. p0 \in Seq(Name) /\ Len(p0) = m /\ Append(p0, Seqs!Last(p)) = p
  BY <1>0, PathIs
<1>2. m \in Nat /\ m \in 0 .. m /\ m \in 0 .. Len(p) /\ p \in Seq(Name)
  BY LastIs
<1>4. \A i \in 1 .. m : p0[i] = p[i]
  BY <1>2, Names1Is
<1> HIDE DEF p0
<1>5. Chain(c, D, q, p0, m)
  BY <1>2, <1>4, ChainOf
<1>6. p0 \in Seq(Name) /\ p = Append(p0, Seqs!Last(p)) /\ Chain(c, D, q, p0, Len(p0)) /\ q[Len(p0)] = q[m]
  BY <1>1, <1>5
<1> QED
  BY <1>6 DEF ParentPath

\* The file that Create makes is the one it was to make.
LEMMA MadeIsCreated ==
  ASSUME NEW w, NEW H, NEW D, NEW parent, NEW x, NEW isDir, NEW size, NEW s, NEW a, NEW v,
         NEW p, NEW p0, NEW q, NEW room \in BOOLEAN,
         Making(w, H, D, parent, x, isDir, size, s, a, v), v \in World, ~isDir,
         Made(w, parent, x, isDir, size, s, a, v), CanAdd(FetchTable(w, parent), x),
         w.content = content, ParentPath(w.content, D, p, x, q, parent, p0),
         room => NumClear(w) >= Needed(size)
  PROVE  CreatedIn(v, p, size, s, room)
<1> DEFINE c == w.content
           b == v.content
           M == w.onDisk
           M2 == v.onDisk
           k == FreeEntry(FetchTable(w, parent))
           h == a.header
           f == [path |-> p, sector |-> s, isDirectory |-> isDir]
<1>1. /\ s \in M2 /\ s \notin M /\ b[s] = h /\ h.numBytes = size /\ Sized(h, MaxSize)
  BY DEF Made
<1>2. b = v.content /\ TableWritten(h, isDir, v, b)
  BY DEF TableWritten
<1>3. PICK N, H2, D2 : FileAdded(c, M, H, D, parent, k, x, isDir, s, h, N, b, M2, H2, D2)
  <2> HIDE DEF b, h
  <2>1. b[s] = a.header /\ TableWritten(a.header, isDir, v, b)
    BY <1>1, <1>2 DEF h
  <2> QED
    BY <2>1, MadeIsFileAdded DEF h
<1>6. AddedTo(c, M, H, D, parent, k, x, isDir, s, h, N, b, M2, H2, D2, q, p0)
  BY <1>3 DEF AddedTo, ParentPath
<1> HIDE DEF c, b, M, M2, k, h
<1>7. EntriesIn(b) = EntriesIn(c) \cup {f} /\ f \notin EntriesIn(c)
  <2>1. f = [path |-> Append(p0, x), sector |-> s, isDirectory |-> isDir]
    BY DEF ParentPath
  <2> HIDE DEF f
  <2> QED
    BY <1>6, <2>1, TreeWith
<1>8. Sound(b, M2, H2, D2, {})
  BY <1>3, EntryAdded
<1>9. Held(b, h, N, (M2 \ M) \ {s}) /\ N \subseteq M2
  <2>1. Takes(b, h, N, (M2 \ M) \ {s})
    BY <1>3 DEF FileAdded
  <2> DEFINE new == (M2 \ M) \ {s}
  <2>2. Takes(b, h, N, new)
    BY <2>1
  <2>3. new \subseteq M2
    OBVIOUS
  <2> HIDE DEF new
  <2>4. Held(b, h, N, new)
    BY <1>1, <2>2, TakesHolds
  <2> QED
    BY <2>2, <2>3, <2>4 DEF Takes, new
<1>10. room => Complete(b, h)
  BY MadeIsComplete DEF b, h
<1>11. f = [path |-> p, sector |-> s, isDirectory |-> FALSE]
  <2>1. isDir = FALSE
    BY DEF Making
  <2> QED
    BY <2>1
<1> HIDE DEF f
<1> QED
  BY <1>1, <1>7, <1>8, <1>9, <1>10, <1>11 DEF CreatedIn, Entries, b, c, h, M2

\* On a sound disk a Create that returns TRUE has made its file.
LEMMA CreateMakes ==
  ASSUME NEW H, NEW D, SoundDisk(H, D), NEW p \in Path, NEW size \in FileSize,
         ~ThroughFile(Disk, p), NEW r, r = CreateResult(p, size), r.ok
  PROVE  \E s : CreatedIn(r.w, p, size, s, Needed(size) <= NumClear(Disk))
<1> DEFINE parent == FindPath(Disk, Seqs!Front(p))
           w == FetchMap(Disk)
           x == Seqs!Last(p)
           e == FetchTable(w, parent)
           s == FindAndSet(w)
           a == Allocate(Marked(w, s), size)
           v == WrittenBack(a.w, s, a.header, parent, Add(e, x, s, FALSE))
<1>21. p \in Path
  OBVIOUS
<1>1. /\ Disk \in World /\ Disk.onDisk = map /\ Disk.content = content /\ Disk.map = map
      /\ Sound(Disk.content, Disk.onDisk, H, D, {})
  BY DEF SoundDisk
<1>2. /\ w \in World /\ w.map = map /\ w.onDisk = map /\ w.content = content /\ ~w.aborted
      /\ Sound(w.content, w.onDisk, H, D, {})
  BY <1>1, FetchMapIs DEF SoundDisk
<1>3. p \in Seq(Name) /\ p # <<>> /\ x \in Name
  BY LastIs
<1>4. \/ parent \in D /\ \E q : Chain(content, D, q, p, Len(p) - 1) /\ q[Len(p) - 1] = parent
      \/ parent = -1 \/ parent = -2
  BY <1>1, <1>3, ParentAt
<1>5. size \in 1 .. MaxSize
  BY TreeAssumption DEF MaxSize
<1>6. r = IF parent = -1 THEN Failed(Disk)
          ELSE IF parent = -2 \/ Unreadable(w, parent) THEN Failed(Abort(Disk))
          ELSE IF Find(e, x) # -1 \/ s = -1 \/ ~CanAdd(e, x) THEN Failed(Disk)
          ELSE IF ~a.ok THEN Failed(a.w)
          ELSE [w |-> v, ok |-> ~a.w.aborted]
  BY DEF CreateResult
<1>0. x = Seqs!Last(p)
  OBVIOUS
<1>7. NumClear(w) = NumClear(Disk)
  BY <1>1, <1>2 DEF NumClear, Free
<1> HIDE DEF x, w, parent
<1>8. \A u : ~Failed(u).ok
  BY DEF Failed
<1>9. /\ parent # -1 /\ parent # -2 /\ ~Unreadable(w, parent) /\ s # -1 /\ CanAdd(e, x) /\ a.ok
      /\ r = [w |-> v, ok |-> ~a.w.aborted]
  BY <1>6, <1>8
<1> DEFINE no == FALSE
           done == ~a.w.aborted
<1>10. r.w = v /\ done
  <2>1. r = [w |-> v, ok |-> done]
    BY <1>9
  <2> HIDE DEF done
  <2>2. r.w = v /\ r.ok = done
    BY <2>1
  <2> QED
    BY <2>2
<1>11. PICK q : parent \in D /\ Chain(content, D, q, p, Len(p) - 1) /\ q[Len(p) - 1] = parent
  BY <1>4, <1>9
<1>12. Making(w, H, D, parent, x, no, size, s, a, v)
  BY <1>2, <1>3, <1>5, <1>9, <1>11 DEF Making
<1>13. ~no
  OBVIOUS
<1>14. s \in Sector
  BY <1>2, <1>9, FoundIsFree
<1> HIDE DEF no, s, a, v
<1>15. v \in World /\ Made(w, parent, x, no, size, s, a, v)
  BY <1>10, <1>12, <1>14, FileMade
<1>16. PICK p0 : ParentPath(content, D, p, Seqs!Last(p), q, parent, p0)
  <2> DEFINE m == Len(p) - 1
  <2>1. m \in Nat /\ Len(p) = m + 1 /\ Chain(content, D, q, p, m) /\ q[m] = parent
    BY <1>11, LastIs
  <2> HIDE DEF m
  <2>2. \E p0 : ParentPath(content, D, p, Seqs!Last(p), q, q[m], p0)
    BY <2>1, PathOfParent
  <2> QED
    BY <2>1, <2>2
<1>17. ParentPath(w.content, D, p, x, q, parent, p0) /\ CanAdd(FetchTable(w, parent), x)
  BY <1>0, <1>2, <1>9, <1>16
<1> DEFINE room == Needed(size) <= NumClear(Disk)
<1>18. room \in BOOLEAN /\ (room => NumClear(w) >= Needed(size))
  BY <1>7
<1> HIDE DEF room
<1>19. CreatedIn(v, p, size, s, room)
  BY <1>2, <1>12, <1>13, <1>15, <1>17, <1>18, MadeIsCreated
<1> QED
  BY <1>10, <1>19 DEF room

\* On a sound disk Create makes its file, or leaves the disk as it is.
LEMMA IInvCreates == IInv => CreateIsAllOrNothing
<1> SUFFICES ASSUME IInv, NEW p \in Path, NEW size \in FileSize, Legal(p)
             PROVE  LET r == CreateResult(p, size)
                        c == r.w.content
                    IN  IF r.ok
                        THEN \E f \in EntriesIn(c) \ Entries :
                               /\ EntriesIn(c) = Entries \cup {f}
                               /\ f.path = p /\ ~f.isDirectory /\ c[f.sector].numBytes = size
                               /\ Needed(size) <= NumClear(Disk) => Complete(c, c[f.sector])
                        ELSE r.w.onDisk = map /\ \A y \in map : c[y] = content[y]
  BY DEF CreateIsAllOrNothing
<1> DEFINE r == CreateResult(p, size)
<1>1. PICK H, D : SoundDisk(H, D)
  BY DiskIsSound DEF Legal
<1>2. ~ThroughFile(Disk, p) /\ r = CreateResult(p, size)
  BY DEF Legal
<1> HIDE DEF r
<1>3. CASE r.ok
  <2>1. PICK s : CreatedIn(r.w, p, size, s, Needed(size) <= NumClear(Disk))
    BY <1>1, <1>2, <1>3, CreateMakes
  <2> DEFINE v == r.w
             b == v.content
             f == [path |-> p, sector |-> s, isDirectory |-> FALSE]
             room == Needed(size) <= NumClear(Disk)
  <2>2. /\ EntriesIn(b) = Entries \cup {f} /\ f \notin Entries
        /\ b[s].numBytes = size /\ (room => Complete(b, b[s]))
    BY <2>1 DEF CreatedIn
  <2>3. f \in EntriesIn(b) \ Entries /\ f.path = p /\ ~f.isDirectory /\ f.sector = s
    BY <2>2
  <2> HIDE DEF f, b, room
  <2>4. \E g \in EntriesIn(b) \ Entries :
          /\ EntriesIn(b) = Entries \cup {g}
          /\ g.path = p /\ ~g.isDirectory /\ b[g.sector].numBytes = size
          /\ room => Complete(b, b[g.sector])
    BY <2>2, <2>3
  <2> QED
    BY <1>2, <1>3, <2>4 DEF b, room
<1>4. CASE ~r.ok
  <2> DEFINE v == r.w
  <2>1. v \in World /\ SameMarked(Disk, v) /\ Disk.onDisk = map /\ Disk.content = content
    BY <1>1, <1>2, <1>4, CreateIs DEF LeavesSound, SoundDisk
  <2>2. v.onDisk = map /\ \A y \in map : v.content[y] = content[y]
    BY <2>1 DEF SameMarked
  <2> QED
    BY <1>2, <1>4, <2>2
<1> QED
  BY <1>3, <1>4

\* A Create that returns TRUE has added one file to the tree, of the path and the
\* size it was given, and with a sector for each of its blocks if there was room;
\* one that returns FALSE has changed nothing on the disk (filesys.cc:261).
THEOREM CreatesAreAllOrNothing == Spec => []CreateIsAllOrNothing
<1> QED
  BY DiskStaysSound, IInvCreates, PTL
===============================================================================
