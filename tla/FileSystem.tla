------------------------------ MODULE FileSystem ------------------------------
(***************************************************************************)
(* FileSystem and Directory of NachOS/filesys/filesys.cc and directory.cc, *)
(* one operation at a time ("there is no synchronization for concurrent    *)
(* accesses", filesys.cc:33).  A path is a sequence of names; an operation *)
(* is a function of the disk.  It works on w, see FileHeader: w.map is the *)
(* bitmap it read into memory, w.onDisk the bitmap file; an abort leaves   *)
(* what was written before it, and the kernel is started again without     *)
(* formatting.                                                             *)
(***************************************************************************)
EXTENDS FileHeader
INSTANCE OpenFile

CONSTANTS
  Name,           \* components of a path
  Path,           \* the paths the calls name
  FileSize,       \* the initial sizes of created files
  NumDirEntries,  \* 64: entries of a directory
  DirectoryFileSize,
  FreeMapFileSize,  \* NumSectors / 8, which on the disk of disk.h takes sub-headers
  PathMax         \* pwd[20] of RecursiveRemove has room for that many names

ASSUME TreeAssumption ==
  /\ Path \subseteq Seq(Name) \ {<<>>}
  /\ FileSize \cup {FreeMapFileSize} \subseteq 1 .. NumDirect * Limit4   \* more overflows a header
  /\ NumDirEntries \in Nat \ {0} /\ PathMax \in Nat
  /\ DirectoryFileSize \in 1 .. Limit2   \* a table has no sub-headers
  /\ NumSectors >= 2

VARIABLES
  map,      \* the contents of the bitmap file: the sectors in use
  content,  \* what each sector holds: a header, the table of a directory, data
  cutShort  \* a recursive removal was aborted after it had removed something

vars == <<map, content, cutShort>>

FreeMapSector   == 0
DirectorySector == 1

\* A directory table occupies its file; only its first sector is told apart.
\* The bitmap is the variable map; its file has sectors like any other.
Unused == [inUse |-> FALSE, sector |-> -1, isDirectory |-> FALSE, name |-> ""]
Table(e) == [kind |-> "table", entry |-> e]
EmptyTable == [i \in 1 .. NumDirEntries |-> Unused]
Data == [kind |-> "data"]

\* The disk and the bitmap in memory, see FileHeader, as they can be.
Header == [kind : {"header"}, numBytes : Nat, numSectors : Nat, dataSectors : [Direct -> Int]]
Entry  == [inUse : BOOLEAN, sector : Int, isDirectory : BOOLEAN, name : Name \cup {""}]
Content == [Sector -> Header \cup {Data} \cup [kind : {"table"}, entry : [1 .. NumDirEntries -> Entry]]]
World ==
  [map : SUBSET Sector, onDisk : SUBSET Sector, content : Content, aborted : BOOLEAN,
   past : Seq([onDisk : SUBSET Sector, content : Content])]

\* FileSystem::FileSystem(TRUE): it asserts that both files have their sectors.
Init ==
  LET w0  == [map |-> {FreeMapSector, DirectorySector}, onDisk |-> {},
              aborted |-> FALSE, past |-> <<>>,
              content |-> [s \in Sector |-> Data]]
      m   == Allocate(w0, FreeMapFileSize)
      d   == Allocate(m.w, DirectoryFileSize)
  IN  /\ m.ok /\ d.ok /\ ~d.w.aborted
      /\ map = d.w.map
      /\ content = [d.w.content EXCEPT
                     ![FreeMapSector] = m.header,
                     ![DirectorySector] = d.header,
                     ![d.header.dataSectors[0]] = Table(EmptyTable)]
      /\ cutShort = FALSE

-------------------------------------------------------------------------------
(* Directory *)

\* The first of the entries I of a table, 0 if there is none.
First(I) == IF I = {} THEN 0 ELSE CHOOSE i \in I : \A j \in I : i <= j

\* FindIndex: the first entry in use with this name, 0 if there is none.
FindIndex(e, x) == First({i \in DOMAIN e : e[i].inUse /\ e[i].name = x})

Find(e, x) == IF FindIndex(e, x) = 0 THEN -1 ELSE e[FindIndex(e, x)].sector

\* IsDirectory returns -1, which is true, for a name that is not there.
IsDirectory(e, x) == IF FindIndex(e, x) = 0 THEN TRUE ELSE e[FindIndex(e, x)].isDirectory

\* Add: the table, unchanged when the name is there or no entry is free.
FreeEntry(e) == First({i \in DOMAIN e : ~e[i].inUse})
CanAdd(e, x) == FindIndex(e, x) = 0 /\ FreeEntry(e) # 0

\* A variant used as a mutant: under a name in use.
AddDuplicate(e, x, s, isDir) ==
  IF FreeEntry(e) # 0
  THEN [e EXCEPT ![FreeEntry(e)] =
         [inUse |-> TRUE, sector |-> s, isDirectory |-> isDir, name |-> x]]
  ELSE e

Add(e, x, s, isDir) ==
  IF CanAdd(e, x)
  THEN [e EXCEPT ![FreeEntry(e)] =
         [inUse |-> TRUE, sector |-> s, isDirectory |-> isDir, name |-> x]]
  ELSE e

RemoveEntry(e, x) ==
  IF FindIndex(e, x) = 0 THEN e ELSE [e EXCEPT ![FindIndex(e, x)] = Unused]

\* The sector of the table of the directory whose header is in s.
TableSector(w, s) == ByteToSector(w.content, w.content[s], 0)

\* FetchFrom, WriteBack of the directory with header in s.
FetchTable(w, s) == w.content[TableSector(w, s)].entry
Unreadable(w, s) == TableSector(w, s) \notin Sector
WriteTable(w, s, e) == IF w.aborted THEN w ELSE WriteSector(w, TableSector(w, s), Table(e))

\* PersistentBitmap: read the bitmap file, write it.
FetchMap(w) == [w EXCEPT !.map = w.onDisk]
WriteMap(w) == IF w.aborted THEN w ELSE Flushed([w EXCEPT !.onDisk = w.map])

Disk == [map |-> map, onDisk |-> map, content |-> content, aborted |-> FALSE, past |-> <<>>]

-------------------------------------------------------------------------------
(***************************************************************************)
(* The walk along p of Remove and RecursiveRemove: the directory it stops  *)
(* in (here), the one above it (above), and how many names of p it went    *)
(* through (depth), each a directory of the one before.                    *)
(***************************************************************************)
HasDirectory(w, here, x) ==
  ~Unreadable(w, here) /\ FindIndex(FetchTable(w, here), x) # 0
    /\ IsDirectory(FetchTable(w, here), x)

NextDirectory(w, k, i, x) ==
  IF k.depth = i - 1 /\ HasDirectory(w, k.here, x)
  THEN [above |-> k.here, here |-> Find(FetchTable(w, k.here), x), depth |-> i] ELSE k

Along(w, p) ==
  LET after[i \in 0 .. Len(p)] ==
        IF i = 0 THEN [above |-> DirectorySector, here |-> DirectorySector, depth |-> 0]
        ELSE NextDirectory(w, after[i - 1], i, p[i])
  IN  after

Walk(w, p) == Along(w, p)[Len(p)]

\* Directory::FindPath: the header sector of the directory or file at path p,
\* -1 if there is none, -2 if reading a table aborts.
NextOnPath(w, s, x) ==
  IF s < 0 THEN s ELSE IF Unreadable(w, s) THEN -2 ELSE Find(FetchTable(w, s), x)

OnPath(w, p) ==
  LET after[i \in 0 .. Len(p)] ==
        IF i = 0 THEN DirectorySector ELSE NextOnPath(w, after[i - 1], p[i])
  IN  after

FindPath(w, p) == OnPath(w, p)[Len(p)]

\* FileSystem::Open: the OpenFile of the file or directory at p, none if there is
\* no such path.
Open(w, p) == IF FindPath(w, p) \in Sector THEN {Opened(w.content[FindPath(w, p)])} ELSE {}

\* An entry that is not a directory's stands on the way to p's last name.
ThroughFile(w, p) ==
  LET k == Walk(w, p)
  IN  /\ k.depth + 1 < Len(p) /\ ~Unreadable(w, k.here)
      /\ FindIndex(FetchTable(w, k.here), p[k.depth + 1]) # 0

\* A Create that fails writes nothing of what it changed in memory.
FlushedAnyway(w) == [w |-> WriteMap(w), ok |-> FALSE]
Failed(w) == [w |-> w, ok |-> FALSE]

\* What both write, in this order, when s is the header sector of the new file h
\* and e the table of its directory, parent; a variant used as a mutant.
TableFirst(w, s, h, parent, e) ==
  WriteMap(WriteSector(WriteTable(w, parent, e), s, h))

WrittenBack(w, s, h, parent, e) ==
  WriteMap(WriteTable(WriteSector(w, s, h), parent, e))

\* FileSystem::Create
CreateResult(p, size) ==
  LET parent == FindPath(Disk, Seqs!Front(p))
      w == FetchMap(Disk)
      e == FetchTable(w, parent)
      s == FindAndSet(w)
      a == Allocate(Marked(w, s), size)
  IN  IF parent = -1 THEN Failed(Disk)
      ELSE IF parent = -2 \/ Unreadable(w, parent) THEN Failed(Abort(Disk))
      ELSE IF Find(e, Seqs!Last(p)) # -1 \/ s = -1 \/ ~CanAdd(e, Seqs!Last(p))
      THEN Failed(Disk)
      ELSE IF ~a.ok THEN Failed(a.w)
      ELSE [w  |-> WrittenBack(a.w, s, a.header, parent, Add(e, Seqs!Last(p), s, FALSE)),
            ok |-> ~a.w.aborted]

\* FileSystem::CreateDirectory: no result is looked at, and the table is written
\* last, over what was left in its sector.
CreateDirectoryResult(p) ==
  LET parent == FindPath(Disk, Seqs!Front(p))
      w == FetchMap(Disk)
      e == FetchTable(w, parent)
      s == FindAndSet(w)
      a == Allocate(Marked(w, s), DirectoryFileSize)
      v == WrittenBack(a.w, s, a.header, parent, Add(e, Seqs!Last(p), s, TRUE))
  IN  IF parent = -1 THEN Disk
      ELSE IF parent = -2 \/ Unreadable(w, parent) THEN Abort(Disk)
      ELSE IF v.aborted THEN v
      ELSE WriteTable(v, s, EmptyTable)

-------------------------------------------------------------------------------
\* What both do to the entry x of the table e, held in memory, of directory dir.
RemoveFileKeepsHeader(w, dir, e, x) ==
  WriteTable(WriteMap(Deallocate(FetchMap(w), w.content[Find(e, x)])), dir, RemoveEntry(e, x))

RemoveFile(w, dir, e, x) ==
  LET s == Find(e, x)
      v == Deallocate(FetchMap(w), w.content[s])
  IN  WriteTable(WriteMap([v EXCEPT !.map = @ \ {s}]), dir, RemoveEntry(e, x))

\* The directory Remove looks in: the one above when the walk ended in p itself.
LooksInHere(k, p) == k.here
LooksIn(k, p) == IF k.depth < Len(p) THEN k.here ELSE k.above

\* The name both look for: the last, or the one the walk stopped at.
LooksFor(k, p) == IF k.depth < Len(p) THEN p[k.depth + 1] ELSE Seqs!Last(p)

\* FileSystem::Remove
RemoveFrom(w, p) ==
  LET k   == Walk(w, p)
      dir == LooksIn(k, p)
      x   == LooksFor(k, p)
      e   == FetchTable(w, dir)
  IN  IF w.aborted \/ Unreadable(w, k.here) THEN [w |-> Abort(w), ok |-> FALSE]
      ELSE IF Find(e, x) = -1 THEN [w |-> w, ok |-> FALSE]
      ELSE [w |-> RemoveFile(w, dir, e, x), ok |-> ~RemoveFile(w, dir, e, x).aborted]

(***************************************************************************)
(* FileSystem::RecursiveRemove.  The table e it goes through stays as it   *)
(* was read, whatever the calls for the directories in it, sub, write to   *)
(* the disk.                                                               *)
(***************************************************************************)
NextEntry(sub, v, dir, p, i) ==
  IF v.w.aborted \/ ~v.e[i].inUse THEN v
  ELSE IF v.e[i].isDirectory THEN [v EXCEPT !.w = sub[v.w][Append(p, v.e[i].name)]]
  ELSE [w |-> RemoveFile(v.w, dir, v.e, v.e[i].name), e |-> RemoveEntry(v.e, v.e[i].name)]

EntriesRemoved(sub, w, dir, p) ==
  LET after[i \in 0 .. NumDirEntries] ==
        IF i = 0 THEN [w |-> w, e |-> FetchTable(w, dir)]
        ELSE NextEntry(sub, after[i - 1], dir, p, i)
  IN  after

RemoveTree(sub, w, p) ==
  LET k == Walk(w, p)
      x == LooksFor(k, p)
      e == FetchTable(w, k.here)
  IN  IF w.aborted \/ Unreadable(w, k.here) THEN Abort(w)
      ELSE IF IsDirectory(e, x)
      THEN RemoveFrom(EntriesRemoved(sub, w, k.here, p)[NumDirEntries].w, p).w
      ELSE RemoveFile(w, k.here, e, x)

\* Called for a path of PathMax - d + 1 names or, with d = 0, of too many.
Removal[d \in 0 .. PathMax + 1] ==
  [w \in World |-> [p \in Seq(Name) |->
     IF d = 0 THEN Abort(w) ELSE RemoveTree(Removal[d - 1], w, p)]]

RemoveResult(p) == RemoveFrom(Disk, p)
RecursiveRemoveResult(p) ==
  Removal[IF Len(p) > PathMax THEN 0 ELSE PathMax + 1 - Len(p)][Disk][p]

-------------------------------------------------------------------------------
\* The disk after an operation.  A sector that is given back keeps what it holds.
Effect(w) == ~cutShort /\ map' = w.onDisk /\ content' = w.content

\* A path that goes through a file would have its bytes read as a table.
Create(p, size) ==
  /\ ~ThroughFile(Disk, p)
  /\ Effect(CreateResult(p, size).w)
  /\ UNCHANGED cutShort

CreateDirectory(p) ==
  /\ ~ThroughFile(Disk, p)
  /\ Effect(CreateDirectoryResult(p))
  /\ UNCHANGED cutShort

Remove(p) == Effect(RemoveResult(p).w) /\ UNCHANGED cutShort

RecursiveRemove(p) ==
  LET w == RecursiveRemoveResult(p)
  IN  Effect(w) /\ cutShort' = (w.aborted /\ w.onDisk # map)

Next ==
  \/ \E p \in Path, size \in FileSize : Create(p, size)
  \/ \E p \in Path : CreateDirectory(p)
  \/ \E p \in Path : Remove(p)
  \/ \E p \in Path : RecursiveRemove(p)

Spec == Init /\ [][Next]_vars

-------------------------------------------------------------------------------
(* Properties.  An operation is a function of the disk: what it promises is
   stated of its result on every disk that can be reached. *)

\* The files and directories that can be reached in c from the root; none below
\* a directory without a header and a table, whose bytes could be anything.
EntriesOf(c, f) ==
  IF \/ c[f.sector].kind # "header" \/ c[f.sector].numBytes > Limit2
     \/ \A t \in Sector \cap {ByteToSector(c, c[f.sector], 0)} : c[t].kind # "table" THEN {}
  ELSE LET e == c[ByteToSector(c, c[f.sector], 0)].entry
       IN  {[path |-> Append(f.path, e[i].name), sector |-> e[i].sector,
             isDirectory |-> e[i].isDirectory] : i \in {i \in DOMAIN e : e[i].inUse}}

Root == [path |-> <<>>, sector |-> DirectorySector, isDirectory |-> TRUE]

\* Within n names; as each directory has a table, no path has more than there are.
Tables(c) == Cardinality({t \in Sector : c[t].kind = "table"})

Reached(c) ==
  LET within[n \in 0 .. Tables(c)] ==
        IF n = 0 THEN {Root}
        ELSE {Root} \cup UNION {EntriesOf(c, f) : f \in {f \in within[n - 1] : f.isDirectory}}
  IN  within

EntriesIn(c) == Reached(c)[Tables(c)] \ {Root}

\* And the two files that have no entry.
FilesIn(c) == EntriesIn(c) \cup
  {Root, [path |-> <<"">>, sector |-> FreeMapSector, isDirectory |-> FALSE]}

Entries == EntriesIn(content)
Files == FilesIn(content)
Owned(f) == SectorsOf(content, f.sector)

\* The files of F are at their paths, in the same sectors, on the disk v.
Kept(F, v) ==
  /\ F \subseteq FilesIn(v.content)
  /\ \A f \in F : /\ Layout(v.content, f.sector) = Layout(content, f.sector)
                  /\ Owned(f) \subseteq v.onDisk

\* What is at p and below it.
Under(p) == {f \in Entries : Seqs!IsPrefix(p, f.path)}

\* What Deallocate and Clear give back of f; the sectors of sub-headers stay.
GivenBack(f) == {f.sector} \cup DataOf(content, content[f.sector])

\* The calls that are made.
Legal(p) == ~cutShort /\ ~ThroughFile(Disk, p)

\* Sectors, headers and tables are what they should be, and no directory has
\* two entries of one name (Directory::Add).
TypeOK ==
  /\ map \subseteq Sector /\ cutShort \in BOOLEAN
  /\ DOMAIN content = Sector
  /\ \A s \in Sector : content[s].kind \in {"header", "table", "data"}
  /\ ~cutShort => \A f, g \in Entries : f.path = g.path => f = g

\* Every sector of a file or directory that can be reached is marked in the
\* bitmap, belongs to it alone, and once (FileHeader::Allocate, the bitmap).
EachSectorOneOwner ==
  ~cutShort =>
    \A f \in Files :
      LET sectors == Layout(content, f.sector)
      IN  /\ \A r, q \in DOMAIN sectors :
               /\ sectors[r] # f.sector
               /\ r # q => sectors[r] # sectors[q]
          /\ Owned(f) \subseteq map
          /\ \A g \in Files \ {f} : Owned(f) \cap Owned(g) = {}

\* A Create that returns TRUE adds one file, which is found at its path and,
\* when the disk had room for its data and headers, has a sector for every
\* block; one that fails, or aborts, leaves the sectors in use as they were ("if
\* the operation fails, ... we simply discard the changed version", filesys.cc:27).
CreateIsAllOrNothing ==
  \A p \in Path, size \in FileSize :
    LET r == CreateResult(p, size)
        c == r.w.content
    IN  Legal(p) =>
          IF r.ok
          THEN \E f \in EntriesIn(c) \ Entries :
                 /\ EntriesIn(c) = Entries \cup {f}
                 /\ f.path = p /\ ~f.isDirectory /\ c[f.sector].numBytes = size
                 /\ Needed(size) <= NumClear(Disk) => Complete(c, c[f.sector])
          ELSE r.w.onDisk = map /\ \A s \in map : c[s] = content[s]

\* An exit after any of the writes of an operation harms at most the file or
\* directory the operation is about ("if Nachos exits in the middle ... it may
\* corrupt the disk", filesys.cc:39): every other one is at its path in its
\* sectors.  A Create has by then added nothing, or its file with its header, in
\* sectors nobody had; a CreateDirectory may have added more than its directory,
\* but only below it: what a removed directory left in the sector of its table.
ExitHarmsOnlyItsFile ==
  LET before == Entries
      files == Files
  IN  \A p \in Path : Legal(p) =>
        /\ \A size \in FileSize : \A v \in Seqs!ToSet(CreateResult(p, size).w.past) :
             /\ Kept(files, v)
             /\ \A f \in EntriesIn(v.content) \ before :
                  /\ f.path = p /\ ~f.isDirectory /\ v.content[f.sector].kind = "header"
                  /\ v.content[f.sector].numBytes = size
                  /\ SectorsOf(v.content, f.sector) \cap map = {}
        /\ \A v \in Seqs!ToSet(CreateDirectoryResult(p).past) :
             /\ Kept(files, v)
             /\ \A f \in EntriesIn(v.content) \ before : Seqs!IsPrefix(p, f.path)
        /\ \A v \in Seqs!ToSet(RemoveResult(p).w.past) :
             Kept({f \in files : ~Seqs!IsPrefix(p, f.path)}, v)

\* A Remove that returns TRUE takes the file or directory at the path it was given
\* out of the tree, with what is under it, and gives back its header and blocks
\* and no other sector.  (Not on a path through a file: that file is removed, and
\* TRUE returned, although "FALSE if the file wasn't in the file system" is
\* promised, filesys.cc:353.)
RemoveFreesItsOwn ==
  \A p \in Path :
    LET r == RemoveResult(p)
        gone == Under(p)
    IN  Legal(p) /\ r.ok =>
          \E f \in Entries :
            /\ f.path = p
            /\ EntriesIn(r.w.content) = Entries \ gone
            /\ Kept(Files \ gone, r.w)
            /\ r.w.onDisk = map \ GivenBack(f)

\* A RecursiveRemove of a directory that is not aborted takes away all that is
\* under it and gives back every header and block, although each call writes
\* the table it read before the calls for the subdirectories; and nothing else.
\* (Of a directory with a file of its own name it removes that file alone.)
RecursiveRemoveFreesTheTree ==
  \A p \in Path :
    LET w == RecursiveRemoveResult(p)
        gone == Under(p)
    IN  /\ ~cutShort /\ ~w.aborted
        /\ \E f \in Entries : f.path = p /\ f.isDirectory
        /\ \A f \in gone : f.isDirectory \/ Seqs!Last(f.path) # Seqs!Last(Seqs!Front(f.path))
        => /\ EntriesIn(w.content) = Entries \ gone
           /\ Kept(Files \ gone, w)
           /\ w.onDisk = map \ UNION {GivenBack(f) : f \in gone}

\* ByteToSector finds the blocks of an open file that has all of them, each a
\* sector of its own.  Whatever the position and the number of bytes, a Write to it
\* then changes these bytes of it, up to its length, and no other byte on the disk,
\* although it writes whole sectors; a Read returns what is there.
WritesChangeTheirBytes ==
  \A p \in {p \in Path : Legal(p)} : \A o \in Open(Disk, p) :
    LET blocks == BlocksOf(content, FindPath(Disk, p))
    IN  Complete(content, o.hdr) =>
          /\ Laid(content, o.hdr, blocks)
          /\ \A pos \in 0 .. o.hdr.numBytes, n \in 0 .. o.hdr.numBytes + 1 :
               WriteIsExact(OldBytes, content, o.hdr, blocks, pos, NewBytes(n))

-------------------------------------------------------------------------------
(* What comments say and the code does not do *)

\* "Return FALSE if there are not enough free blocks to accomodate the new
\* file" (filehdr.cc:65): after a Create that returns TRUE the file has them.
CreateHoldsItsSize ==
  \A p \in Path, size \in FileSize :
    LET r == CreateResult(p, size)
    IN  Legal(p) /\ r.ok => Complete(r.w.content, r.w.content[FindPath(r.w, p)])

\* "Return TRUE if the file was deleted" (filesys.cc:353): a file that was
\* created with all its blocks can be removed.
CompleteFilesCanBeRemoved ==
  \A f \in Entries :
    ~cutShort /\ ~f.isDirectory /\ f.path \in Path /\ Complete(content, content[f.sector])
      => RemoveResult(f.path).ok
===============================================================================
