--------------------------- MODULE UserProgramsProofs ---------------------------
(***************************************************************************)
(* Theorems about OpenFileTable and UserPrograms: the open-file calls keep *)
(* their table and the UNIX descriptors together and implement OpenFiles,  *)
(* and so they do when user programs make them; user code is executed in   *)
(* UserMode and kernel code in SystemMode; numbers are printed whole; no   *)
(* thread is lost between the queues; the interrupts to come and the       *)
(* display agree.                                                          *)
(***************************************************************************)
EXTENDS UserPrograms, SequenceTheorems, TLAPS

OpenFileEntries == [file : Descriptor, currentOffset : Nat]

LEMMA EntryNotNull ==
  ASSUME TableAssumption, NEW f \in OpenFileEntries PROVE f # NULL
  <1>1. f \in [file : Nat, currentOffset : Nat]
    BY DEF OpenFileEntries, TableAssumption
  <1> QED BY <1>1 DEF TableAssumption

\* What a Write makes of a file's contents is a sequence of bytes again.
LEMMA WrittenType ==
  ASSUME NEW c \in Seq(Program \cup {Zero}), NEW p \in Nat, NEW w \in Program, NEW n \in Nat
  PROVE  Written(c, p, w, n) \in Seq(Program \cup {Zero})
  <1>1. CASE n = 0
    BY <1>1 DEF Written
  <1>2. CASE n # 0
    <2>1. Longer(c, p + n) \in Nat
      BY DEF Longer
    <2>2. \A i \in 1 .. Longer(c, p + n) :
            (IF i \in p + 1 .. p + n THEN w ELSE IF i <= Len(c) THEN c[i] ELSE Zero)
              \in Program \cup {Zero}
      BY DEF Longer
    <2>3. Written(c, p, w, n) \in [1 .. Longer(c, p + n) -> Program \cup {Zero}]
      BY <1>2, <2>2 DEF Written
    <2> QED BY <2>1, <2>3
  <1> QED BY <1>1, <1>2

LEMMA NumReadType ==
  ASSUME NEW c \in Seq(Program \cup {Zero}), NEW p \in Nat, NEW n \in Nat
  PROVE  NumRead(c, p, n) \in Nat
  BY DEF NumRead

\* The inductive invariant: also, a file that is open exists.
OpenFilesExist == \A d \in Descriptor : descriptor[d] # NULL => contents[descriptor[d]] # NULL

FileInv == FileTypeOK /\ NoDescriptorLeak /\ OpenFilesExist

LEMMA FileInitInv == ASSUME TableAssumption PROVE FileInit => FileInv
  <1> SUFFICES ASSUME FileInit PROVE FileInv
    OBVIOUS
  <1>1. FileTypeOK
    <2>1. <<Zero>> \in Seq(Program \cup {Zero})
      OBVIOUS
    <2> QED BY <2>1 DEF FileInit, FileTypeOK
  <1>2. NoDescriptorLeak
    BY DEF FileInit, NoDescriptorLeak
  <1> QED BY <1>1, <1>2 DEF FileInv, FileInit, OpenFilesExist

\* An entry that is in use is an OpenFile with an open descriptor, for a file
\* that exists.
LEMMA EntryInUse ==
  ASSUME TableAssumption, FileInv, NEW i \in Id, OpenFileTable[i] # NULL
  PROVE  /\ OpenFileTable[i] \in OpenFileEntries
         /\ OpenFileTable[i].file \in Descriptor /\ OpenFileTable[i].currentOffset \in Nat
         /\ NameOf(i) \in Name
         /\ contents[NameOf(i)] \in Seq(Program \cup {Zero})
  <1>1. OpenFileTable[i] \in OpenFileEntries
    BY DEF FileInv, FileTypeOK, OpenFileEntries
  <1>2. descriptor[OpenFileTable[i].file] # NULL
    BY <1>1 DEF FileInv, NoDescriptorLeak, OpenFileEntries
  <1>3. NameOf(i) \in Name
    BY <1>1, <1>2 DEF FileInv, FileTypeOK, OpenFileEntries, NameOf
  <1>4. contents[NameOf(i)] # NULL
    BY <1>1, <1>2 DEF FileInv, OpenFilesExist, OpenFileEntries, NameOf
  <1> QED BY <1>1, <1>3, <1>4 DEF FileInv, FileTypeOK, OpenFileEntries

LEMMA CreateInv ==
  ASSUME TableAssumption, FileInv, NEW n \in Name, Create(n) PROVE FileInv'
  <1>1. FileTypeOK'
    BY DEF FileInv, FileTypeOK, Create
  <1>2. NoDescriptorLeak'
    BY DEF FileInv, NoDescriptorLeak, Create
  <1>3. OpenFilesExist'
    <2>1. <<>> # NULL
      <3>1. <<>> \in Seq(Program \cup {"zero"})
        OBVIOUS
      <3> QED BY <3>1 DEF TableAssumption
    <2>2. SUFFICES ASSUME NEW d \in Descriptor, descriptor[d] # NULL
                   PROVE  contents'[descriptor[d]] # NULL
      BY DEF OpenFilesExist, Create
    <2>3. descriptor[d] \in Name /\ contents[descriptor[d]] # NULL
      BY <2>2 DEF FileInv, FileTypeOK, OpenFilesExist
    <2> QED BY <2>1, <2>3 DEF Create, FileInv, FileTypeOK
  <1> QED BY <1>1, <1>2, <1>3 DEF FileInv

LEMMA OpenInv ==
  ASSUME TableAssumption, FileInv, NEW n \in Name, OpenAFile(n) PROVE FileInv'
  <1>1. PICK d \in NextDescriptor, i \in FreeEntry :
          /\ OpenFileTable' = [OpenFileTable EXCEPT ![i] = [file |-> d, currentOffset |-> 0]]
          /\ descriptor' = [descriptor EXCEPT ![d] = n]
    BY DEF OpenAFile
  <1> DEFINE new == [file |-> d, currentOffset |-> 0]
  <1>2. /\ d \in Descriptor /\ descriptor[d] = NULL
        /\ i \in Id /\ OpenFileTable[i] = NULL
    BY DEF NextDescriptor, FreeEntry
  <1>3. contents' = contents /\ contents[n] # NULL
    BY DEF OpenAFile
  <1>4. n # NULL /\ new \in OpenFileEntries /\ new # NULL
    BY <1>2, EntryNotNull DEF TableAssumption, OpenFileEntries
  <1>5. FileTypeOK'
    BY <1>1, <1>2, <1>3, <1>4 DEF FileInv, FileTypeOK, OpenFileEntries
  <1>6. \A j \in Id : OpenFileTable[j] # NULL => OpenFileTable[j].file # d
    BY <1>2 DEF FileInv, NoDescriptorLeak
  <1>7. /\ OpenFileTable'[i] = new
        /\ \A j \in Id \ {i} : OpenFileTable'[j] = OpenFileTable[j]
        /\ descriptor'[d] = n
        /\ \A e \in Descriptor \ {d} : descriptor'[e] = descriptor[e]
    BY <1>1, <1>2 DEF FileInv, FileTypeOK
  <1>8. NoDescriptorLeak'
    <2>1. ASSUME NEW j \in Id, NEW k \in Id, OpenFileTable'[j] # NULL, OpenFileTable'[k] # NULL,
                 OpenFileTable'[j].file = OpenFileTable'[k].file
          PROVE  j = k
      BY <1>6, <1>7, <2>1 DEF FileInv, NoDescriptorLeak
    <2>2. ASSUME NEW e \in Descriptor
          PROVE  descriptor'[e] # NULL <=>
                   \E j \in Id : OpenFileTable'[j] # NULL /\ OpenFileTable'[j].file = e
      <3>1. CASE e = d
        BY <1>2, <1>4, <1>7, <3>1
      <3>2. CASE e # d
        BY <1>2, <1>6, <1>7, <3>2 DEF FileInv, NoDescriptorLeak
      <3> QED BY <3>1, <3>2
    <2> QED BY <2>1, <2>2 DEF NoDescriptorLeak
  <1>9. OpenFilesExist'
    BY <1>3, <1>7 DEF FileInv, OpenFilesExist
  <1> QED BY <1>5, <1>8, <1>9 DEF FileInv

\* A Read or Write changes the offset of its entry and the bytes of its file.
LEMMA TransferInv ==
  ASSUME TableAssumption, FileInv, NEW id \in Id, OpenFileTable[id] # NULL, NEW p \in Nat,
         OpenFileTable' = [OpenFileTable EXCEPT ![id].currentOffset = p],
         NEW c \in Seq(Program \cup {Zero}),
         contents' = [contents EXCEPT ![NameOf(id)] = c],
         descriptor' = descriptor
  PROVE  FileInv'
  <1> DEFINE new == [OpenFileTable[id] EXCEPT !.currentOffset = p]
  <1>1. /\ OpenFileTable[id] \in OpenFileEntries /\ NameOf(id) \in Name
    BY EntryInUse
  <1>2. /\ new \in OpenFileEntries /\ new # NULL
        /\ new.file = OpenFileTable[id].file
    BY <1>1, EntryNotNull DEF OpenFileEntries
  <1>3. /\ OpenFileTable'[id] = new
        /\ \A j \in Id \ {id} : OpenFileTable'[j] = OpenFileTable[j]
    BY DEF FileInv, FileTypeOK
  <1>4. FileTypeOK'
    BY <1>1, <1>2, <1>3 DEF FileInv, FileTypeOK, OpenFileEntries
  <1>5. \A j \in Id : /\ (OpenFileTable'[j] = NULL) <=> (OpenFileTable[j] = NULL)
                      /\ OpenFileTable[j] # NULL => OpenFileTable'[j].file = OpenFileTable[j].file
    BY <1>2, <1>3
  <1>6. NoDescriptorLeak'
    BY <1>5 DEF FileInv, NoDescriptorLeak
  <1>7. OpenFilesExist'
    <2>1. c # NULL
      BY DEF TableAssumption, Zero
    <2> QED BY <1>1, <2>1 DEF FileInv, FileTypeOK, OpenFilesExist
  <1> QED BY <1>4, <1>6, <1>7 DEF FileInv

LEMMA WriteInv ==
  ASSUME TableAssumption, FileInv, NEW w \in Program, NEW size \in Size, NEW id \in Id,
         WriteFile(w, size, id)
  PROVE  FileInv'
  <1> DEFINE p == OpenFileTable[id].currentOffset
             c == Written(contents[NameOf(id)], p, w, size)
  <1>1. /\ OpenFileTable[id] # NULL /\ size \in Nat
        /\ contents' = [contents EXCEPT ![NameOf(id)] = c]
        /\ OpenFileTable' = [OpenFileTable EXCEPT ![id].currentOffset = p + size]
        /\ descriptor' = descriptor
    BY DEF WriteFile, Valid, TableAssumption
  <1>2. p \in Nat /\ contents[NameOf(id)] \in Seq(Program \cup {Zero})
    BY <1>1, EntryInUse
  <1>3. c \in Seq(Program \cup {Zero})
    BY <1>1, <1>2, WrittenType
  <1>4. p + size \in Nat
    BY <1>1, <1>2
  <1> HIDE DEF c, p
  <1> QED BY <1>1, <1>3, <1>4, TransferInv

LEMMA ReadInv ==
  ASSUME TableAssumption, FileInv, NEW size \in Size, NEW id \in Id, ReadFile(size, id)
  PROVE  FileInv'
  <1> DEFINE p == OpenFileTable[id].currentOffset
             c == contents[NameOf(id)]
             q == p + NumRead(c, p, size)
  <1>1. /\ OpenFileTable[id] # NULL /\ size \in Nat
        /\ OpenFileTable' = [OpenFileTable EXCEPT ![id].currentOffset = q]
        /\ contents' = contents /\ descriptor' = descriptor
    BY DEF ReadFile, Valid, TableAssumption
  <1>2. p \in Nat /\ c \in Seq(Program \cup {Zero}) /\ NameOf(id) \in Name
    BY <1>1, EntryInUse
  <1>3. q \in Nat
    <2>1. NumRead(c, p, size) \in Nat
      BY <1>1, <1>2, NumReadType
    <2> QED BY <1>2, <2>1
  <1>4. contents' = [contents EXCEPT ![NameOf(id)] = c]
    BY <1>1, <1>2 DEF FileInv, FileTypeOK
  <1> HIDE DEF q, c
  <1> QED BY <1>1, <1>2, <1>3, <1>4, TransferInv

LEMMA CloseInv ==
  ASSUME TableAssumption, FileInv, NEW id \in Id, CloseFile(id) PROVE FileInv'
  <1> DEFINE d == OpenFileTable[id].file
  <1>1. /\ OpenFileTable[id] # NULL
        /\ descriptor' = [descriptor EXCEPT ![d] = NULL]
        /\ OpenFileTable' = [OpenFileTable EXCEPT ![id] = NULL]
        /\ contents' = contents
    BY DEF CloseFile, Valid
  <1>2. d \in Descriptor
    BY <1>1, EntryInUse
  <1>3. /\ OpenFileTable'[id] = NULL
        /\ \A j \in Id \ {id} : OpenFileTable'[j] = OpenFileTable[j]
        /\ descriptor'[d] = NULL
        /\ \A e \in Descriptor \ {d} : descriptor'[e] = descriptor[e]
    BY <1>1, <1>2 DEF FileInv, FileTypeOK
  <1>4. FileTypeOK'
    BY <1>1 DEF FileInv, FileTypeOK
  <1>5. \A j \in Id \ {id} : OpenFileTable[j] # NULL => OpenFileTable[j].file # d
    BY <1>1 DEF FileInv, NoDescriptorLeak
  <1>6. NoDescriptorLeak'
    <2>1. ASSUME NEW j \in Id, NEW k \in Id, OpenFileTable'[j] # NULL, OpenFileTable'[k] # NULL,
                 OpenFileTable'[j].file = OpenFileTable'[k].file
          PROVE  j = k
      BY <1>3, <2>1 DEF FileInv, NoDescriptorLeak
    <2>2. ASSUME NEW e \in Descriptor
          PROVE  descriptor'[e] # NULL <=>
                   \E j \in Id : OpenFileTable'[j] # NULL /\ OpenFileTable'[j].file = e
      <3>1. CASE e = d
        BY <1>3, <1>5, <3>1
      <3>2. CASE e # d
        BY <1>3, <3>2 DEF FileInv, NoDescriptorLeak
      <3> QED BY <3>1, <3>2
    <2> QED BY <2>1, <2>2 DEF NoDescriptorLeak
  <1>7. OpenFilesExist'
    BY <1>1, <1>3 DEF FileInv, OpenFilesExist
  <1> QED BY <1>4, <1>6, <1>7 DEF FileInv

LEMMA FileCallInv ==
  ASSUME TableAssumption, FileInv, NEW w \in Program, FileCall(w) PROVE FileInv'
  <1>1. ASSUME NEW n \in Name, Create(n) PROVE FileInv'
    BY <1>1, CreateInv
  <1>2. ASSUME NEW n \in Name, OpenAFile(n) PROVE FileInv'
    BY <1>2, OpenInv
  <1>3. ASSUME NEW id \in Id, NEW size \in Size, WriteFile(w, size, id) PROVE FileInv'
    BY <1>3, WriteInv
  <1>4. ASSUME NEW id \in Id, NEW size \in Size, ReadFile(size, id) PROVE FileInv'
    BY <1>4, ReadInv
  <1>5. ASSUME NEW id \in Id, CloseFile(id) PROVE FileInv'
    BY <1>5, CloseInv
  <1> QED BY <1>1, <1>2, <1>3, <1>4, <1>5 DEF FileCall

LEMMA FileStutterInv == FileInv /\ UNCHANGED fileVars => FileInv'
  BY DEF FileInv, FileTypeOK, NoDescriptorLeak, OpenFilesExist, fileVars

LEMMA FileInvariant == ASSUME TableAssumption PROVE FileSpec => []FileInv
  <1>1. FileInit => FileInv
    BY FileInitInv
  <1>2. FileInv /\ [\E w \in Program : FileCall(w)]_fileVars => FileInv'
    BY FileCallInv, FileStutterInv
  <1> QED BY <1>1, <1>2, PTL DEF FileSpec

\* The types of the table of open files, the descriptors and the files.
THEOREM FileTypes == ASSUME TableAssumption PROVE FileSpec => []FileTypeOK
  <1>1. FileInv => FileTypeOK
    BY DEF FileInv
  <1> QED BY <1>1, FileInvariant, PTL

\* The entries in use and the open descriptors belong together one to one.
THEOREM FilesDoNotLeak == ASSUME TableAssumption PROVE FileSpec => []NoDescriptorLeak
  <1>1. FileInv => NoDescriptorLeak
    BY DEF FileInv
  <1> QED BY <1>1, FileInvariant, PTL

-------------------------------------------------------------------------------
(* The refinement of OpenFiles *)

LEMMA WrittenIsOverwritten ==
  ASSUME NEW c \in Seq(Program \cup {Zero}), NEW p \in Nat, NEW w \in Program, NEW n \in Nat
  PROVE  Written(c, p, w, n) = Abstract!Overwritten(c, p, w, n)
  <1>1. Longer(c, p + n) = IF p + n > Len(c) THEN p + n ELSE Len(c)
    BY DEF Longer
  <1>2. \A i \in 1 .. Longer(c, p + n) : i \in p + 1 .. p + n <=> i > p /\ i <= p + n
    BY <1>1
  <1> QED BY <1>1, <1>2 DEF Written, Abstract!Overwritten, Abstract!Zero, Zero

LEMMA NumReadIsAvailable ==
  ASSUME NEW c \in Seq(Program \cup {Zero}), NEW p \in Nat, NEW n \in Nat
  PROVE  NumRead(c, p, n) = Abstract!Available(c, p, n)
  BY DEF NumRead, Abstract!Available

\* What an identifier in use stands for.
LEMMA HandleInUse ==
  ASSUME TableAssumption, FileInv, NEW i \in Id, OpenFileTable[i] # NULL
  PROVE  /\ handle[i] = [name |-> NameOf(i), position |-> OpenFileTable[i].currentOffset]
         /\ handle[i] # NULL
         /\ handle[i].name = NameOf(i) /\ handle[i].position = OpenFileTable[i].currentOffset
  <1> DEFINE h == [name |-> NameOf(i), position |-> OpenFileTable[i].currentOffset]
  <1>1. h \in [name : Name, position : Nat]
    BY EntryInUse
  <1>2. h # NULL
    BY <1>1 DEF TableAssumption
  <1>3. handle[i] = h
    BY DEF handle
  <1> QED BY <1>2, <1>3

\* handle' is handle but for one identifier.
LEMMA HandleDiffers ==
  ASSUME NEW i \in Id, NEW h, handle'[i] = h,
         \A j \in Id \ {i} : handle'[j] = handle[j]
  PROVE  handle' = [handle EXCEPT ![i] = h]
  BY DEF handle

LEMMA FileInitRefines == FileInit => Abstract!Init
  BY DEF FileInit, Abstract!Init, Abstract!Id, Abstract!Zero, Id, Zero, handle

LEMMA CreateRefines == ASSUME NEW n \in Name, Create(n) PROVE Abstract!Create(n)
  BY DEF Create, Abstract!Create, handle, NameOf

LEMMA OpenRefines ==
  ASSUME TableAssumption, FileInv, NEW n \in Name, OpenAFile(n)
  PROVE  \E i \in Id : Abstract!Open(n, i)
  <1>1. PICK d \in NextDescriptor, i \in FreeEntry :
          /\ OpenFileTable' = [OpenFileTable EXCEPT ![i] = [file |-> d, currentOffset |-> 0]]
          /\ descriptor' = [descriptor EXCEPT ![d] = n]
    BY DEF OpenAFile
  <1> DEFINE new == [file |-> d, currentOffset |-> 0]
  <1>2. /\ d \in Descriptor /\ descriptor[d] = NULL
        /\ i \in Id /\ OpenFileTable[i] = NULL
    BY DEF NextDescriptor, FreeEntry
  <1>3. contents' = contents /\ contents[n] # NULL
    BY DEF OpenAFile
  <1>4. new # NULL
    BY <1>2, EntryNotNull DEF OpenFileEntries
  <1>5. /\ OpenFileTable'[i] = new
        /\ \A j \in Id \ {i} : OpenFileTable'[j] = OpenFileTable[j]
        /\ descriptor'[d] = n
        /\ \A e \in Descriptor \ {d} : descriptor'[e] = descriptor[e]
    BY <1>1, <1>2 DEF FileInv, FileTypeOK
  <1>6. \A j \in Id : OpenFileTable[j] # NULL =>
                       OpenFileTable[j].file \in Descriptor \ {d}
    BY <1>2, EntryInUse DEF FileInv, NoDescriptorLeak
  <1>7. handle' = [handle EXCEPT ![i] = Abstract!At(n, 0)]
    <2>1. handle'[i] = Abstract!At(n, 0)
      BY <1>2, <1>4, <1>5 DEF handle, NameOf, Abstract!At
    <2>2. ASSUME NEW j \in Id \ {i} PROVE handle'[j] = handle[j]
      <3>1. CASE OpenFileTable[j] = NULL
        BY <1>5, <3>1 DEF handle
      <3>2. CASE OpenFileTable[j] # NULL
        <4>1. NameOf(j)' = NameOf(j)
          BY <1>5, <1>6, <3>2 DEF NameOf
        <4>2. OpenFileTable'[j] = OpenFileTable[j]
          BY <1>5
        <4> QED BY <4>1, <4>2 DEF handle
      <3> QED BY <3>1, <3>2
    <2> QED BY <1>2, <2>1, <2>2, HandleDiffers
  <1>8. handle[i] = NULL
    BY <1>2 DEF handle
  <1> QED BY <1>2, <1>3, <1>7, <1>8 DEF Abstract!Open

LEMMA TransferMoves ==
  ASSUME TableAssumption, FileInv, NEW id \in Id, OpenFileTable[id] # NULL, NEW p \in Nat,
         OpenFileTable' = [OpenFileTable EXCEPT ![id].currentOffset = p],
         descriptor' = descriptor
  PROVE  handle' = [handle EXCEPT ![id].position = p]
  <1> DEFINE new == [OpenFileTable[id] EXCEPT !.currentOffset = p]
  <1>1. new \in OpenFileEntries /\ new # NULL
        /\ new.file = OpenFileTable[id].file /\ new.currentOffset = p
    BY EntryInUse, EntryNotNull DEF OpenFileEntries
  <1>2. /\ OpenFileTable'[id] = new
        /\ \A j \in Id \ {id} : OpenFileTable'[j] = OpenFileTable[j]
    BY DEF FileInv, FileTypeOK
  <1>3. handle[id] = [name |-> NameOf(id), position |-> OpenFileTable[id].currentOffset]
    BY HandleInUse
  <1>4. handle'[id] = [handle[id] EXCEPT !.position = p]
    <2>1. NameOf(id)' = NameOf(id)
      BY <1>1, <1>2 DEF NameOf
    <2>2. handle'[id] = [name |-> NameOf(id), position |-> p]
      BY <1>1, <1>2, <2>1 DEF handle
    <2> QED BY <1>3, <2>2
  <1>5. ASSUME NEW j \in Id \ {id} PROVE handle'[j] = handle[j]
    BY <1>2 DEF handle, NameOf
  <1> QED BY <1>4, <1>5, HandleDiffers

LEMMA WriteRefines ==
  ASSUME TableAssumption, FileInv, NEW w \in Program, NEW size \in Size, NEW id \in Id,
         WriteFile(w, size, id)
  PROVE  Abstract!Write(w, size, id)
  <1> DEFINE p == OpenFileTable[id].currentOffset
             c == contents[NameOf(id)]
  <1>1. /\ OpenFileTable[id] # NULL /\ size \in Nat
        /\ contents' = [contents EXCEPT ![NameOf(id)] = Written(@, p, w, size)]
        /\ OpenFileTable' = [OpenFileTable EXCEPT ![id].currentOffset = p + size]
        /\ descriptor' = descriptor
    BY DEF WriteFile, Valid, TableAssumption
  <1>2. p \in Nat /\ c \in Seq(Program \cup {Zero}) /\ NameOf(id) \in Name
    BY <1>1, EntryInUse
  <1>3. /\ handle[id] # NULL /\ handle[id].name = NameOf(id) /\ handle[id].position = p
    BY <1>1, HandleInUse
  <1>4. handle' = [handle EXCEPT ![id].position = p + size]
    <2>1. p + size \in Nat
      BY <1>1, <1>2
    <2> QED BY <1>1, <2>1, TransferMoves
  <1>5. handle' = [handle EXCEPT ![id].position = @ + size]
    BY <1>3, <1>4
  <1>6. Written(c, p, w, size) = Abstract!Overwritten(c, p, w, size)
    BY <1>1, <1>2, WrittenIsOverwritten
  <1>7. contents' = [contents EXCEPT ![handle[id].name] =
                       Abstract!Overwritten(@, handle[id].position, w, size)]
    BY <1>1, <1>3, <1>6
  <1>8. size >= 0
    BY <1>1
  <1> QED BY <1>3, <1>5, <1>7, <1>8 DEF Abstract!Write

LEMMA ReadRefines ==
  ASSUME TableAssumption, FileInv, NEW size \in Size, NEW id \in Id, ReadFile(size, id)
  PROVE  Abstract!Read(size, id)
  <1> DEFINE p == OpenFileTable[id].currentOffset
             c == contents[NameOf(id)]
             q == p + NumRead(c, p, size)
  <1>1. /\ OpenFileTable[id] # NULL /\ size \in Nat
        /\ OpenFileTable' = [OpenFileTable EXCEPT ![id].currentOffset = q]
        /\ contents' = contents /\ descriptor' = descriptor
    BY DEF ReadFile, Valid, TableAssumption
  <1>2. p \in Nat /\ c \in Seq(Program \cup {Zero})
    BY <1>1, EntryInUse
  <1>3. /\ handle[id] # NULL /\ handle[id].name = NameOf(id) /\ handle[id].position = p
    BY <1>1, HandleInUse
  <1>4. q \in Nat
    <2>1. NumRead(c, p, size) \in Nat
      BY <1>1, <1>2, NumReadType
    <2> QED BY <1>2, <2>1
  <1>5. handle' = [handle EXCEPT ![id].position = q]
    BY <1>1, <1>4, TransferMoves
  <1>6. q = p + Abstract!Available(c, p, size)
    BY <1>1, <1>2, NumReadIsAvailable
  <1>7. handle' = [handle EXCEPT ![id].position =
                     @ + Abstract!Available(contents[handle[id].name], @, size)]
    BY <1>3, <1>5, <1>6
  <1>8. size >= 0
    BY <1>1
  <1> QED BY <1>1, <1>3, <1>7, <1>8 DEF Abstract!Read

LEMMA CloseRefines ==
  ASSUME TableAssumption, FileInv, NEW id \in Id, CloseFile(id) PROVE Abstract!Close(id)
  <1> DEFINE d == OpenFileTable[id].file
  <1>1. /\ OpenFileTable[id] # NULL
        /\ descriptor' = [descriptor EXCEPT ![d] = NULL]
        /\ OpenFileTable' = [OpenFileTable EXCEPT ![id] = NULL]
        /\ contents' = contents
    BY DEF CloseFile, Valid
  <1>2. d \in Descriptor /\ handle[id] # NULL
    BY <1>1, EntryInUse, HandleInUse
  <1>3. /\ OpenFileTable'[id] = NULL
        /\ \A j \in Id \ {id} : OpenFileTable'[j] = OpenFileTable[j]
        /\ \A e \in Descriptor \ {d} : descriptor'[e] = descriptor[e]
    BY <1>1, <1>2 DEF FileInv, FileTypeOK
  <1>4. \A j \in Id \ {id} : OpenFileTable[j] # NULL =>
                              OpenFileTable[j].file \in Descriptor \ {d}
    BY <1>1, EntryInUse DEF FileInv, NoDescriptorLeak
  <1>5. handle' = [handle EXCEPT ![id] = NULL]
    <2>1. handle'[id] = NULL
      BY <1>3 DEF handle
    <2>2. ASSUME NEW j \in Id \ {id} PROVE handle'[j] = handle[j]
      <3>1. OpenFileTable[j] # NULL => NameOf(j)' = NameOf(j)
        BY <1>3, <1>4 DEF NameOf
      <3> QED BY <1>3, <3>1 DEF handle
    <2> QED BY <2>1, <2>2, HandleDiffers
  <1> QED BY <1>1, <1>2, <1>5 DEF Abstract!Close

LEMMA FileCallRefines ==
  ASSUME TableAssumption, FileInv, NEW w \in Program, FileCall(w) PROVE Abstract!Next
  <1>1. ASSUME NEW n \in Name, Create(n) PROVE Abstract!Next
    BY <1>1, CreateRefines DEF Abstract!Next
  <1>2. ASSUME NEW n \in Name, OpenAFile(n) PROVE Abstract!Next
    BY <1>2, OpenRefines DEF Abstract!Next, Abstract!Id, Id
  <1>3. ASSUME NEW id \in Id, NEW size \in Size, WriteFile(w, size, id) PROVE Abstract!Next
    BY <1>3, WriteRefines DEF Abstract!Next, Abstract!Id, Id
  <1>4. ASSUME NEW id \in Id, NEW size \in Size, ReadFile(size, id) PROVE Abstract!Next
    BY <1>4, ReadRefines DEF Abstract!Next, Abstract!Id, Id
  <1>5. ASSUME NEW id \in Id, CloseFile(id) PROVE Abstract!Next
    BY <1>5, CloseRefines DEF Abstract!Next, Abstract!Id, Id
  <1> QED BY <1>1, <1>2, <1>3, <1>4, <1>5 DEF FileCall

LEMMA FileStutterRefines == UNCHANGED fileVars => UNCHANGED <<handle, contents>>
  BY DEF fileVars, handle, NameOf

\* The open-file calls of MP1 do what OpenFiles says: an identifier stands for one
\* file and position until any program closes it.
THEOREM FilesImplementOpenFiles ==
  ASSUME TableAssumption PROVE FileSpec => ImplementsOpenFiles
  <1>1. FileInit => Abstract!Init
    BY FileInitRefines
  <1>2. FileInv /\ [\E w \in Program : FileCall(w)]_fileVars
          => [Abstract!Next]_<<handle, contents>>
    BY FileCallRefines, FileStutterRefines
  <1> QED BY <1>1, <1>2, FileInvariant, PTL DEF FileSpec, ImplementsOpenFiles, Abstract!Spec

-------------------------------------------------------------------------------
(* User programs: the file system calls *)

LEMMA StepOnFiles == currentThread \in Program /\ [Next]_vars =>
                       (\E w \in Program : FileCall(w)) \/ UNCHANGED fileVars
  <1> SUFFICES ASSUME currentThread \in Program, [Next]_vars, ~ UNCHANGED fileVars
               PROVE  \E w \in Program : FileCall(w)
    OBVIOUS
  <1>1. CASE FileSystemCall
    BY <1>1 DEF FileSystemCall
  <1>2. ~ Halted /\ ~ UNCHANGED vars
    BY DEF Halted, vars
  <1>3. ~ (OneTick \/ Idle \/ Begin \/ MachineRun \/ Instruction \/ Exit \/ Halt)
    BY DEF OneTick, Idle, Begin, MachineRun, Instruction, Exit, Halt
  <1>4. ~ (PrintInt \/ Acquire \/ PutChar \/ Wait \/ ReleaseDisplay \/ ReturnFromPrintInt)
    BY DEF PrintInt, Acquire, PutChar, Wait, ReleaseDisplay, ReturnFromPrintInt
  <1> QED BY <1>1, <1>2, <1>3, <1>4 DEF Next

-------------------------------------------------------------------------------
(* User programs: types *)

Semaphores == [value : Nat, queue : Seq(Program)]
Locks == [value : Nat, queue : Seq(Program), holder : Program \cup {Nobody}]
Modes == {"UserMode", "SystemMode"}

\* The types of all but the pending interrupts.
ThreadTypes ==
  /\ currentThread \in Program /\ readyList \in Seq(Program)
  /\ at \in [Program -> PC]
  /\ interrupted \in [Program -> {NoMode} \cup Modes]
  /\ phase \in {"code", "tick", "idle", "halted"}
  /\ status \in Modes

DisplayTypes ==
  /\ lock \in Locks /\ waitFor \in Semaphores
  /\ idx \in [Program -> 0 .. Digits] /\ line \in Seq(Program)

KernelTypes == ThreadTypes /\ DisplayTypes

LEMMA PLock ==
  ASSUME NEW l \in Locks, NEW t \in Program
  PROVE  /\ P(l, t) \in Locks
         /\ P(l, t).holder = l.holder
         /\ P(l, t).value = IF Passes(l) THEN l.value - 1 ELSE l.value
  <1>1. CASE Passes(l)
    <2>1. P(l, t) = [value |-> l.value - 1, queue |-> l.queue, holder |-> l.holder]
      BY <1>1 DEF Locks, P
    <2> QED BY <1>1, <2>1 DEF Locks, Passes
  <1>2. CASE ~ Passes(l)
    <2>1. P(l, t) = [value |-> l.value, queue |-> Append(l.queue, t), holder |-> l.holder]
      BY <1>2 DEF Locks, P
    <2> QED BY <1>2, <2>1 DEF Locks
  <1> QED BY <1>1, <1>2

LEMMA PSemaphore ==
  ASSUME NEW s \in Semaphores, NEW t \in Program PROVE P(s, t) \in Semaphores
  <1>1. CASE Passes(s)
    <2>1. P(s, t) = [value |-> s.value - 1, queue |-> s.queue]
      BY <1>1 DEF Semaphores, P
    <2> QED BY <1>1, <2>1 DEF Semaphores, Passes
  <1>2. CASE ~ Passes(s)
    <2>1. P(s, t) = [value |-> s.value, queue |-> Append(s.queue, t)]
      BY <1>2 DEF Semaphores, P
    <2> QED BY <1>2, <2>1 DEF Semaphores
  <1> QED BY <1>1, <1>2

LEMMA VSemaphore == ASSUME NEW s \in Semaphores PROVE V(s) \in Semaphores
  <1>1. CASE s.queue = <<>>
    <2>1. V(s) = [value |-> s.value + 1, queue |-> s.queue]
      BY <1>1 DEF Semaphores, V, FrontWoken
    <2> QED BY <2>1 DEF Semaphores
  <1>2. CASE s.queue # <<>>
    <2>1. FrontWoken(s) = [value |-> s.value, queue |-> Tail(s.queue)]
      BY <1>2 DEF Semaphores, FrontWoken
    <2>2. V(s) = [value |-> s.value + 1, queue |-> Tail(s.queue)]
      <3> DEFINE f == FrontWoken(s)
      <3>1. f = [value |-> s.value, queue |-> Tail(s.queue)] /\ V(s) = [f EXCEPT !.value = f.value + 1]
        BY <2>1 DEF V
      <3> HIDE DEF f
      <3> QED BY <3>1
    <2>3. Tail(s.queue) \in Seq(Program)
      BY <1>2 DEF Semaphores
    <2> QED BY <2>2, <2>3 DEF Semaphores
  <1> QED BY <1>1, <1>2

LEMMA ReleaseLock ==
  ASSUME NEW l \in Locks PROVE Release(l) \in Locks /\ Release(l).value = l.value + 1
  <1> DEFINE q == IF l.queue = <<>> THEN <<>> ELSE Tail(l.queue)
             h == HeldBy(l, Nobody)
  <1>1. q \in Seq(Program) /\ l.value \in Nat
    BY DEF Locks
  <1>2. h = [value |-> l.value, queue |-> l.queue, holder |-> Nobody]
    BY DEF Locks, HeldBy
  <1>3. FrontWoken(h) = [value |-> l.value, queue |-> q, holder |-> Nobody]
    <2> HIDE DEF h
    <2>1. CASE l.queue = <<>>
      BY <1>2, <2>1 DEF FrontWoken
    <2>2. CASE l.queue # <<>>
      <3>1. h.queue = l.queue
        BY <1>2
      <3>2. FrontWoken(h) = [h EXCEPT !.queue = Tail(l.queue)]
        BY <2>2, <3>1 DEF FrontWoken
      <3>3. q = Tail(l.queue)
        BY <2>2
      <3> QED BY <1>2, <3>2, <3>3
    <2> QED BY <2>1, <2>2
  <1>4. Release(l) = [value |-> l.value + 1, queue |-> q, holder |-> Nobody]
    <2> DEFINE f == FrontWoken(h)
    <2>1. /\ f = [value |-> l.value, queue |-> q, holder |-> Nobody]
          /\ Release(l) = [f EXCEPT !.value = f.value + 1]
      BY <1>3 DEF Release, V
    <2> HIDE DEF f, q
    <2> QED BY <2>1
  <1> QED BY <1>1, <1>4 DEF Locks

LEMMA HeldLock ==
  ASSUME NEW l \in Locks, NEW t \in Program
  PROVE  /\ HeldBy(l, t) \in Locks
         /\ HeldBy(l, t).holder = t /\ HeldBy(l, t).value = l.value
  BY DEF Locks, HeldBy

LEMMA WokenByType ==
  ASSUME NEW q \in Seq(Program), NEW s, s.queue \in Seq(Program)
  PROVE  WokenBy(s, q) \in Seq(Program)
  <1>1. CASE s.queue = <<>>
    BY <1>1 DEF WokenBy
  <1>2. CASE s.queue # <<>>
    <2>1. Head(s.queue) \in Program
      BY <1>2
    <2> QED BY <1>2, <2>1 DEF WokenBy
  <1> QED BY <1>1, <1>2

LEMMA ReadyAfterType == ASSUME KernelTypes, NEW p PROVE ReadyAfter(p) \in Seq(Program)
  <1>1. readyList \in Seq(Program) /\ waitFor.queue \in Seq(Program)
    BY DEF KernelTypes, ThreadTypes, DisplayTypes, Semaphores
  <1>2. WokenBy(waitFor, readyList) \in Seq(Program)
    BY <1>1, WokenByType
  <1> QED BY <1>1, <1>2 DEF ReadyAfter

LEMMA SleepTypes ==
  ASSUME ThreadTypes, NEW ready \in Seq(Program), Sleep(ready)
  PROVE  /\ currentThread' \in Program /\ readyList' \in Seq(Program)
         /\ phase' \in {"code", "tick", "idle", "halted"}
         /\ interrupted' = interrupted
  <1>1. CASE ready = <<>>
    BY <1>1 DEF Sleep, ThreadTypes
  <1>2. CASE ready # <<>>
    <2>1. Head(ready) \in Program /\ Tail(ready) \in Seq(Program)
      BY <1>2
    <2> QED BY <1>2, <2>1 DEF Sleep, Run
  <1> QED BY <1>1, <1>2

LEMMA EnableTypes ==
  ASSUME ThreadTypes, NEW pc \in PC, EnableAt(pc), status' \in Modes PROVE ThreadTypes'
  BY DEF ThreadTypes, EnableAt

LEMMA GoOnOrSleepTypes ==
  ASSUME ThreadTypes, NEW s, NEW past \in PC, NEW pc \in PC, GoOnOrSleep(s, past, pc),
         status' \in Modes
  PROVE  ThreadTypes'
  <1>1. CASE Passes(s)
    BY <1>1, EnableTypes DEF GoOnOrSleep
  <1>2. CASE ~ Passes(s)
    <2>1. Sleep(readyList) /\ at' = [at EXCEPT ![currentThread] = pc]
      BY <1>2 DEF GoOnOrSleep
    <2>2. readyList \in Seq(Program)
      BY DEF ThreadTypes
    <2> QED BY <2>1, <2>2, SleepTypes DEF ThreadTypes
  <1> QED BY <1>1, <1>2

LEMMA IdleTypes == ASSUME KernelTypes, Idle PROVE ThreadTypes'
  <1>1. PICK p : Sleep(ReadyAfter(p))
    BY DEF Idle
  <1>2. ReadyAfter(p) \in Seq(Program) /\ ThreadTypes
    BY ReadyAfterType DEF KernelTypes
  <1>3. at' = at /\ status' = "SystemMode"
    BY DEF Idle
  <1> QED BY <1>1, <1>2, <1>3, SleepTypes DEF ThreadTypes, Modes

LEMMA YieldTypes ==
  ASSUME ThreadTypes, NEW ready \in Seq(Program), YieldTo(ready), at' = at
  PROVE  ThreadTypes'
  <1>1. interrupted' \in [Program -> {NoMode} \cup Modes] /\ status' \in Modes
    BY DEF ThreadTypes, YieldTo, Modes
  <1>2. CASE ready = <<>>
    BY <1>1, <1>2 DEF ThreadTypes, YieldTo
  <1>3. CASE ready # <<>>
    <2>1. Head(ready) \in Program /\ Append(Tail(ready), currentThread) \in Seq(Program)
      BY <1>3 DEF ThreadTypes
    <2> QED BY <1>1, <1>3, <2>1 DEF ThreadTypes, YieldTo, Run
  <1> QED BY <1>2, <1>3

LEMMA ResumeTypes ==
  ASSUME ThreadTypes, NEW ready \in Seq(Program), ResumeTo(ready), at' = at
  PROVE  ThreadTypes'
  <1>1. status' \in Modes
    BY DEF ThreadTypes, ResumeTo, Modes, NoMode
  <1> QED BY <1>1 DEF ThreadTypes, ResumeTo

LEMMA OneTickTypes == ASSUME KernelTypes, OneTick PROVE ThreadTypes'
  <1>1. PICK p : YieldTo(ReadyAfter(p)) \/ ResumeTo(ReadyAfter(p))
    BY DEF OneTick
  <1>2. ReadyAfter(p) \in Seq(Program) /\ ThreadTypes
    BY ReadyAfterType DEF KernelTypes
  <1>3. at' = at
    BY DEF OneTick
  <1> QED BY <1>1, <1>2, <1>3, YieldTypes, ResumeTypes

LEMMA HandledTypes == ASSUME DisplayTypes, NEW p, Handled(p) PROVE waitFor' \in Semaphores
  BY VSemaphore DEF DisplayTypes, Handled

LEMMA KernelInitTypes == ASSUME ClockAssumption PROVE Init => KernelTypes
  <1> SUFFICES ASSUME Init PROVE KernelTypes
    OBVIOUS
  <1>1. Head(execfile) \in Program /\ Tail(execfile) \in Seq(Program)
    BY DEF ClockAssumption
  <1>2. ThreadTypes
    BY <1>1 DEF Init, ThreadTypes, PC, Modes, NoMode
  <1>3. DisplayTypes
    BY DEF Init, DisplayTypes, NewLock, NewSemaphore, Locks, Semaphores, ClockAssumption
  <1> QED BY <1>2, <1>3 DEF KernelTypes

LEMMA StepTypes == ASSUME ClockAssumption, KernelTypes, Next PROVE KernelTypes'
  <1> USE DEF KernelTypes
  <1>1. CASE OneTick
    <2>1. ThreadTypes'
      BY <1>1, OneTickTypes
    <2>2. waitFor' \in Semaphores
      BY <1>1, HandledTypes DEF OneTick
    <2> QED BY <1>1, <2>1, <2>2 DEF OneTick, DisplayTypes
  <1>2. CASE Idle
    <2>1. ThreadTypes'
      BY <1>2, IdleTypes
    <2>2. waitFor' \in Semaphores
      BY <1>2, HandledTypes DEF Idle
    <2> QED BY <1>2, <2>1, <2>2 DEF Idle, DisplayTypes
  <1>3. CASE Begin \/ Instruction \/ FileSystemCall \/ ReturnFromPrintInt
    <2>1. DisplayTypes'
      BY <1>3 DEF Begin, Instruction, FileSystemCall, ReturnFromPrintInt, displayVars, DisplayTypes
    <2>2. status' \in Modes /\ \E pc \in PC : EnableAt(pc)
      BY <1>3 DEF Begin, Instruction, FileSystemCall, ReturnFromPrintInt, PC, ThreadTypes, Modes
    <2> QED BY <2>1, <2>2, EnableTypes
  <1>4. CASE MachineRun \/ Halt \/ UNCHANGED vars
    BY <1>4 DEF MachineRun, Halt, vars, kernelVars, displayVars, DisplayTypes, ThreadTypes, PC,
                Modes
  <1>5. CASE Exit
    <2>1. ThreadTypes'
      <3>1. Sleep(readyList) /\ readyList \in Seq(Program)
        BY <1>5 DEF Exit, ThreadTypes
      <3>2. status' \in Modes /\ at' \in [Program -> PC]
        BY <1>5 DEF Exit, ThreadTypes, Modes, PC
      <3> QED BY <3>1, <3>2, SleepTypes DEF ThreadTypes
    <2> QED BY <1>5, <2>1 DEF Exit, DisplayTypes, displayVars
  <1>6. CASE PrintInt \/ Acquire
    <2>1. ThreadTypes'
      <3>1. status' \in Modes /\ GoOnOrSleep(lock, "put", "acquire")
        BY <1>6 DEF PrintInt, Acquire, ThreadTypes, Modes
      <3> QED BY <3>1, GoOnOrSleepTypes DEF PC
    <2>2. lock' \in Locks
      BY <1>6, PLock DEF PrintInt, Acquire, DisplayTypes, ThreadTypes
    <2> QED BY <1>6, <2>1, <2>2 DEF PrintInt, Acquire, DisplayTypes
  <1>7. CASE PutChar \/ Wait
    <2>1. ThreadTypes'
      <3>1. status' \in Modes /\ GoOnOrSleep(waitFor, "put", "wait")
        BY <1>7 DEF PutChar, Wait, ThreadTypes, Modes
      <3> QED BY <3>1, GoOnOrSleepTypes DEF PC
    <2>2. waitFor' \in Semaphores
      BY <1>7, PSemaphore DEF PutChar, Wait, DisplayTypes, ThreadTypes
    <2>3. CASE PutChar
      <3>1. lock' \in Locks
        BY <2>3, HeldLock DEF PutChar, DisplayTypes, ThreadTypes
      <3>2. idx' \in [Program -> 0 .. Digits]
        <4>1. Digits \in Nat /\ idx[currentThread] \in 0 .. Digits /\ idx[currentThread] < Digits
          BY <2>3 DEF PutChar, DisplayTypes, ThreadTypes, ClockAssumption
        <4>2. idx[currentThread] + 1 \in 0 .. Digits
          BY <4>1
        <4> QED BY <2>3, <4>2 DEF PutChar, DisplayTypes
      <3>3. line' \in Seq(Program)
        BY <2>3 DEF PutChar, DisplayTypes, ThreadTypes
      <3> QED BY <2>1, <2>2, <3>1, <3>2, <3>3 DEF DisplayTypes
    <2>4. CASE Wait
      BY <2>1, <2>2, <2>4 DEF Wait, DisplayTypes
    <2> QED BY <1>7, <2>3, <2>4
  <1>8. CASE ReleaseDisplay
    <2>1. readyList' \in Seq(Program)
      BY <1>8, WokenByType DEF ReleaseDisplay, ThreadTypes, DisplayTypes, Locks
    <2>2. ThreadTypes'
      BY <1>8, <2>1 DEF ReleaseDisplay, ThreadTypes, PC
    <2>3. lock' \in Locks
      BY <1>8, ReleaseLock DEF ReleaseDisplay, DisplayTypes
    <2> QED BY <1>8, <2>2, <2>3 DEF ReleaseDisplay, DisplayTypes, ThreadTypes, ClockAssumption
  <1> QED BY <1>1, <1>2, <1>3, <1>4, <1>5, <1>6, <1>7, <1>8 DEF Next, Halted

-------------------------------------------------------------------------------
(* User programs: the mode of the machine *)

Interrupted(t) == interrupted[t] # NoMode
InUserCode(t) == at[t] = "user"

(***************************************************************************)
(* The inductive invariant: what a Yield in OneTick is to put back is      *)
(* right; only such a Yield is left in user code; and the status is what   *)
(* the current thread needs, unless it is to put it back.                  *)
(***************************************************************************)
ModeInv ==
  /\ \A t \in Program : Interrupted(t) => (interrupted[t] = "UserMode" <=> InUserCode(t))
  /\ \A t \in Program : t # currentThread \/ phase = "idle" =>
                          (InUserCode(t) => interrupted[t] = "UserMode")
  /\ phase \in {"code", "tick"} /\ ~ Interrupted(currentThread) =>
       (status = "UserMode" <=> InUserCode(currentThread))
  /\ phase = "code" => ~ Interrupted(currentThread)
  /\ phase = "tick" /\ Interrupted(currentThread) => status = "SystemMode"
  /\ phase = "idle" => status = "SystemMode"

LEMMA ModeInvIsRight == ThreadTypes /\ ModeInv => ModeIsRight
  BY DEF ThreadTypes, ModeInv, ModeIsRight, Interrupted, InUserCode

\* A switch away from a thread that is in kernel code.
LEMMA SleepModes ==
  ASSUME ThreadTypes, ModeInv, NEW ready \in Seq(Program), Sleep(ready),
         status' = "SystemMode", NEW pc \in PC \ {"user"},
         \/ phase = "code" /\ at' = [at EXCEPT ![currentThread] = pc]
         \/ phase = "idle" /\ at' = at
  PROVE  ModeInv'
  <1>1. interrupted' = interrupted
    BY DEF Sleep
  <1>2. \A t \in Program : InUserCode(t)' => InUserCode(t) /\ interrupted[t] = "UserMode"
    BY DEF ThreadTypes, ModeInv, InUserCode, Interrupted
  <1>3. \A t \in Program : Interrupted(t) => (interrupted[t] = "UserMode" <=> InUserCode(t)')
    BY DEF ThreadTypes, ModeInv, InUserCode, Interrupted
  <1>4. CASE ready = <<>>
    <2>1. phase' = "idle"
      BY <1>4 DEF Sleep
    <2> QED BY <1>1, <1>2, <1>3, <2>1 DEF ModeInv, Interrupted, InUserCode
  <1>5. CASE ready # <<>>
    <2>1. /\ currentThread' \in Program
          /\ phase' = IF Interrupted(currentThread)' THEN "tick" ELSE "code"
      BY <1>5 DEF Sleep, Run, Interrupted
    <2> QED BY <1>1, <1>2, <1>3, <2>1 DEF ModeInv, Interrupted, InUserCode, NoMode
  <1> QED BY <1>4, <1>5

LEMMA EnableModes ==
  ASSUME ThreadTypes, ModeInv, phase = "code", NEW pc \in PC, EnableAt(pc),
         status' = "UserMode" <=> pc = "user"
  PROVE  ModeInv'
  BY DEF ThreadTypes, ModeInv, EnableAt, Interrupted, InUserCode

LEMMA GoOnOrSleepModes ==
  ASSUME ThreadTypes, ModeInv, phase = "code", NEW s, NEW past \in PC \ {"user"},
         NEW pc \in PC \ {"user"}, GoOnOrSleep(s, past, pc), status' = "SystemMode"
  PROVE  ModeInv'
  <1>1. CASE Passes(s)
    BY <1>1, EnableModes DEF GoOnOrSleep
  <1>2. CASE ~ Passes(s)
    <2>1. Sleep(readyList) /\ at' = [at EXCEPT ![currentThread] = pc]
      BY <1>2 DEF GoOnOrSleep
    <2>2. readyList \in Seq(Program)
      BY DEF ThreadTypes
    <2> QED BY <2>1, <2>2, SleepModes
  <1> QED BY <1>1, <1>2

\* A Yield in OneTick: to another thread, or back to OneTick at once.
LEMMA YieldModes ==
  ASSUME ThreadTypes, ModeInv, phase = "tick", NEW ready \in Seq(Program), YieldTo(ready),
         at' = at
  PROVE  ModeInv'
  <1> DEFINE old == IF Interrupted(currentThread) THEN interrupted[currentThread] ELSE status
  <1>1. /\ interrupted' = [interrupted EXCEPT ![currentThread] = old]
        /\ status' = "SystemMode"
    BY DEF YieldTo, Interrupted
  <1>2. old \in Modes /\ (old = "UserMode" <=> InUserCode(currentThread))
    BY DEF ThreadTypes, ModeInv, Interrupted
  <1>3. \A t \in Program :
          /\ Interrupted(t)' => (interrupted'[t] = "UserMode" <=> InUserCode(t)')
          /\ InUserCode(t)' => interrupted'[t] = "UserMode"
    BY <1>1, <1>2 DEF ThreadTypes, ModeInv, Interrupted, InUserCode
  <1>4. Interrupted(currentThread)'
          => phase' = "tick" /\ status' = "SystemMode" /\ currentThread' \in Program
    <2>1. CASE ready = <<>>
      BY <1>1, <2>1 DEF YieldTo, ThreadTypes
    <2>2. CASE ready # <<>>
      BY <1>1, <2>2 DEF YieldTo, Run, Interrupted
    <2> QED BY <2>1, <2>2
  <1>5. ~ Interrupted(currentThread)'
          => phase' = "code" /\ currentThread' \in Program
    <2>1. CASE ready = <<>>
      BY <1>1, <1>2, <2>1 DEF YieldTo, ThreadTypes, Interrupted, Modes, NoMode
    <2>2. CASE ready # <<>>
      BY <2>2 DEF YieldTo, Run, Interrupted
    <2> QED BY <2>1, <2>2
  <1> QED BY <1>1, <1>3, <1>4, <1>5 DEF ModeInv, Interrupted, NoMode

LEMMA ResumeModes ==
  ASSUME ThreadTypes, ModeInv, phase = "tick", NEW ready, ResumeTo(ready), at' = at
  PROVE  ModeInv'
  <1>1. status' = "UserMode" <=> InUserCode(currentThread)
    BY DEF ThreadTypes, ModeInv, Interrupted, ResumeTo
  <1> QED BY <1>1 DEF ThreadTypes, ModeInv, Interrupted, InUserCode, ResumeTo, NoMode

LEMMA StepModes == ASSUME KernelTypes, ModeInv, Next PROVE ModeInv'
  <1> USE DEF KernelTypes
  <1>1. CASE OneTick
    <2>1. PICK p : YieldTo(ReadyAfter(p)) \/ ResumeTo(ReadyAfter(p))
      BY <1>1 DEF OneTick
    <2> QED BY <1>1, <2>1, ReadyAfterType, YieldModes, ResumeModes DEF OneTick
  <1>2. CASE Idle
    <2>1. PICK p : Sleep(ReadyAfter(p))
      BY <1>2 DEF Idle
    <2>2. "begin" \in PC \ {"user"}
      BY DEF PC
    <2> QED BY <1>2, <2>1, <2>2, ReadyAfterType, SleepModes DEF Idle
  <1>3. CASE Begin \/ Instruction \/ FileSystemCall \/ ReturnFromPrintInt
    <2>1. /\ phase = "code"
          /\ \E pc \in PC : EnableAt(pc) /\ (status' = "UserMode" <=> pc = "user")
      BY <1>3 DEF Begin, Instruction, FileSystemCall, ReturnFromPrintInt, PC, ThreadTypes, ModeInv,
                  Executes, InUserCode
    <2> QED BY <2>1, EnableModes
  <1>4. CASE MachineRun
    BY <1>4 DEF MachineRun, ModeInv, ThreadTypes, Executes, Interrupted, InUserCode
  <1>5. CASE Halt \/ UNCHANGED vars
    BY <1>5 DEF Halt, vars, kernelVars, ModeInv, Interrupted, InUserCode
  <1>6. CASE Exit
    <2>1. /\ phase = "code" /\ Sleep(readyList) /\ readyList \in Seq(Program)
          /\ at' = [at EXCEPT ![currentThread] = "finished"] /\ status' = "SystemMode"
      BY <1>6 DEF Exit, Executes, ThreadTypes
    <2> QED BY <2>1, SleepModes DEF PC
  <1>7. CASE PrintInt \/ Acquire \/ PutChar \/ Wait
    <2>1. /\ phase = "code" /\ status' = "SystemMode"
          /\ \/ GoOnOrSleep(lock, "put", "acquire")
             \/ GoOnOrSleep(waitFor, "put", "wait")
      BY <1>7 DEF PrintInt, Acquire, PutChar, Wait, Executes, ThreadTypes, ModeInv, InUserCode,
                  Modes
    <2> QED BY <2>1, GoOnOrSleepModes DEF PC
  <1>8. CASE ReleaseDisplay
    <2>1. status = "SystemMode"
      BY <1>8 DEF ReleaseDisplay, Executes, ThreadTypes, ModeInv, InUserCode, Modes
    <2> QED BY <1>8, <2>1 DEF ReleaseDisplay, Executes, ThreadTypes, ModeInv, Interrupted,
                              InUserCode
  <1> QED BY <1>1, <1>2, <1>3, <1>4, <1>5, <1>6, <1>7, <1>8 DEF Next, Halted

-------------------------------------------------------------------------------
(* User programs: the display *)

Inside(t) == at[t] \in {"put", "wait"}

(***************************************************************************)
(* The inductive invariant: the lock's value says whether a thread is      *)
(* inside PutInt; only such a thread has put characters of its number, it  *)
(* holds the lock from the first one on, and the characters on the line    *)
(* are its own, all of them gone when the number is complete.              *)
(***************************************************************************)
DisplayInv ==
  /\ lock.value \in {0, 1}
  /\ \A t \in Program : Inside(t) => lock.value = 0
  /\ \A t, u \in Program : Inside(t) /\ Inside(u) => t = u
  /\ \A i \in DOMAIN line : Inside(line[i])
  /\ \A t \in Program : idx[t] # 0 => Inside(t) /\ lock.holder = t
  /\ \A t \in Program : idx[t] = Digits => line = <<>>

LEMMA DigitsType == ClockAssumption => Digits \in Nat \ {0}
  BY DEF ClockAssumption

LEMMA DisplayInvIsWhole ==
  ASSUME ClockAssumption, KernelTypes, DisplayInv PROVE NumbersAreWhole
  <1>1. \A i \in DOMAIN line : line[i] \in Program
    BY DEF KernelTypes, DisplayTypes
  <1>2. \A i, j \in DOMAIN line : line[i] = line[j]
    BY <1>1 DEF DisplayInv
  <1>3. idx[currentThread] = Digits => lock.holder = currentThread
    BY DigitsType DEF DisplayInv, KernelTypes, ThreadTypes
  <1> QED BY <1>2, <1>3 DEF NumbersAreWhole

\* A step of which PutInt does not see anything.
LEMMA OutsideStep ==
  ASSUME KernelTypes, DisplayInv, UNCHANGED <<lock, idx, line>>,
         \A t \in Program : Inside(t)' <=> Inside(t)
  PROVE  DisplayInv'
  <1>1. \A i \in DOMAIN line : line[i] \in Program
    BY DEF KernelTypes, DisplayTypes
  <1>2. \A i \in DOMAIN line' : Inside(line[i])'
    BY <1>1 DEF DisplayInv
  <1> QED BY <1>2 DEF DisplayInv

LEMMA GoOnOrSleepPlace ==
  ASSUME NEW s, NEW past, NEW pc, GoOnOrSleep(s, past, pc)
  PROVE  at' = [at EXCEPT ![currentThread] = IF Passes(s) THEN past ELSE pc]
  BY DEF GoOnOrSleep, EnableAt

\* lock->Acquire(), or once more around the loop in it.
LEMMA AcquireStep ==
  ASSUME ClockAssumption, KernelTypes, DisplayInv, ~ Inside(currentThread),
         lock' = P(lock, currentThread), GoOnOrSleep(lock, "put", "acquire"),
         UNCHANGED <<idx, line>>
  PROVE  DisplayInv'
  <1>1. /\ currentThread \in Program /\ lock \in Locks /\ at \in [Program -> PC]
        /\ idx \in [Program -> 0 .. Digits] /\ line \in Seq(Program)
    BY DEF KernelTypes, ThreadTypes, DisplayTypes
  <1>2. /\ lock'.holder = lock.holder
        /\ lock'.value = IF Passes(lock) THEN lock.value - 1 ELSE lock.value
    BY <1>1, PLock
  <1>3. \A t \in Program : Inside(t)' <=> Inside(t) \/ (t = currentThread /\ Passes(lock))
    BY <1>1, GoOnOrSleepPlace DEF Inside
  <1>4. /\ Passes(lock) <=> lock.value = 1
        /\ Passes(lock) => \A t \in Program : ~ Inside(t)
    BY DEF Passes, DisplayInv
  <1>5. lock'.value \in {0, 1} /\ \A t \in Program : Inside(t)' => lock'.value = 0
    BY <1>2, <1>3, <1>4 DEF DisplayInv
  <1>6. \A t, u \in Program : Inside(t)' /\ Inside(u)' => t = u
    BY <1>3, <1>4 DEF DisplayInv
  <1>7. \A i \in DOMAIN line' : Inside(line[i])'
    BY <1>1, <1>3 DEF DisplayInv
  <1>8. \A t \in Program : idx[t] # 0 => Inside(t)' /\ lock'.holder = t
    BY <1>2, <1>3 DEF DisplayInv
  <1> QED BY <1>5, <1>6, <1>7, <1>8 DEF DisplayInv

LEMMA PutCharStep ==
  ASSUME ClockAssumption, KernelTypes, DisplayInv, PutChar PROVE DisplayInv'
  <1> DEFINE c == currentThread
             i == idx[c]
  <1>1. /\ c \in Program /\ lock \in Locks /\ at \in [Program -> PC]
        /\ idx \in [Program -> 0 .. Digits] /\ line \in Seq(Program)
        /\ Digits \in Nat \ {0} /\ i \in 0 .. Digits
    BY DigitsType DEF KernelTypes, ThreadTypes, DisplayTypes
  <1>2. /\ at[c] = "put" /\ i < Digits
        /\ lock' = HeldBy(lock, c)
        /\ line' = IF i + 1 = Digits THEN <<>> ELSE Append(line, c)
        /\ idx' = [idx EXCEPT ![c] = i + 1]
        /\ at' = [at EXCEPT ![c] = IF Passes(waitFor) THEN "put" ELSE "wait"]
    BY GoOnOrSleepPlace DEF PutChar, Executes
  <1>3. lock'.holder = c /\ lock'.value = lock.value
    BY <1>1, <1>2, HeldLock
  <1>4. \A t \in Program : (Inside(t)' <=> Inside(t)) /\ (Inside(t) <=> t = c)
    BY <1>1, <1>2 DEF Inside, DisplayInv
  <1>5. \A j \in DOMAIN line' : line'[j] = c
    <2>1. \A j \in DOMAIN line : line[j] = c
      BY <1>1, <1>4 DEF DisplayInv
    <2> QED BY <1>1, <1>2, <2>1
  <1>6. \A t \in Program : t # c => idx[t] = 0 /\ idx'[t] = 0
    BY <1>1, <1>2, <1>4 DEF DisplayInv
  <1>7. \A t \in Program : idx'[t] # 0 => Inside(t)' /\ lock'.holder = t
    BY <1>3, <1>4, <1>6
  <1>8. \A t \in Program : idx'[t] = Digits => line' = <<>>
    BY <1>1, <1>2, <1>6
  <1> QED BY <1>1, <1>3, <1>4, <1>5, <1>7, <1>8 DEF DisplayInv

LEMMA ReleaseStep ==
  ASSUME ClockAssumption, KernelTypes, DisplayInv, ReleaseDisplay PROVE DisplayInv'
  <1> DEFINE c == currentThread
  <1>1. /\ c \in Program /\ lock \in Locks /\ at \in [Program -> PC]
        /\ idx \in [Program -> 0 .. Digits] /\ line \in Seq(Program)
        /\ Digits \in Nat \ {0}
    BY DigitsType DEF KernelTypes, ThreadTypes, DisplayTypes
  <1>2. /\ at[c] = "put" /\ idx[c] = Digits
        /\ lock' = Release(lock) /\ line' = line
        /\ idx' = [idx EXCEPT ![c] = 0]
        /\ at' = [at EXCEPT ![c] = "return"]
    BY DEF ReleaseDisplay, Executes
  <1>3. lock'.value = 1
    BY <1>1, <1>2, ReleaseLock DEF DisplayInv, Inside
  <1>4. \A t \in Program : ~ Inside(t)'
    BY <1>1, <1>2 DEF DisplayInv, Inside
  <1>5. line = <<>>
    BY <1>1, <1>2 DEF DisplayInv
  <1>6. \A t \in Program : idx'[t] = 0
    BY <1>1, <1>2 DEF DisplayInv, Inside
  <1> QED BY <1>1, <1>2, <1>3, <1>4, <1>5, <1>6 DEF DisplayInv

LEMMA DisplayInit == ClockAssumption /\ Init => DisplayInv
  BY DigitsType DEF Init, DisplayInv, NewLock, Inside

LEMMA StepDisplay == ASSUME ClockAssumption, KernelTypes, DisplayInv, Next PROVE DisplayInv'
  <1>1. at \in [Program -> PC] /\ currentThread \in Program
    BY DEF KernelTypes, ThreadTypes
  <1>2. CASE OneTick \/ Idle \/ Halt \/ UNCHANGED vars
    BY <1>2, OutsideStep DEF OneTick, Idle, Halt, vars, kernelVars, displayVars, Inside
  <1>3. CASE Begin \/ Instruction \/ FileSystemCall \/ ReturnFromPrintInt \/ MachineRun \/ Exit
    <2>1. UNCHANGED <<lock, idx, line>>
      BY <1>3 DEF Begin, Instruction, FileSystemCall, ReturnFromPrintInt, MachineRun, Exit,
                  displayVars
    <2>2. /\ ~ Inside(currentThread)
          /\ \E pc \in PC \ {"put", "wait"} : at' = [at EXCEPT ![currentThread] = pc]
      BY <1>3 DEF Begin, Instruction, FileSystemCall, ReturnFromPrintInt, MachineRun, Exit,
                  EnableAt, Executes, Inside, PC
    <2>3. \A t \in Program : Inside(t)' <=> Inside(t)
      BY <1>1, <2>2 DEF Inside
    <2> QED BY <2>1, <2>3, OutsideStep
  <1>4. CASE PrintInt \/ Acquire
    BY <1>4, AcquireStep DEF PrintInt, Acquire, Executes, Inside
  <1>5. CASE PutChar
    BY <1>5, PutCharStep
  <1>6. CASE Wait
    <2>1. /\ UNCHANGED <<lock, idx, line>> /\ at[currentThread] = "wait"
          /\ at' = [at EXCEPT ![currentThread] = IF Passes(waitFor) THEN "put" ELSE "wait"]
      BY <1>6, GoOnOrSleepPlace DEF Wait, Executes
    <2>2. \A t \in Program : Inside(t)' <=> Inside(t)
      BY <1>1, <2>1 DEF Inside
    <2> QED BY <2>1, <2>2, OutsideStep
  <1>7. CASE ReleaseDisplay
    BY <1>7, ReleaseStep
  <1> QED BY <1>2, <1>3, <1>4, <1>5, <1>6, <1>7 DEF Next, Halted

-------------------------------------------------------------------------------
(* User programs: where the threads are *)

In(q, t) == \E i \in DOMAIN q : q[i] = t
Distinct(q) == \A i, j \in DOMAIN q : q[i] = q[j] => i = j

LEMMA JoinQueue ==
  ASSUME NEW q \in Seq(Program), NEW t \in Program
  PROVE  /\ Append(q, t) \in Seq(Program)
         /\ \A u : In(Append(q, t), u) <=> In(q, u) \/ u = t
         /\ Distinct(q) /\ ~ In(q, t) => Distinct(Append(q, t))
  <1> DEFINE r == Append(q, t)
  <1>1. /\ r \in Seq(Program) /\ Len(q) \in Nat
        /\ DOMAIN q = 1 .. Len(q) /\ DOMAIN r = 1 .. Len(q) + 1
        /\ \A i \in 1 .. Len(q) : r[i] = q[i]
        /\ r[Len(q) + 1] = t
    OBVIOUS
  <1> HIDE DEF r
  <1>2. \A u : In(r, u) <=> In(q, u) \/ u = t
    BY <1>1 DEF In
  <1>3. Distinct(q) /\ ~ In(q, t) => Distinct(r)
    BY <1>1 DEF In, Distinct
  <1> QED BY <1>1, <1>2, <1>3 DEF r

LEMMA LeaveQueue ==
  ASSUME NEW q \in Seq(Program), q # <<>>, Distinct(q)
  PROVE  /\ Tail(q) \in Seq(Program) /\ Distinct(Tail(q))
         /\ Head(q) \in Program /\ In(q, Head(q))
         /\ \A u : In(Tail(q), u) <=> In(q, u) /\ u # Head(q)
  <1> DEFINE r == Tail(q)
             h == Head(q)
  <1>1. /\ r \in Seq(Program) /\ h \in Program /\ Len(q) \in Nat \ {0}
        /\ DOMAIN q = 1 .. Len(q) /\ DOMAIN r = 1 .. Len(q) - 1
        /\ \A i \in 1 .. Len(q) - 1 : r[i] = q[i + 1]
        /\ h = q[1]
    OBVIOUS
  <1> HIDE DEF r, h
  <1>2. Distinct(r) /\ In(q, h)
    <2>1. 1 \in DOMAIN q /\ q[1] = h
      BY <1>1
    <2>2. In(q, h)
      BY <2>1 DEF In
    <2>3. ASSUME NEW i \in DOMAIN r, NEW j \in DOMAIN r, r[i] = r[j] PROVE i = j
      <3>1. /\ i \in Nat /\ j \in Nat /\ i + 1 \in DOMAIN q /\ j + 1 \in DOMAIN q
            /\ q[i + 1] = q[j + 1]
        BY <1>1, <2>3
      <3>2. i + 1 = j + 1
        BY <3>1 DEF Distinct
      <3> QED BY <3>1, <3>2
    <2> QED BY <2>2, <2>3 DEF Distinct
  <1>3. ASSUME NEW u PROVE In(r, u) <=> In(q, u) /\ u # h
    <2>1. ASSUME NEW i \in DOMAIN r, r[i] = u PROVE In(q, u) /\ u # h
      <3>1. i + 1 \in DOMAIN q /\ q[i + 1] = u /\ i + 1 # 1 /\ 1 \in DOMAIN q
        BY <1>1, <2>1
      <3> QED BY <1>1, <3>1 DEF In, Distinct
    <2>2. ASSUME NEW i \in DOMAIN q, q[i] = u, u # h PROVE In(r, u)
      <3>1. i - 1 \in DOMAIN r /\ r[i - 1] = u
        BY <1>1, <2>2
      <3> QED BY <3>1 DEF In
    <2> QED BY <2>1, <2>2 DEF In
  <1> QED BY <1>1, <1>2, <1>3 DEF r, h

\* Three queues without a common member, and their members.
Apart(q, r, s) ==
  /\ Distinct(q) /\ Distinct(r) /\ Distinct(s)
  /\ \A t : ~ (In(q, t) /\ In(r, t)) /\ ~ (In(q, t) /\ In(s, t)) /\ ~ (In(r, t) /\ In(s, t))

Among(q, r, s, t) == In(q, t) \/ In(r, t) \/ In(s, t)

\* The semaphore operations as their queues see them.
LEMMA PQueue ==
  ASSUME NEW s \in Semaphores \cup Locks, NEW t \in Program
  PROVE  P(s, t).queue = IF Passes(s) THEN s.queue ELSE Append(s.queue, t)
  BY DEF P, Semaphores, Locks

LEMMA VQueue ==
  ASSUME NEW s \in Semaphores \cup Locks
  PROVE  V(s).queue = IF s.queue = <<>> THEN <<>> ELSE Tail(s.queue)
  <1> DEFINE f == FrontWoken(s)
  <1>1. f \in Semaphores \cup Locks /\ f.queue = IF s.queue = <<>> THEN <<>> ELSE Tail(s.queue)
    <2>1. CASE s.queue = <<>>
      BY <2>1 DEF FrontWoken
    <2>2. CASE s.queue # <<>>
      <3>1. FrontWoken(s) = [s EXCEPT !.queue = Tail(s.queue)]
        BY <2>2 DEF FrontWoken
      <3>2. s.queue \in Seq(Program) /\ Tail(s.queue) \in Seq(Program)
        BY <2>2 DEF Semaphores, Locks
      <3> HIDE DEF f
      <3>3. f = [s EXCEPT !.queue = Tail(s.queue)]
        BY <3>1 DEF f
      <3> QED BY <2>2, <3>2, <3>3 DEF Semaphores, Locks
    <2> QED BY <2>1, <2>2
  <1>2. V(s) = [f EXCEPT !.value = f.value + 1]
    BY DEF V
  <1> HIDE DEF f
  <1> QED BY <1>1, <1>2 DEF Semaphores, Locks

LEMMA ReleaseQueue ==
  ASSUME NEW l \in Locks
  PROVE  Release(l).queue = IF l.queue = <<>> THEN <<>> ELSE Tail(l.queue)
  <1>1. HeldBy(l, Nobody) \in Locks /\ HeldBy(l, Nobody).queue = l.queue
    BY DEF HeldBy, Locks
  <1> QED BY <1>1, VQueue DEF Release

\* V makes the first waiter ready and loses nobody.
LEMMA WakeKeepsApart ==
  ASSUME NEW q \in Seq(Program), NEW r \in Seq(Program), NEW s, s.queue \in Seq(Program),
         Apart(q, r, s.queue), NEW rest,
         rest = IF s.queue = <<>> THEN <<>> ELSE Tail(s.queue)
  PROVE  /\ Apart(WokenBy(s, q), r, rest)
         /\ \A t : Among(WokenBy(s, q), r, rest, t) <=> Among(q, r, s.queue, t)
  <1>1. CASE s.queue = <<>>
    BY <1>1 DEF WokenBy
  <1>2. CASE s.queue # <<>>
    <2> DEFINE h == Head(s.queue)
    <2>1. /\ h \in Program /\ In(s.queue, h) /\ Distinct(rest)
          /\ \A u : In(rest, u) <=> In(s.queue, u) /\ u # h
      BY <1>2, LeaveQueue DEF Apart
    <2>2. WokenBy(s, q) = Append(q, h)
      BY <1>2 DEF WokenBy
    <2>3. /\ \A u : In(Append(q, h), u) <=> In(q, u) \/ u = h
          /\ Distinct(Append(q, h))
      BY <2>1, JoinQueue DEF Apart
    <2> HIDE DEF h
    <2> QED BY <2>1, <2>2, <2>3 DEF Apart, Among
  <1> QED BY <1>1, <1>2

(***************************************************************************)
(* The inductive invariant: a thread that has not finished is current or   *)
(* in one queue, once; when the CPU idles the current thread has finished  *)
(* or is asleep like the others.                                           *)
(***************************************************************************)
PlacesInv ==
  /\ Apart(readyList, lock.queue, waitFor.queue)
  /\ \A t \in Program :
       Among(readyList, lock.queue, waitFor.queue, t) <=>
         at[t] # "finished" /\ (t = currentThread => phase = "idle")
  /\ phase # "idle" => at[currentThread] # "finished"

LEMMA QueueTypes ==
  ASSUME KernelTypes
  PROVE  /\ readyList \in Seq(Program) /\ lock.queue \in Seq(Program)
         /\ waitFor.queue \in Seq(Program)
         /\ currentThread \in Program /\ at \in [Program -> PC]
         /\ lock \in Locks /\ waitFor \in Semaphores
  BY DEF KernelTypes, ThreadTypes, DisplayTypes, Locks, Semaphores

\* Sleep gives the CPU to the first thread that is ready, once everybody who
\* has not finished is in a queue.
LEMMA SleepPlaces ==
  ASSUME NEW ready \in Seq(Program), Sleep(ready),
         Apart(ready, lock'.queue, waitFor'.queue),
         \A t \in Program :
           Among(ready, lock'.queue, waitFor'.queue, t) <=> at'[t] # "finished"
  PROVE  PlacesInv'
  <1>1. CASE ready = <<>>
    BY <1>1 DEF Sleep, PlacesInv
  <1>2. CASE ready # <<>>
    <2>1. /\ Head(ready) \in Program /\ In(ready, Head(ready)) /\ Distinct(Tail(ready))
          /\ \A u : In(Tail(ready), u) <=> In(ready, u) /\ u # Head(ready)
      BY <1>2, LeaveQueue DEF Apart
    <2>2. readyList' = Tail(ready) /\ currentThread' = Head(ready) /\ phase' # "idle"
      BY <1>2 DEF Sleep, Run
    <2> QED BY <2>1, <2>2 DEF Apart, Among, PlacesInv
  <1> QED BY <1>1, <1>2

LEMMA EnablePlaces ==
  ASSUME KernelTypes, PlacesInv, phase = "code", NEW pc \in PC \ {"finished"}, EnableAt(pc),
         lock'.queue = lock.queue, waitFor'.queue = waitFor.queue
  PROVE  PlacesInv'
  BY QueueTypes DEF PlacesInv, EnableAt

\* A P in kernel code, on the lock or on the semaphore.
LEMMA PlacesAfterP ==
  ASSUME KernelTypes, PlacesInv, phase = "code", NEW s,
         NEW past \in PC \ {"finished"}, NEW pc \in PC \ {"finished"},
         GoOnOrSleep(s, past, pc),
         \/ s = lock /\ lock'.queue = P(s, currentThread).queue /\ waitFor'.queue = waitFor.queue
         \/ s = waitFor /\ waitFor'.queue = P(s, currentThread).queue /\ lock'.queue = lock.queue
  PROVE  PlacesInv'
  <1> DEFINE c == currentThread
  <1>1. /\ readyList \in Seq(Program) /\ s.queue \in Seq(Program)
        /\ c \in Program /\ at \in [Program -> PC] /\ s \in Semaphores \cup Locks
    BY QueueTypes
  <1>2. CASE Passes(s)
    <2>1. lock'.queue = lock.queue /\ waitFor'.queue = waitFor.queue
      BY <1>1, <1>2, PQueue
    <2> QED BY <1>2, <2>1, EnablePlaces DEF GoOnOrSleep
  <1>3. CASE ~ Passes(s)
    <2>1. P(s, c).queue = Append(s.queue, c)
      BY <1>1, <1>3, PQueue
    <2>2. Sleep(readyList) /\ at' = [at EXCEPT ![c] = pc]
      BY <1>3 DEF GoOnOrSleep
    <2>3. ~ Among(readyList, lock.queue, waitFor.queue, c)
      BY <1>1 DEF PlacesInv
    <2>4. Distinct(s.queue) /\ ~ In(s.queue, c)
      BY <2>3 DEF PlacesInv, Apart, Among
    <2>5. /\ \A u : In(Append(s.queue, c), u) <=> In(s.queue, u) \/ u = c
          /\ Distinct(Append(s.queue, c))
      BY <1>1, <2>4, JoinQueue
    <2>6. Apart(readyList, lock'.queue, waitFor'.queue)
      BY <2>1, <2>3, <2>5 DEF PlacesInv, Apart, Among
    <2>7. ASSUME NEW t \in Program
          PROVE  Among(readyList, lock'.queue, waitFor'.queue, t) <=> at'[t] # "finished"
      <3>1. Among(readyList, lock'.queue, waitFor'.queue, t) <=>
              Among(readyList, lock.queue, waitFor.queue, t) \/ t = c
        BY <2>1, <2>5 DEF Among
      <3> QED BY <1>1, <2>2, <3>1 DEF PlacesInv
    <2> QED BY <1>1, <2>2, <2>6, <2>7, SleepPlaces
  <1> QED BY <1>2, <1>3

\* The handlers wake who waits for the display.
LEMMA HandledPlaces ==
  ASSUME KernelTypes, PlacesInv, NEW p, Handled(p), lock' = lock
  PROVE  /\ ReadyAfter(p) \in Seq(Program)
         /\ ReadyAfter(p) = <<>> => readyList = <<>>
         /\ Apart(ReadyAfter(p), lock'.queue, waitFor'.queue)
         /\ \A t : Among(ReadyAfter(p), lock'.queue, waitFor'.queue, t) <=>
                   Among(readyList, lock.queue, waitFor.queue, t)
  <1>1. ReadyAfter(p) \in Seq(Program)
    BY ReadyAfterType
  <1>2. CASE Fires(p, "display")
    <2>1. waitFor' = V(waitFor) /\ ReadyAfter(p) = WokenBy(waitFor, readyList)
      BY <1>2 DEF Handled, ReadyAfter
    <2>2. waitFor'.queue = IF waitFor.queue = <<>> THEN <<>> ELSE Tail(waitFor.queue)
      BY <2>1, QueueTypes, VQueue
    <2>3. ReadyAfter(p) = <<>> => readyList = <<>>
      <3>1. CASE waitFor.queue = <<>>
        BY <2>1, <3>1 DEF WokenBy
      <3>2. CASE waitFor.queue # <<>>
        <4>1. Head(waitFor.queue) \in Program /\ readyList \in Seq(Program)
          BY <3>2, QueueTypes
        <4>2. Append(readyList, Head(waitFor.queue)) # <<>>
          BY <4>1
        <4> QED BY <2>1, <3>2, <4>2 DEF WokenBy
      <3> QED BY <3>1, <3>2
    <2>4. /\ readyList \in Seq(Program) /\ lock.queue \in Seq(Program)
          /\ waitFor.queue \in Seq(Program)
          /\ Apart(readyList, lock.queue, waitFor.queue)
      BY QueueTypes DEF PlacesInv
    <2>5. /\ Apart(WokenBy(waitFor, readyList), lock.queue, waitFor'.queue)
          /\ \A t : Among(WokenBy(waitFor, readyList), lock.queue, waitFor'.queue, t) <=>
                    Among(readyList, lock.queue, waitFor.queue, t)
      BY <2>2, <2>4, WakeKeepsApart
    <2> QED BY <1>1, <2>1, <2>3, <2>5
  <1>3. CASE ~ Fires(p, "display")
    BY <1>1, <1>3 DEF Handled, ReadyAfter, PlacesInv
  <1> QED BY <1>2, <1>3

\* Yield: to the back of the ready list, behind whom the handlers woke.
LEMMA YieldPlaces ==
  ASSUME KernelTypes, PlacesInv, phase = "tick", NEW ready \in Seq(Program), YieldTo(ready),
         at' = at, ready = <<>> => readyList = <<>>,
         Apart(ready, lock'.queue, waitFor'.queue),
         \A t : Among(ready, lock'.queue, waitFor'.queue, t) <=>
                Among(readyList, lock.queue, waitFor.queue, t)
  PROVE  PlacesInv'
  <1> DEFINE c == currentThread
  <1>1. c \in Program /\ at[c] # "finished" /\ ~ Among(ready, lock'.queue, waitFor'.queue, c)
    BY QueueTypes DEF PlacesInv
  <1>2. CASE ready = <<>>
    <2>1. readyList' = ready /\ phase' = "tick" /\ currentThread' = c
      BY <1>2 DEF YieldTo
    <2> QED BY <2>1 DEF PlacesInv
  <1>3. CASE ready # <<>>
    <2>1. /\ Head(ready) \in Program /\ In(ready, Head(ready)) /\ Distinct(Tail(ready))
          /\ Tail(ready) \in Seq(Program)
          /\ \A u : In(Tail(ready), u) <=> In(ready, u) /\ u # Head(ready)
      BY <1>3, LeaveQueue DEF Apart
    <2>2. ~ In(Tail(ready), c)
      BY <1>1, <2>1 DEF Among
    <2>3. /\ \A u : In(Append(Tail(ready), c), u) <=> In(Tail(ready), u) \/ u = c
          /\ Distinct(Append(Tail(ready), c))
      BY <1>1, <2>1, <2>2, JoinQueue
    <2>4. /\ readyList' = Append(Tail(ready), c) /\ currentThread' = Head(ready)
          /\ phase' # "idle"
      BY <1>3 DEF YieldTo, Run
    <2>5. Head(ready) # c
      BY <1>1, <2>1 DEF Among
    <2>6. Apart(readyList', lock'.queue, waitFor'.queue)
      BY <1>1, <2>1, <2>3, <2>4 DEF Apart, Among
    <2>7. ASSUME NEW t \in Program
          PROVE  Among(readyList', lock'.queue, waitFor'.queue, t) <=>
                   at[t] # "finished" /\ t # currentThread'
      <3>1. Among(readyList', lock'.queue, waitFor'.queue, t) <=>
              t = c \/ (Among(ready, lock'.queue, waitFor'.queue, t) /\ t # Head(ready))
        BY <2>1, <2>3, <2>4, <2>5 DEF Apart, Among
      <3> QED BY <1>1, <2>4, <2>5, <3>1 DEF PlacesInv
    <2>8. at[Head(ready)] # "finished"
      BY <2>1 DEF PlacesInv, Among
    <2> QED BY <2>4, <2>6, <2>7, <2>8 DEF PlacesInv
  <1> QED BY <1>2, <1>3

LEMMA StepPlaces == ASSUME KernelTypes, PlacesInv, Next PROVE PlacesInv'
  <1>1. /\ readyList \in Seq(Program) /\ currentThread \in Program /\ at \in [Program -> PC]
        /\ lock \in Locks /\ waitFor \in Semaphores /\ lock.queue \in Seq(Program)
        /\ waitFor.queue \in Seq(Program)
    BY QueueTypes
  <1>2. CASE OneTick
    <2>1. PICK p : /\ phase = "tick" /\ Handled(p) /\ at' = at /\ lock' = lock
                   /\ YieldTo(ReadyAfter(p)) \/ ResumeTo(ReadyAfter(p))
      BY <1>2 DEF OneTick
    <2>2. CASE YieldTo(ReadyAfter(p))
      BY <2>1, <2>2, HandledPlaces, YieldPlaces
    <2>3. CASE ResumeTo(ReadyAfter(p))
      BY <2>1, <2>3, HandledPlaces DEF ResumeTo, PlacesInv
    <2> QED BY <2>1, <2>2, <2>3
  <1>3. CASE Idle
    <2>1. PICK p : /\ phase = "idle" /\ Handled(p) /\ at' = at /\ lock' = lock
                   /\ Sleep(ReadyAfter(p))
      BY <1>3 DEF Idle
    <2> QED BY <2>1, HandledPlaces, SleepPlaces DEF PlacesInv
  <1>4. CASE Begin \/ Instruction \/ FileSystemCall \/ ReturnFromPrintInt
    <2>1. /\ phase = "code" /\ UNCHANGED <<lock, waitFor>>
          /\ \E pc \in PC \ {"finished"} : EnableAt(pc)
      BY <1>4 DEF Begin, Instruction, FileSystemCall, ReturnFromPrintInt, Executes, displayVars, PC
    <2> QED BY <2>1, EnablePlaces
  <1>5. CASE MachineRun \/ Halt
    BY <1>1, <1>5 DEF MachineRun, Halt, Executes, displayVars, PlacesInv
  <1>6. CASE Exit
    <2>1. /\ phase = "code" /\ Sleep(readyList) /\ UNCHANGED <<lock, waitFor>>
          /\ at' = [at EXCEPT ![currentThread] = "finished"]
      BY <1>6 DEF Exit, Executes, displayVars
    <2>2. \A t \in Program :
            Among(readyList, lock.queue, waitFor.queue, t) <=> at'[t] # "finished"
      BY <1>1, <2>1 DEF PlacesInv
    <2> QED BY <1>1, <2>1, <2>2, SleepPlaces DEF PlacesInv
  <1>7. CASE PrintInt \/ Acquire
    <2>1. /\ phase = "code" /\ lock' = P(lock, currentThread) /\ waitFor' = waitFor
          /\ GoOnOrSleep(lock, "put", "acquire")
      BY <1>7 DEF PrintInt, Acquire, Executes
    <2> QED BY <2>1, PlacesAfterP DEF PC
  <1>8. CASE PutChar \/ Wait
    <2>1. /\ phase = "code" /\ waitFor' = P(waitFor, currentThread)
          /\ lock' = lock \/ lock' = HeldBy(lock, currentThread)
          /\ GoOnOrSleep(waitFor, "put", "wait")
      BY <1>8 DEF PutChar, Wait, Executes
    <2>2. lock'.queue = lock.queue
      BY <1>1, <2>1 DEF HeldBy, Locks
    <2> QED BY <2>1, <2>2, PlacesAfterP DEF PC
  <1>9. CASE ReleaseDisplay
    <2>1. /\ phase = "code" /\ lock' = Release(lock) /\ waitFor' = waitFor
          /\ readyList' = WokenBy(lock, readyList) /\ currentThread' = currentThread
          /\ at' = [at EXCEPT ![currentThread] = "return"] /\ phase' = "tick"
      BY <1>9 DEF ReleaseDisplay, Executes
    <2>2. lock'.queue = IF lock.queue = <<>> THEN <<>> ELSE Tail(lock.queue)
      BY <1>1, <2>1, ReleaseQueue
    <2>3. Apart(readyList, waitFor.queue, lock.queue)
      BY DEF PlacesInv, Apart
    <2>4. /\ Apart(readyList', waitFor.queue, lock'.queue)
          /\ \A t : Among(readyList', waitFor.queue, lock'.queue, t) <=>
                    Among(readyList, waitFor.queue, lock.queue, t)
      BY <1>1, <2>1, <2>2, <2>3, WakeKeepsApart
    <2>5. /\ Apart(readyList', lock'.queue, waitFor'.queue)
          /\ \A t : Among(readyList', lock'.queue, waitFor'.queue, t) <=>
                    Among(readyList, lock.queue, waitFor.queue, t)
      BY <2>1, <2>4 DEF Apart, Among
    <2> QED BY <1>1, <2>1, <2>5 DEF PlacesInv
  <1>10. CASE UNCHANGED vars
    BY <1>10 DEF vars, kernelVars, displayVars, PlacesInv
  <1> QED BY <1>2, <1>3, <1>4, <1>5, <1>6, <1>7, <1>8, <1>9, <1>10 DEF Next, Halted

LEMMA PlacesInit ==
  ASSUME ClockAssumption, ExecfileAssumption PROVE Init => PlacesInv
  <1> SUFFICES ASSUME Init PROVE PlacesInv
    OBVIOUS
  <1>1. execfile \in Seq(Program) /\ execfile # <<>>
    BY DEF ClockAssumption
  <1>2. \A t \in Program : In(execfile, t)
    BY DEF ExecfileAssumption, In
  <1>3. Distinct(execfile)
    <2>1. ASSUME NEW i \in DOMAIN execfile, NEW j \in DOMAIN execfile, execfile[i] = execfile[j]
          PROVE  i = j
      <3>1. execfile[i] \in Program
        BY <1>1
      <3> QED BY <2>1, <3>1 DEF ExecfileAssumption
    <2> QED BY <2>1 DEF Distinct
  <1>4. /\ Head(execfile) \in Program /\ Distinct(Tail(execfile))
        /\ \A u : In(Tail(execfile), u) <=> In(execfile, u) /\ u # Head(execfile)
    BY <1>1, <1>3, LeaveQueue
  <1>5. /\ lock.queue = <<>> /\ waitFor.queue = <<>> /\ readyList = Tail(execfile)
        /\ currentThread = Head(execfile) /\ phase = "code"
        /\ at = [t \in Program |-> "begin"]
    BY DEF Init, NewLock, NewSemaphore
  <1>6. \A t : ~ In(<<>>, t)
    BY DEF In
  <1>7. Distinct(<<>>)
    BY DEF Distinct
  <1> QED BY <1>2, <1>4, <1>5, <1>6, <1>7 DEF PlacesInv, Apart, Among

\* Among three queues one after the other, as NoProgramLost has them.
LEMMA QueuesInARow ==
  ASSUME NEW q \in Seq(Program), NEW r \in Seq(Program), NEW s \in Seq(Program),
         Apart(q, r, s)
  PROVE  /\ Distinct(q \o r \o s)
         /\ \A t : In(q \o r \o s, t) <=> Among(q, r, s, t)
  <1>1. ASSUME NEW a \in Seq(Program), NEW b \in Seq(Program)
        PROVE  /\ a \o b \in Seq(Program)
               /\ \A t : In(a \o b, t) <=> In(a, t) \/ In(b, t)
               /\ Distinct(a) /\ Distinct(b) /\ (\A t : ~ (In(a, t) /\ In(b, t)))
                    => Distinct(a \o b)
    <2> DEFINE c == a \o b
    <2>1. /\ c \in Seq(Program) /\ Len(a) \in Nat /\ Len(b) \in Nat
          /\ DOMAIN a = 1 .. Len(a) /\ DOMAIN b = 1 .. Len(b)
          /\ DOMAIN c = 1 .. Len(a) + Len(b)
          /\ \A i \in 1 .. Len(a) + Len(b) : c[i] = IF i <= Len(a) THEN a[i] ELSE b[i - Len(a)]
      OBVIOUS
    <2> HIDE DEF c
    <2>2. \A i \in DOMAIN c : IF i <= Len(a) THEN i \in DOMAIN a /\ c[i] = a[i]
                              ELSE i - Len(a) \in DOMAIN b /\ c[i] = b[i - Len(a)]
      BY <2>1
    <2>3. /\ \A i \in DOMAIN a : i \in DOMAIN c /\ c[i] = a[i]
          /\ \A i \in DOMAIN b : i + Len(a) \in DOMAIN c /\ c[i + Len(a)] = b[i]
      BY <2>1
    <2>4. ASSUME NEW t PROVE In(c, t) <=> In(a, t) \/ In(b, t)
      <3>1. In(c, t) => In(a, t) \/ In(b, t)
        BY <2>2 DEF In
      <3>2. In(a, t) \/ In(b, t) => In(c, t)
        BY <2>3 DEF In
      <3> QED BY <3>1, <3>2
    <2>5. ASSUME Distinct(a), Distinct(b), \A t : ~ (In(a, t) /\ In(b, t)) PROVE Distinct(c)
      <3>1. ASSUME NEW i \in DOMAIN c, NEW j \in DOMAIN c, c[i] = c[j] PROVE i = j
        <4>1. i \in Nat /\ j \in Nat
          BY <2>1
        <4>2. (i <= Len(a)) <=> (j <= Len(a))
          BY <2>2, <2>5, <3>1 DEF In
        <4>3. CASE i <= Len(a) /\ j <= Len(a)
          BY <2>2, <2>5, <3>1, <4>3 DEF Distinct
        <4>4. CASE ~ (i <= Len(a)) /\ ~ (j <= Len(a))
          <5>1. i - Len(a) = j - Len(a)
            BY <2>2, <2>5, <3>1, <4>4 DEF Distinct
          <5> QED BY <2>1, <4>1, <5>1
        <4> QED BY <4>2, <4>3, <4>4
      <3> QED BY <3>1 DEF Distinct
    <2> QED BY <2>1, <2>4, <2>5 DEF c
  <1>2. /\ q \o r \in Seq(Program) /\ Distinct(q \o r)
        /\ \A t : In(q \o r, t) <=> In(q, t) \/ In(r, t)
    BY <1>1 DEF Apart
  <1>3. \A t : ~ (In(q \o r, t) /\ In(s, t))
    BY <1>2 DEF Apart
  <1>4. /\ Distinct((q \o r) \o s)
        /\ \A t : In((q \o r) \o s, t) <=> In(q \o r, t) \/ In(s, t)
    BY <1>1, <1>2, <1>3 DEF Apart
  <1> QED BY <1>2, <1>4 DEF Among

-------------------------------------------------------------------------------
(* User programs: the interrupts to come *)

Entries(S) == [for : {"timer", "display"}, in : S]
TimerIn(n) == [for |-> "timer", in |-> n]
DisplayIn(n) == [for |-> "display", in |-> n]

\* The list while the display is idle, and while it is busy, with times from S.
One(p, S) == \E t \in S : p = <<TimerIn(t)>>
Two(p, S) == \E t \in S, d \in S : \/ p = <<TimerIn(t), DisplayIn(d)>> /\ t <= d
                                   \/ p = <<DisplayIn(d), TimerIn(t)>> /\ d <= t

Ticks == Nat \ {0}

\* The inductive invariant of the list.
PendingInv == IF putBusy THEN Two(pending, Ticks) ELSE One(pending, Ticks)

\* Leading(p, n) is what its name says, where there is such a number.
LEMMA LeadingIs ==
  ASSUME NEW p \in Seq(Entries(Int)), NEW n \in Int, NEW k \in 0 .. Len(p),
         \A i \in 1 .. k : p[i].in <= n, k < Len(p) => p[k + 1].in > n
  PROVE  Leading(p, n) = k
  <1> DEFINE Is(m) == (\A i \in 1 .. m : p[i].in <= n) /\ (m < Len(p) => p[m + 1].in > n)
  <1>1. Is(k)
    OBVIOUS
  <1>2. ASSUME NEW m \in 0 .. Len(p), Is(m) PROVE m = k
    <2>1. \A i \in 1 .. Len(p) : p[i].in \in Int
      <3>1. \A i \in 1 .. Len(p) : p[i] \in Entries(Int)
        BY ElementOfSeq
      <3> QED BY <3>1 DEF Entries
    <2>2. ~ (m < k)
      <3> SUFFICES ASSUME m < k PROVE FALSE
        OBVIOUS
      <3>1. m + 1 \in 1 .. k /\ m + 1 \in 1 .. Len(p)
        OBVIOUS
      <3> QED BY <1>1, <1>2, <2>1, <3>1
    <2>3. ~ (k < m)
      <3> SUFFICES ASSUME k < m PROVE FALSE
        OBVIOUS
      <3>1. k + 1 \in 1 .. m /\ k + 1 \in 1 .. Len(p)
        OBVIOUS
      <3> QED BY <1>1, <1>2, <2>1, <3>1
    <2> QED BY <2>2, <2>3
  <1>3. Leading(p, n) = CHOOSE m \in 0 .. Len(p) : Is(m)
    BY DEF Leading
  <1> HIDE DEF Is
  <1> QED BY <1>1, <1>2, <1>3

LEMMA LeadingOfOne ==
  ASSUME NEW a \in Entries(Int), NEW n \in Int
  PROVE  Leading(<<a>>, n) = IF a.in <= n THEN 1 ELSE 0
  <1> DEFINE p == <<a>>
             k == IF a.in <= n THEN 1 ELSE 0
  <1>1. p \in Seq(Entries(Int)) /\ Len(p) = 1 /\ p[1] = a /\ a.in \in Int
    BY DEF Entries
  <1>2. k \in 0 .. 1 /\ (\A i \in 1 .. k : p[i].in <= n) /\ (k < 1 => p[k + 1].in > n)
    BY <1>1
  <1> HIDE DEF p, k
  <1> QED BY <1>1, <1>2, LeadingIs DEF p, k

LEMMA LeadingOfTwo ==
  ASSUME NEW a \in Entries(Int), NEW b \in Entries(Int), NEW n \in Int, a.in <= b.in
  PROVE  Leading(<<a, b>>, n) = IF b.in <= n THEN 2 ELSE IF a.in <= n THEN 1 ELSE 0
  <1> DEFINE p == <<a, b>>
             k == IF b.in <= n THEN 2 ELSE IF a.in <= n THEN 1 ELSE 0
  <1>1. /\ p \in Seq(Entries(Int)) /\ Len(p) = 2 /\ p[1] = a /\ p[2] = b
        /\ a.in \in Int /\ b.in \in Int
    BY DEF Entries
  <1>2. k \in 0 .. 2 /\ (\A i \in 1 .. k : p[i].in <= n) /\ (k < 2 => p[k + 1].in > n)
    BY <1>1
  <1> HIDE DEF p, k
  <1> QED BY <1>1, <1>2, LeadingIs DEF p, k

LEMMA FunctionIsList ==
  ASSUME NEW S, NEW n \in Nat, NEW f \in [1 .. n -> S] PROVE f \in Seq(S) /\ Len(f) = n
  OBVIOUS

LEMMA ListOfOne == ASSUME NEW S, NEW s \in Seq(S), Len(s) = 1 PROVE s = <<s[1]>>
  OBVIOUS

LEMMA ListOfTwo == ASSUME NEW S, NEW s \in Seq(S), Len(s) = 2 PROVE s = <<s[1], s[2]>>
  OBVIOUS

\* The parts of lists of one and two, and how a list of two is put together.
LEMMA PartsOfOne ==
  ASSUME NEW a
  PROVE  SubSeq(<<a>>, 1, 0) = <<>> /\ SubSeq(<<a>>, 1, 1) = <<a>> /\ SubSeq(<<a>>, 2, 1) = <<>>
  <1>1. <<a>> \in Seq({a}) /\ Len(<<a>>) = 1
    OBVIOUS
  <1>2. SubSeq(<<a>>, 1, 1) = <<a>>
    BY <1>1, SubSeqFull
  <1> QED BY <1>2, SubSeqEmpty

LEMMA PartsOfTwo ==
  ASSUME NEW a, NEW b
  PROVE  /\ SubSeq(<<a, b>>, 1, 0) = <<>> /\ SubSeq(<<a, b>>, 1, 1) = <<a>>
         /\ SubSeq(<<a, b>>, 1, 2) = <<a, b>> /\ SubSeq(<<a, b>>, 2, 2) = <<b>>
         /\ SubSeq(<<a, b>>, 3, 2) = <<>>
  <1> DEFINE p == <<a, b>>
             S == {a, b}
  <1>1. p \in Seq(S) /\ Len(p) = 2 /\ p[1] = a /\ p[2] = b
    OBVIOUS
  <1> HIDE DEF p, S
  <1>2. SubSeq(p, 1, 2) = p
    BY <1>1, SubSeqFull
  <1>3. SubSeq(p, 1, 0) = <<>> /\ SubSeq(p, 2, 1) = <<>> /\ SubSeq(p, 3, 2) = <<>>
    BY SubSeqEmpty
  <1>4. ASSUME NEW m \in 1 .. 2 PROVE SubSeq(p, m, m) = <<p[m]>>
    <2> DEFINE r == SubSeq(p, m, m)
    <2>1. r \in Seq(S) /\ Len(r) = 1 /\ r[1] = p[m]
      BY <1>1
    <2> HIDE DEF r
    <2>2. r = <<r[1]>>
      BY <2>1, ListOfOne
    <2> QED BY <2>1, <2>2 DEF r
  <1> QED BY <1>1, <1>2, <1>3, <1>4 DEF p

LEMMA OneAndOne == ASSUME NEW a, NEW b PROVE <<a>> \o <<b>> = <<a, b>>
  <1> DEFINE r == <<a>> \o <<b>>
  <1>1. r \in Seq({a, b}) /\ Len(r) = 2 /\ r[1] = a /\ r[2] = b
    OBVIOUS
  <1> HIDE DEF r
  <1>2. r = <<r[1], r[2]>>
    BY <1>1, ListOfTwo
  <1> QED BY <1>1, <1>2 DEF r

LEMMA InsertIntoNone ==
  ASSUME NEW x \in Entries(Int) PROVE Insert(<<>>, x) = <<x>>
  <1> DEFINE p == <<>>
  <1>1. p \in Seq(Entries(Int)) /\ Len(p) = 0 /\ x.in \in Int /\ 0 \in 0 .. Len(p)
    BY DEF Entries
  <1>2. SubSeq(p, 1, 0) = <<>>
    BY SubSeqEmpty
  <1> HIDE DEF p
  <1>3. Leading(p, x.in) = 0
    <2>1. ASSUME NEW k \in 0 .. Len(p), k = 0 PROVE Leading(p, x.in) = k
      <3>1. (\A i \in 1 .. k : p[i].in <= x.in) /\ ~ (k < Len(p))
        BY <1>1, <2>1
      <3> QED BY <1>1, <3>1, LeadingIs
    <2> QED BY <1>1, <2>1
  <1>4. Insert(p, x) = SubSeq(p, 1, 0) \o <<x>> \o SubSeq(p, 1, 0)
    BY <1>1, <1>3 DEF Insert
  <1>5. <<>> \o <<x>> \o <<>> = <<x>>
    OBVIOUS
  <1> QED BY <1>2, <1>4, <1>5 DEF p

LEMMA InsertIntoOne ==
  ASSUME NEW x \in Entries(Int), NEW a \in Entries(Int)
  PROVE  Insert(<<a>>, x) = IF a.in <= x.in THEN <<a, x>> ELSE <<x, a>>
  <1> DEFINE p == <<a>>
             k == IF a.in <= x.in THEN 1 ELSE 0
  <1>1. a.in \in Int /\ x.in \in Int /\ Len(p) = 1
    BY DEF Entries
  <1>2. Leading(p, x.in) = k
    BY <1>1, LeadingOfOne
  <1>3. SubSeq(p, 1, 0) = <<>> /\ SubSeq(p, 1, 1) = p /\ SubSeq(p, 2, 1) = <<>>
    BY PartsOfOne
  <1>4. /\ <<>> \o <<x>> \o <<a>> = <<x, a>>
        /\ <<a>> \o <<x>> \o <<>> = <<a, x>>
    <2>1. <<>> \o <<x>> = <<x>> /\ <<a, x>> \in Seq({a, x})
      OBVIOUS
    <2>2. <<a, x>> \o <<>> = <<a, x>>
      BY <2>1, ConcatEmptySeq
    <2> QED BY <2>1, <2>2, OneAndOne
  <1> HIDE DEF p
  <1>5. CASE a.in <= x.in
    <2>1. Insert(p, x) = SubSeq(p, 1, 1) \o <<x>> \o SubSeq(p, 2, 1)
      BY <1>1, <1>2, <1>5 DEF Insert
    <2> QED BY <1>3, <1>4, <1>5, <2>1 DEF p
  <1>6. CASE ~ (a.in <= x.in)
    <2>1. Insert(p, x) = SubSeq(p, 1, 0) \o <<x>> \o SubSeq(p, 1, 1)
      BY <1>1, <1>2, <1>6 DEF Insert
    <2> QED BY <1>3, <1>4, <1>6, <2>1 DEF p
  <1> QED BY <1>5, <1>6

\* An interrupt when n more ticks have passed.
Sooner(a, n) == [a EXCEPT !.in = @ - n]

LEMMA SoonerType ==
  ASSUME NEW a \in Entries(Int), NEW n \in Int
  PROVE  /\ Sooner(a, n) \in Entries(Int)
         /\ Sooner(a, n).for = a.for /\ Sooner(a, n).in = a.in - n
  BY DEF Sooner, Entries

LEMMA LaterOfOne ==
  ASSUME NEW a \in Entries(Int), NEW n \in Int, pending = <<a>>
  PROVE  Later(n) = <<Sooner(a, n)>>
  <1> DEFINE p == Later(n)
  <1>1. DOMAIN pending = 1 .. 1 /\ pending[1] = a
    OBVIOUS
  <1>2. p \in [1 .. 1 -> Entries(Int)] /\ p[1] = Sooner(a, n)
    BY <1>1, SoonerType DEF Later, Sooner
  <1> HIDE DEF p
  <1>3. p \in Seq(Entries(Int)) /\ Len(p) = 1
    <2> QED BY <1>2, FunctionIsList
  <1>4. p = <<p[1]>>
    BY <1>3, ListOfOne
  <1> QED BY <1>2, <1>4 DEF p

LEMMA LaterOfTwo ==
  ASSUME NEW a \in Entries(Int), NEW b \in Entries(Int), NEW n \in Int, pending = <<a, b>>
  PROVE  Later(n) = <<Sooner(a, n), Sooner(b, n)>>
  <1> DEFINE p == Later(n)
  <1>1. DOMAIN pending = 1 .. 2 /\ pending[1] = a /\ pending[2] = b
    OBVIOUS
  <1>2. p \in [1 .. 2 -> Entries(Int)] /\ p[1] = Sooner(a, n) /\ p[2] = Sooner(b, n)
    <2>1. \A i \in 1 .. 2 : pending[i] \in Entries(Int)
      BY <1>1
    <2>2. \A i \in 1 .. 2 : Sooner(pending[i], n) \in Entries(Int)
      BY <2>1, SoonerType
    <2>3. p = [i \in 1 .. 2 |-> Sooner(pending[i], n)]
      BY <1>1 DEF Later, Sooner
    <2> HIDE DEF p
    <2> QED BY <1>1, <2>2, <2>3
  <1> HIDE DEF p
  <1>3. p \in Seq(Entries(Int)) /\ Len(p) = 2
    BY <1>2
  <1>4. p = <<p[1], p[2]>>
    BY <1>3, ListOfTwo
  <1> QED BY <1>2, <1>4 DEF p

\* What is due, of lists of one and two.
LEMMA DueOfOne ==
  ASSUME NEW a \in Entries(Int)
  PROVE  /\ Due(<<a>>) = IF a.in <= 0 THEN <<a>> ELSE <<>>
         /\ NotDue(<<a>>) = IF a.in <= 0 THEN <<>> ELSE <<a>>
  <1> DEFINE p == <<a>>
  <1>1. Len(p) = 1 /\ Leading(p, 0) = IF a.in <= 0 THEN 1 ELSE 0
    BY LeadingOfOne
  <1>2. SubSeq(p, 1, 0) = <<>> /\ SubSeq(p, 1, 1) = p /\ SubSeq(p, 2, 1) = <<>>
    BY PartsOfOne
  <1> HIDE DEF p
  <1>3. CASE a.in <= 0
    <2>1. Due(p) = SubSeq(p, 1, 1) /\ NotDue(p) = SubSeq(p, 2, 1)
      BY <1>1, <1>3 DEF Due, NotDue
    <2> QED BY <1>2, <1>3, <2>1 DEF p
  <1>4. CASE ~ (a.in <= 0)
    <2>1. Due(p) = SubSeq(p, 1, 0) /\ NotDue(p) = SubSeq(p, 1, 1)
      BY <1>1, <1>4 DEF Due, NotDue
    <2> QED BY <1>2, <1>4, <2>1 DEF p
  <1> QED BY <1>3, <1>4

LEMMA DueOfTwo ==
  ASSUME NEW a \in Entries(Int), NEW b \in Entries(Int), a.in <= b.in
  PROVE  /\ b.in <= 0 => Due(<<a, b>>) = <<a, b>> /\ NotDue(<<a, b>>) = <<>>
         /\ a.in <= 0 /\ ~ (b.in <= 0) => Due(<<a, b>>) = <<a>> /\ NotDue(<<a, b>>) = <<b>>
         /\ ~ (a.in <= 0) => Due(<<a, b>>) = <<>> /\ NotDue(<<a, b>>) = <<a, b>>
  <1> DEFINE p == <<a, b>>
  <1>1. Len(p) = 2 /\ Leading(p, 0) = IF b.in <= 0 THEN 2 ELSE IF a.in <= 0 THEN 1 ELSE 0
    BY LeadingOfTwo
  <1>2. /\ SubSeq(p, 1, 0) = <<>> /\ SubSeq(p, 1, 1) = <<a>> /\ SubSeq(p, 1, 2) = p
        /\ SubSeq(p, 2, 2) = <<b>> /\ SubSeq(p, 3, 2) = <<>>
    BY PartsOfTwo
  <1>3. a.in \in Int /\ b.in \in Int
    BY DEF Entries
  <1> HIDE DEF p
  <1>4. CASE b.in <= 0
    <2>1. Due(p) = SubSeq(p, 1, 2) /\ NotDue(p) = SubSeq(p, 3, 2)
      BY <1>1, <1>4 DEF Due, NotDue
    <2> QED BY <1>2, <1>3, <1>4, <2>1 DEF p
  <1>5. CASE a.in <= 0 /\ ~ (b.in <= 0)
    <2>1. Due(p) = SubSeq(p, 1, 1) /\ NotDue(p) = SubSeq(p, 2, 2)
      BY <1>1, <1>5 DEF Due, NotDue
    <2> QED BY <1>2, <1>3, <1>5, <2>1 DEF p
  <1>6. CASE ~ (a.in <= 0)
    <2>1. ~ (b.in <= 0)
      BY <1>3, <1>6
    <2>2. Due(p) = SubSeq(p, 1, 0) /\ NotDue(p) = SubSeq(p, 1, 2)
      BY <1>1, <1>6, <2>1 DEF Due, NotDue
    <2> QED BY <1>2, <1>6, <2>1, <2>2 DEF p
  <1> QED BY <1>4, <1>5, <1>6

LEMMA FiresIs ==
  ASSUME NEW p, NEW x
  PROVE  /\ Due(p) = <<>> => ~ Fires(p, x)
         /\ \A a : Due(p) = <<a>> => (Fires(p, x) <=> a.for = x)
         /\ \A a, b : Due(p) = <<a, b>> => (Fires(p, x) <=> a.for = x \/ b.for = x)
  <1> DEFINE d == Due(p)
  <1>1. Fires(p, x) <=> \E i \in DOMAIN d : d[i].for = x
    BY DEF Fires
  <1> HIDE DEF d
  <1>2. d = <<>> => DOMAIN d = {}
    OBVIOUS
  <1>3. ASSUME NEW a, d = <<a>> PROVE DOMAIN d = {1} /\ d[1] = a
    BY <1>3
  <1>4. ASSUME NEW a, NEW b, d = <<a, b>> PROVE DOMAIN d = {1, 2} /\ d[1] = a /\ d[2] = b
    BY <1>4
  <1> QED BY <1>1, <1>2, <1>3, <1>4 DEF d

LEMMA EntryTypes ==
  ASSUME NEW n \in Int
  PROVE  /\ TimerIn(n) \in Entries(Int) /\ TimerIn(n).for = "timer" /\ TimerIn(n).in = n
         /\ DisplayIn(n) \in Entries(Int) /\ DisplayIn(n).for = "display" /\ DisplayIn(n).in = n
         /\ \A m \in Int : /\ Sooner(TimerIn(n), m) = TimerIn(n - m)
                           /\ Sooner(DisplayIn(n), m) = DisplayIn(n - m)
  BY DEF TimerIn, DisplayIn, Entries, Sooner

\* A timer or display interrupt goes into a list that has none.
LEMMA TimerSet ==
  ASSUME NEW d \in Ticks
  PROVE  /\ One(Scheduled(<<>>, "timer", d), Ticks)
         /\ \A v \in Ticks : Two(Scheduled(<<DisplayIn(v)>>, "timer", d), Ticks)
  <1>1. Scheduled(<<>>, "timer", d) = <<TimerIn(d)>>
    BY EntryTypes, InsertIntoNone DEF Scheduled, TimerIn, Ticks
  <1>2. ASSUME NEW v \in Ticks
        PROVE  Scheduled(<<DisplayIn(v)>>, "timer", d) =
                 IF v <= d THEN <<DisplayIn(v), TimerIn(d)>> ELSE <<TimerIn(d), DisplayIn(v)>>
    <2>1. Scheduled(<<DisplayIn(v)>>, "timer", d) = Insert(<<DisplayIn(v)>>, TimerIn(d))
      BY DEF Scheduled, TimerIn
    <2>2. v \in Int /\ d \in Int
      BY DEF Ticks
    <2>3. /\ TimerIn(d) \in Entries(Int) /\ TimerIn(d).in = d
          /\ DisplayIn(v) \in Entries(Int) /\ DisplayIn(v).in = v
      BY <2>2, EntryTypes
    <2> QED BY <2>1, <2>3, InsertIntoOne
  <1>3. \A v \in Ticks : Two(Scheduled(<<DisplayIn(v)>>, "timer", d), Ticks)
    <2> SUFFICES ASSUME NEW v \in Ticks PROVE Two(Scheduled(<<DisplayIn(v)>>, "timer", d), Ticks)
      OBVIOUS
    <2>1. v \in Nat /\ d \in Nat
      BY DEF Ticks
    <2>2. CASE v <= d
      BY <1>2, <2>2 DEF Two
    <2>3. CASE ~ (v <= d)
      <3>1. d <= v
        BY <2>1, <2>3
      <3> QED BY <1>2, <2>3, <3>1 DEF Two
    <2> QED BY <2>2, <2>3
  <1> QED BY <1>1, <1>3 DEF One

LEMMA DisplaySet ==
  ASSUME NEW v \in Ticks, NEW d \in Ticks
  PROVE  Two(Scheduled(<<TimerIn(d)>>, "display", v), Ticks)
  <1>1. Scheduled(<<TimerIn(d)>>, "display", v) =
          IF d <= v THEN <<TimerIn(d), DisplayIn(v)>> ELSE <<DisplayIn(v), TimerIn(d)>>
    <2>1. Scheduled(<<TimerIn(d)>>, "display", v) = Insert(<<TimerIn(d)>>, DisplayIn(v))
      BY DEF Scheduled, DisplayIn
    <2>2. v \in Int /\ d \in Int
      BY DEF Ticks
    <2>3. /\ TimerIn(d) \in Entries(Int) /\ TimerIn(d).in = d
          /\ DisplayIn(v) \in Entries(Int) /\ DisplayIn(v).in = v
      BY <2>2, EntryTypes
    <2> QED BY <2>1, <2>3, InsertIntoOne
  <1>2. v \in Nat /\ d \in Nat
    BY DEF Ticks
  <1>3. CASE d <= v
    BY <1>1, <1>3 DEF Two
  <1>4. CASE ~ (d <= v)
    <2>1. v <= d
      BY <1>2, <1>4
    <2> QED BY <1>1, <1>4, <2>1 DEF Two
  <1> QED BY <1>3, <1>4

\* After the handlers, n ticks later: both interrupts came, or one, or none; the
\* display's comes only while it is busy.
LEMMA HandledPending ==
  ASSUME ClockAssumption, PendingInv, putBusy \in BOOLEAN, NEW n \in Nat, Handled(Later(n))
  PROVE  /\ PendingInv'
         /\ Fires(Later(n), "display") => putBusy /\ ~ putBusy'
         /\ ~ Fires(Later(n), "display") => UNCHANGED <<putBusy, waitFor>>
  <1> DEFINE p == Later(n)
             timer == Fires(p, "timer")
             display == Fires(p, "display")
  <1>1. /\ timer => \E d \in Ticks : pending' = Scheduled(NotDue(p), "timer", d)
        /\ ~ timer => pending' = NotDue(p)
        /\ display => ~ putBusy'
        /\ ~ display => UNCHANGED <<putBusy, waitFor>>
    BY DEF Handled, ClockAssumption, Ticks
  <1>2. ASSUME NEW x \in Int, ~ (x <= 0) PROVE x \in Ticks
    BY <1>2 DEF Ticks
  <1>3. ASSUME NEW t \in Ticks PROVE t \in Int /\ t - n \in Int
    BY DEF Ticks
  <1>4. CASE ~ putBusy
    <2>1. PICK t \in Ticks : pending = <<TimerIn(t)>>
      BY <1>4 DEF PendingInv, One
    <2> DEFINE a == TimerIn(t - n)
    <2>2. p = <<a>> /\ a \in Entries(Int) /\ a.for = "timer" /\ a.in = t - n
      <3>1. t \in Int /\ n \in Int /\ t - n \in Int
        BY <1>3
      <3>2. TimerIn(t) \in Entries(Int) /\ Sooner(TimerIn(t), n) = a
        BY <3>1, EntryTypes
      <3>3. p = <<a>>
        BY <2>1, <3>1, <3>2, LaterOfOne
      <3>4. a \in Entries(Int) /\ a.for = "timer" /\ a.in = t - n
        BY <3>1, EntryTypes
      <3> QED BY <3>3, <3>4
    <2> HIDE DEF p, a
    <2>3. CASE a.in <= 0
      <3>1. Due(p) = <<a>> /\ NotDue(p) = <<>>
        BY <2>2, <2>3, DueOfOne
      <3>2. timer /\ ~ display
        BY <2>2, <3>1, FiresIs
      <3>3. One(pending', Ticks)
        BY <1>1, <3>1, <3>2, TimerSet
      <3> QED BY <1>1, <1>4, <3>2, <3>3 DEF PendingInv, p
    <2>4. CASE ~ (a.in <= 0)
      <3>1. Due(p) = <<>> /\ NotDue(p) = <<a>>
        BY <2>2, <2>4, DueOfOne
      <3>2. ~ timer /\ ~ display
        BY <3>1, FiresIs
      <3>3. One(pending', Ticks)
        BY <1>1, <1>2, <1>3, <2>2, <2>4, <3>1, <3>2 DEF One, a
      <3> QED BY <1>1, <1>4, <3>2, <3>3 DEF PendingInv, p
    <2> QED BY <2>3, <2>4
  <1>5. CASE putBusy
    <2>1. PICK t \in Ticks, d \in Ticks :
            \/ pending = <<TimerIn(t), DisplayIn(d)>> /\ t <= d
            \/ pending = <<DisplayIn(d), TimerIn(t)>> /\ d <= t
      BY <1>5 DEF PendingInv, Two
    <2> DEFINE a == TimerIn(t - n)
               b == DisplayIn(d - n)
    <2>2. /\ a \in Entries(Int) /\ a.for = "timer" /\ a.in = t - n
          /\ b \in Entries(Int) /\ b.for = "display" /\ b.in = d - n
          /\ Sooner(TimerIn(t), n) = a /\ Sooner(DisplayIn(d), n) = b
          /\ TimerIn(t) \in Entries(Int) /\ DisplayIn(d) \in Entries(Int)
      <3>1. t \in Int /\ d \in Int /\ n \in Int /\ t - n \in Int /\ d - n \in Int
        BY <1>3
      <3>2. Sooner(TimerIn(t), n) = a /\ Sooner(DisplayIn(d), n) = b
        BY <3>1, EntryTypes
      <3> QED BY <3>1, <3>2, EntryTypes
    <2>3. CASE pending = <<TimerIn(t), DisplayIn(d)>> /\ t <= d
      <3>1. p = <<a, b>>
        BY <2>2, <2>3, LaterOfTwo
      <3>2. a.in <= b.in /\ t - n <= d - n
        BY <1>3, <2>2, <2>3
      <3> HIDE DEF p, a, b
      <3>3. CASE b.in <= 0
        <4>1. Due(p) = <<a, b>> /\ NotDue(p) = <<>>
          BY <2>2, <3>1, <3>2, <3>3, DueOfTwo
        <4>2. timer /\ display
          BY <2>2, <4>1, FiresIs
        <4>3. One(pending', Ticks)
          BY <1>1, <4>1, <4>2, TimerSet
        <4> QED BY <1>1, <1>5, <4>2, <4>3 DEF PendingInv, p
      <3>4. CASE a.in <= 0 /\ ~ (b.in <= 0)
        <4>1. Due(p) = <<a>> /\ NotDue(p) = <<b>>
          BY <2>2, <3>1, <3>2, <3>4, DueOfTwo
        <4>2. timer /\ ~ display
          BY <2>2, <4>1, FiresIs
        <4>3. Two(pending', Ticks)
          BY <1>1, <1>2, <1>3, <2>2, <3>4, <4>1, <4>2, TimerSet DEF b
        <4> QED BY <1>1, <1>5, <4>2, <4>3 DEF PendingInv, p
      <3>5. CASE ~ (a.in <= 0)
        <4>1. Due(p) = <<>> /\ NotDue(p) = <<a, b>>
          BY <2>2, <3>1, <3>2, <3>5, DueOfTwo
        <4>2. ~ timer /\ ~ display
          BY <4>1, FiresIs
        <4>3. t - n \in Ticks /\ d - n \in Ticks
          BY <1>2, <1>3, <2>2, <3>2, <3>5
        <4>4. Two(pending', Ticks)
          BY <1>1, <3>2, <4>1, <4>2, <4>3 DEF Two, a, b
        <4> QED BY <1>1, <1>5, <4>2, <4>4 DEF PendingInv, p
      <3> QED BY <3>3, <3>4, <3>5
    <2>4. CASE pending = <<DisplayIn(d), TimerIn(t)>> /\ d <= t
      <3>1. p = <<b, a>>
        BY <2>2, <2>4, LaterOfTwo
      <3>2. b.in <= a.in /\ d - n <= t - n
        BY <1>3, <2>2, <2>4
      <3> HIDE DEF p, a, b
      <3>3. CASE a.in <= 0
        <4>1. Due(p) = <<b, a>> /\ NotDue(p) = <<>>
          BY <2>2, <3>1, <3>2, <3>3, DueOfTwo
        <4>2. timer /\ display
          BY <2>2, <4>1, FiresIs
        <4>3. One(pending', Ticks)
          BY <1>1, <4>1, <4>2, TimerSet
        <4> QED BY <1>1, <1>5, <4>2, <4>3 DEF PendingInv, p
      <3>4. CASE b.in <= 0 /\ ~ (a.in <= 0)
        <4>1. Due(p) = <<b>> /\ NotDue(p) = <<a>>
          BY <2>2, <3>1, <3>2, <3>4, DueOfTwo
        <4>2. ~ timer /\ display
          BY <2>2, <4>1, FiresIs
        <4>3. One(pending', Ticks)
          BY <1>1, <1>2, <1>3, <2>2, <3>4, <4>1, <4>2 DEF One, a
        <4> QED BY <1>1, <1>5, <4>2, <4>3 DEF PendingInv, p
      <3>5. CASE ~ (b.in <= 0)
        <4>1. Due(p) = <<>> /\ NotDue(p) = <<b, a>>
          BY <2>2, <3>1, <3>2, <3>5, DueOfTwo
        <4>2. ~ timer /\ ~ display
          BY <4>1, FiresIs
        <4>3. t - n \in Ticks /\ d - n \in Ticks
          BY <1>2, <1>3, <2>2, <3>2, <3>5
        <4>4. Two(pending', Ticks)
          BY <1>1, <3>2, <4>1, <4>2, <4>3 DEF Two, a, b
        <4> QED BY <1>1, <1>5, <4>2, <4>4 DEF PendingInv, p
      <3> QED BY <3>3, <3>4, <3>5
    <2> QED BY <2>1, <2>3, <2>4
  <1> QED BY <1>4, <1>5

-------------------------------------------------------------------------------
(* User programs: the wait for the display *)

Waits(t) == at[t] = "wait"

(***************************************************************************)
(* The inductive invariant: nobody waits and the display is idle; or a     *)
(* thread waits, asleep until the display has put its character; or it has *)
(* been put and the thread is to find the value 1.                         *)
(***************************************************************************)
WaitForInv ==
  \/ /\ \A t \in Program : ~ Waits(t)
     /\ ~ putBusy /\ waitFor = [value |-> 0, queue |-> <<>>]
  \/ \E t \in Program :
       Waits(t) /\ putBusy /\ waitFor = [value |-> 0, queue |-> <<t>>]
  \/ \E t \in Program :
       Waits(t) /\ ~ putBusy /\ waitFor = [value |-> 1, queue |-> <<>>]

InterruptsInv == PendingInv /\ WaitForInv /\ putBusy \in BOOLEAN

LEMMA InterruptsInit == ASSUME ClockAssumption, Init PROVE InterruptsInv
  <1>1. PICK d \in TimerDelay : pending = Scheduled(<<>>, "timer", d)
    BY DEF Init
  <1>2. One(pending, Ticks)
    BY <1>1, TimerSet DEF ClockAssumption, Ticks
  <1>3. WaitForInv
    BY DEF Init, WaitForInv, Waits, NewSemaphore
  <1> QED BY <1>2, <1>3 DEF Init, InterruptsInv, PendingInv

\* The handlers wake who waits.
LEMMA HandledInterrupts ==
  ASSUME ClockAssumption, InterruptsInv, NEW n \in Nat, Handled(Later(n)), at' = at
  PROVE  InterruptsInv'
  <1>1. /\ PendingInv'
        /\ Fires(Later(n), "display") => putBusy /\ ~ putBusy'
        /\ ~ Fires(Later(n), "display") => UNCHANGED <<putBusy, waitFor>>
    BY HandledPending DEF InterruptsInv
  <1>2. CASE ~ Fires(Later(n), "display")
    BY <1>1, <1>2 DEF InterruptsInv, WaitForInv, Waits
  <1>3. CASE Fires(Later(n), "display")
    <2>1. PICK t \in Program : Waits(t) /\ waitFor = [value |-> 0, queue |-> <<t>>]
      BY <1>1, <1>3 DEF InterruptsInv, WaitForInv
    <2>2. waitFor' = [value |-> 1, queue |-> <<>>]
      <3>1. waitFor' = V(waitFor)
        BY <1>3 DEF Handled
      <3>2. Tail(<<t>>) = <<>> /\ <<t>> # <<>>
        OBVIOUS
      <3>3. FrontWoken(waitFor) = [value |-> 0, queue |-> <<>>]
        BY <2>1, <3>2 DEF FrontWoken
      <3> QED BY <3>1, <3>3 DEF V
    <2>3. putBusy' = FALSE
      BY <1>3 DEF Handled
    <2> QED BY <1>1, <2>1, <2>2, <2>3 DEF InterruptsInv, WaitForInv, Waits
  <1> QED BY <1>2, <1>3

LEMMA PutCharInterrupts ==
  ASSUME ClockAssumption, KernelTypes, DisplayInv, InterruptsInv, PutChar
  PROVE  InterruptsInv'
  <1> DEFINE c == currentThread
  <1>1. /\ at[c] = "put" /\ putBusy' = TRUE
        /\ pending' = Scheduled(pending, "display", ConsoleTime)
        /\ waitFor' = P(waitFor, c)
        /\ at' = [at EXCEPT ![c] = IF Passes(waitFor) THEN "put" ELSE "wait"]
    BY GoOnOrSleepPlace DEF PutChar, Executes
  <1>2. c \in Program /\ at \in [Program -> PC]
    BY DEF KernelTypes, ThreadTypes
  <1>3. \A t \in Program : ~ Waits(t)
    BY <1>1, <1>2 DEF DisplayInv, Inside, Waits
  <1>4. ~ putBusy /\ waitFor = [value |-> 0, queue |-> <<>>]
    BY <1>3 DEF InterruptsInv, WaitForInv
  <1>5. ~ Passes(waitFor) /\ waitFor' = [value |-> 0, queue |-> <<c>>]
    <2>1. Append(<<>>, c) = <<c>>
      OBVIOUS
    <2> QED BY <1>1, <1>4, <2>1 DEF Passes, P
  <1>6. WaitForInv'
    BY <1>1, <1>2, <1>5 DEF WaitForInv, Waits
  <1>7. Two(pending', Ticks)
    <2>1. PICK t \in Ticks : pending = <<TimerIn(t)>>
      BY <1>4 DEF InterruptsInv, PendingInv, One
    <2>2. ConsoleTime \in Ticks
      BY DEF ClockAssumption, Ticks
    <2> QED BY <1>1, <2>1, <2>2, DisplaySet
  <1> QED BY <1>1, <1>6, <1>7 DEF InterruptsInv, PendingInv

LEMMA WaitInterrupts ==
  ASSUME KernelTypes, DisplayInv, PlacesInv, InterruptsInv, Wait
  PROVE  InterruptsInv'
  <1> DEFINE c == currentThread
  <1>1. /\ at[c] = "wait" /\ phase = "code" /\ UNCHANGED <<putBusy, pending>>
        /\ waitFor' = P(waitFor, c)
        /\ at' = [at EXCEPT ![c] = IF Passes(waitFor) THEN "put" ELSE "wait"]
    BY GoOnOrSleepPlace DEF Wait, Executes
  <1>2. c \in Program /\ at \in [Program -> PC]
    BY DEF KernelTypes, ThreadTypes
  <1>3. \A t \in Program : Waits(t) => t = c
    BY <1>1, <1>2 DEF DisplayInv, Inside, Waits
  <1>4. ~ In(waitFor.queue, c)
    BY <1>1, <1>2 DEF PlacesInv, Among
  <1>5. ~ putBusy /\ waitFor = [value |-> 1, queue |-> <<>>]
    <2>1. In(<<c>>, c)
      BY DEF In
    <2> QED BY <1>1, <1>2, <1>3, <1>4, <2>1 DEF InterruptsInv, WaitForInv, Waits
  <1>6. Passes(waitFor) /\ waitFor' = [value |-> 0, queue |-> <<>>]
    BY <1>1, <1>5 DEF Passes, P
  <1>7. \A t \in Program : ~ Waits(t)'
    BY <1>1, <1>2, <1>3, <1>6 DEF Waits
  <1> QED BY <1>1, <1>5, <1>6, <1>7 DEF InterruptsInv, PendingInv, WaitForInv

LEMMA StepInterrupts ==
  ASSUME ClockAssumption, KernelTypes, DisplayInv, PlacesInv, InterruptsInv, [Next]_vars
  PROVE  InterruptsInv'
  <1>1. currentThread \in Program /\ at \in [Program -> PC]
    BY DEF KernelTypes, ThreadTypes
  <1>2. CASE OneTick
    <2> DEFINE n == IF status = "SystemMode" THEN SystemTick ELSE UserTick
    <2>1. n \in Nat /\ Handled(Later(n)) /\ at' = at
      BY <1>2 DEF OneTick, ClockAssumption
    <2> QED BY <2>1, HandledInterrupts
  <1>3. CASE Idle
    <2>1. Handled(Later(Head(pending).in)) /\ at' = at
      BY <1>3 DEF Idle
    <2>2. Head(pending).in \in Nat
      BY DEF InterruptsInv, PendingInv, One, Two, TimerIn, DisplayIn, Ticks
    <2> QED BY <2>1, <2>2, HandledInterrupts
  <1>4. CASE Begin \/ Instruction \/ FileSystemCall \/ ReturnFromPrintInt \/ MachineRun \/ Exit
             \/ Halt \/ PrintInt \/ Acquire \/ ReleaseDisplay \/ UNCHANGED vars
    <2>1. UNCHANGED <<pending, waitFor, putBusy>>
      BY <1>4 DEF Begin, Instruction, FileSystemCall, ReturnFromPrintInt, MachineRun, Exit, Halt,
                  PrintInt, Acquire, ReleaseDisplay, displayVars, kernelVars, vars
    <2>2. \A t \in Program : Waits(t)' <=> Waits(t)
      <3>1. CASE Halt \/ UNCHANGED vars
        BY <3>1 DEF Halt, kernelVars, vars, Waits
      <3>2. CASE Begin \/ Instruction \/ FileSystemCall \/ ReturnFromPrintInt \/ MachineRun
                 \/ Exit \/ ReleaseDisplay
        <4>1. /\ ~ Waits(currentThread)
              /\ \E pc \in PC \ {"wait"} : at' = [at EXCEPT ![currentThread] = pc]
          BY <3>2 DEF Begin, Instruction, FileSystemCall, ReturnFromPrintInt, MachineRun, Exit,
                      ReleaseDisplay, EnableAt, Executes, Waits, PC
        <4> QED BY <1>1, <4>1 DEF Waits
      <3>3. CASE PrintInt \/ Acquire
        <4>1. /\ ~ Waits(currentThread)
              /\ GoOnOrSleep(lock, "put", "acquire")
          BY <3>3 DEF PrintInt, Acquire, Executes, Waits
        <4> QED BY <1>1, <4>1, GoOnOrSleepPlace DEF Waits
      <3> QED BY <1>4, <3>1, <3>2, <3>3
    <2> QED BY <2>1, <2>2 DEF InterruptsInv, PendingInv, WaitForInv
  <1>5. CASE PutChar
    BY <1>5, PutCharInterrupts
  <1>6. CASE Wait
    BY <1>6, WaitInterrupts
  <1> QED BY <1>2, <1>3, <1>4, <1>5, <1>6 DEF Next, Halted

\* The positions of one kind in a list with one of each kind.
LEMMA InterruptsInvAgree ==
  ASSUME KernelTypes, DisplayInv, InterruptsInv PROVE InterruptsAgree
  <1>1. Executes("put") => ~ putBusy
    <2>1. Executes("put") => \A t \in Program : ~ Waits(t)
      BY DEF Executes, Waits, DisplayInv, Inside, KernelTypes, ThreadTypes
    <2> QED BY <2>1 DEF InterruptsInv, WaitForInv
  <1>2. CASE ~ putBusy
    <2>1. PICK t \in Ticks : pending = <<TimerIn(t)>>
      BY <1>2 DEF InterruptsInv, PendingInv, One
    <2>2. /\ DOMAIN pending = {1} /\ pending[1].for = "timer" /\ pending[1].in = t
          /\ t > 0 /\ t \in Nat
      BY <2>1 DEF TimerIn, Ticks
    <2> QED BY <1>1, <1>2, <2>2 DEF InterruptsAgree
  <1>3. CASE putBusy
    <2>1. PICK t \in Ticks, d \in Ticks :
            \/ pending = <<TimerIn(t), DisplayIn(d)>> /\ t <= d
            \/ pending = <<DisplayIn(d), TimerIn(t)>> /\ d <= t
      BY <1>3 DEF InterruptsInv, PendingInv, Two
    <2>2. \E i, j \in {1, 2} :
            /\ i # j /\ pending[i].for = "timer" /\ pending[j].for = "display"
      BY <2>1 DEF TimerIn, DisplayIn
    <2>3. DOMAIN pending = {1, 2}
      BY <2>1
    <2>4. /\ pending[1].in \in Ticks /\ pending[2].in \in Ticks
          /\ pending[1].in <= pending[2].in
      BY <2>1 DEF TimerIn, DisplayIn
    <2>5. \A i \in DOMAIN pending : pending[i].in > 0
      BY <2>3, <2>4 DEF Ticks
    <2>6. \A i, j \in DOMAIN pending : i < j => pending[i].in <= pending[j].in
      BY <2>3, <2>4 DEF Ticks
    <2>7. /\ \E i \in DOMAIN pending : {k \in DOMAIN pending : pending[k].for = "timer"} = {i}
          /\ \E i \in DOMAIN pending : {k \in DOMAIN pending : pending[k].for = "display"} = {i}
      BY <2>2, <2>3
    <2> QED BY <1>1, <1>3, <2>5, <2>6, <2>7 DEF InterruptsAgree
  <1> QED BY <1>2, <1>3 DEF InterruptsInv

-------------------------------------------------------------------------------
(* The theorems about user programs *)

KernelInv == KernelTypes /\ ModeInv /\ DisplayInv /\ FileInv

LEMMA KernelInitInv == ASSUME TableAssumption, ClockAssumption PROVE Init => KernelInv
  <1> SUFFICES ASSUME Init PROVE KernelInv
    OBVIOUS
  <1>1. KernelTypes /\ DisplayInv /\ FileInv
    BY KernelInitTypes, DisplayInit, FileInitInv DEF Init
  <1>2. ModeInv
    BY <1>1 DEF Init, ModeInv, KernelTypes, ThreadTypes, Interrupted, InUserCode
  <1> QED BY <1>1, <1>2 DEF KernelInv

LEMMA KernelStepInv ==
  ASSUME TableAssumption, ClockAssumption, KernelInv, [Next]_vars PROVE KernelInv'
  <1>1. FileInv'
    BY StepOnFiles, FileCallInv, FileStutterInv DEF KernelInv, KernelTypes, ThreadTypes
  <1>2. CASE Next
    BY <1>1, <1>2, StepTypes, StepModes, StepDisplay DEF KernelInv
  <1>3. CASE UNCHANGED vars
    <2>1. KernelTypes'
      BY <1>3 DEF KernelInv, KernelTypes, ThreadTypes, DisplayTypes, vars, kernelVars, displayVars
    <2>2. ModeInv'
      BY <1>3 DEF KernelInv, ModeInv, Interrupted, InUserCode, vars, kernelVars
    <2>3. DisplayInv'
      BY <1>3, OutsideStep DEF KernelInv, Inside, vars, kernelVars, displayVars
    <2> QED BY <1>1, <2>1, <2>2, <2>3 DEF KernelInv
  <1> QED BY <1>2, <1>3

LEMMA KernelInvariant ==
  ASSUME TableAssumption, ClockAssumption PROVE Spec => []KernelInv
  <1>1. Init => KernelInv
    BY KernelInitInv
  <1>2. KernelInv /\ [Next]_vars => KernelInv'
    BY KernelStepInv
  <1> QED BY <1>1, <1>2, PTL DEF Spec

\* ThreadInv is what holds of the threads together with the interrupts to come.
ThreadInv == KernelInv /\ PlacesInv /\ InterruptsInv

LEMMA ThreadInvariant ==
  ASSUME TableAssumption, ClockAssumption, ExecfileAssumption PROVE Spec => []ThreadInv
  <1>1. Init => ThreadInv
    BY KernelInitInv, PlacesInit, InterruptsInit DEF ThreadInv
  <1>2. ThreadInv /\ [Next]_vars => ThreadInv'
    <2> SUFFICES ASSUME ThreadInv, [Next]_vars PROVE ThreadInv'
      OBVIOUS
    <2>1. KernelInv'
      BY KernelStepInv DEF ThreadInv
    <2>2. PlacesInv'
      <3>1. UNCHANGED vars /\ PlacesInv => PlacesInv'
        BY DEF vars, kernelVars, displayVars, PlacesInv
      <3> QED BY <3>1, StepPlaces DEF ThreadInv, KernelInv
    <2>3. InterruptsInv'
      BY StepInterrupts DEF ThreadInv, KernelInv
    <2> QED BY <2>1, <2>2, <2>3 DEF ThreadInv
  <1> QED BY <1>1, <1>2, PTL DEF Spec

\* User code runs in UserMode and kernel code in SystemMode, for any ticks and
\* any delays of the timer.
THEOREM ModesAreRight ==
  ASSUME TableAssumption, ClockAssumption PROVE Spec => []ModeIsRight
  <1>1. KernelInv => ModeIsRight
    BY ModeInvIsRight DEF KernelInv, KernelTypes
  <1> QED BY <1>1, KernelInvariant, PTL

\* However many programs print numbers of whatever length, none is broken up.
THEOREM NumbersStayWhole ==
  ASSUME TableAssumption, ClockAssumption PROVE Spec => []NumbersAreWhole
  <1>1. KernelInv => NumbersAreWhole
    BY DisplayInvIsWhole DEF KernelInv
  <1> QED BY <1>1, KernelInvariant, PTL

\* The table of open files and the descriptors agree while programs are
\* interrupted, print and exit with files open.
THEOREM ProgramsDoNotLeak ==
  ASSUME TableAssumption, ClockAssumption PROVE Spec => []NoDescriptorLeak
  <1>1. KernelInv => NoDescriptorLeak
    BY DEF KernelInv, FileInv
  <1> QED BY <1>1, KernelInvariant, PTL

\* So they do when user programs that are interrupted at any tick make them.
THEOREM ProgramsSeeOpenFiles ==
  ASSUME TableAssumption, ClockAssumption PROVE Spec => ImplementsOpenFiles
  <1>1. Init => Abstract!Init
    BY FileInitRefines DEF Init
  <1>2. KernelInv /\ [Next]_vars => [Abstract!Next]_<<handle, contents>>
    <2> SUFFICES ASSUME KernelInv, [Next]_vars PROVE [Abstract!Next]_<<handle, contents>>
      OBVIOUS
    <2>1. (\E w \in Program : FileCall(w)) \/ UNCHANGED fileVars
      BY StepOnFiles DEF KernelInv, KernelTypes, ThreadTypes
    <2> QED BY <2>1, FileCallRefines, FileStutterRefines DEF KernelInv
  <1> QED BY <1>1, <1>2, KernelInvariant, PTL DEF Spec, ImplementsOpenFiles, Abstract!Spec

\* Every thread that has not finished is on the CPU, ready or asleep where
\* somebody will wake it, for any number of programs and any interrupts.
THEOREM ProgramsStayAround ==
  ASSUME TableAssumption, ClockAssumption, ExecfileAssumption PROVE Spec => []NoProgramLost
  <1>1. ThreadInv => NoProgramLost
    <2> SUFFICES ASSUME KernelInv, PlacesInv PROVE NoProgramLost
      BY DEF ThreadInv
    <2>1. /\ Distinct(readyList \o lock.queue \o waitFor.queue)
          /\ \A t : In(readyList \o lock.queue \o waitFor.queue, t) <=>
                    Among(readyList, lock.queue, waitFor.queue, t)
      BY QueueTypes, QueuesInARow DEF KernelInv, PlacesInv
    <2>2. \A t \in Program :
            In(readyList \o lock.queue \o waitFor.queue, t) <=>
              at[t] # "finished" /\ t \notin (IF phase = "idle" THEN {} ELSE {currentThread})
      BY <2>1 DEF PlacesInv
    <2> HIDE DEF PlacesInv
    <2> QED BY <2>1, <2>2 DEF NoProgramLost, Distinct, In
  <1> QED BY <1>1, ThreadInvariant, PTL

\* The list of interrupts is sorted and holds one of the timer, and one of the
\* display when a character is on its way, whatever the ticks are; no character
\* is sent to a busy display.
THEOREM InterruptsStayRight ==
  ASSUME TableAssumption, ClockAssumption, ExecfileAssumption PROVE Spec => []InterruptsAgree
  <1>1. ThreadInv => InterruptsAgree
    BY InterruptsInvAgree DEF ThreadInv, KernelInv
  <1> QED BY <1>1, ThreadInvariant, PTL

\* The types of everything the kernel of MP1 keeps here.
THEOREM UserProgramTypes ==
  ASSUME TableAssumption, ClockAssumption, ExecfileAssumption PROVE Spec => []TypeOK
  <1>1. ThreadInv => TypeOK
    <2> SUFFICES ASSUME ThreadInv PROVE TypeOK
      OBVIOUS
    <2>1. KernelTypes /\ FileTypeOK /\ InterruptsInv
      BY DEF ThreadInv, KernelInv, FileInv
    <2>2. \A n \in Ticks : /\ TimerIn(n) \in [for : {"timer", "display"}, in : Nat]
                          /\ DisplayIn(n) \in [for : {"timer", "display"}, in : Nat]
      BY DEF TimerIn, DisplayIn, Ticks
    <2>3. pending \in Seq([for : {"timer", "display"}, in : Nat])
      <3> DEFINE S == [for : {"timer", "display"}, in : Nat]
      <3>1. ASSUME NEW a \in S, NEW p, p = <<a>> PROVE p \in Seq(S)
        BY <3>1
      <3>2. ASSUME NEW a \in S, NEW b \in S, NEW p, p = <<a, b>> PROVE p \in Seq(S)
        BY <3>2
      <3>3. One(pending, Ticks) \/ Two(pending, Ticks)
        BY <2>1 DEF InterruptsInv, PendingInv
      <3> HIDE DEF S
      <3>4. CASE One(pending, Ticks)
        BY <2>2, <3>1, <3>4 DEF One, S
      <3>5. CASE Two(pending, Ticks)
        BY <2>2, <3>2, <3>5 DEF Two, S
      <3> QED BY <3>3, <3>4, <3>5 DEF S
    <2> QED BY <2>1, <2>3 DEF TypeOK, KernelTypes, ThreadTypes, DisplayTypes, InterruptsInv, Modes
  <1> QED BY <1>1, ThreadInvariant, PTL
===============================================================================
