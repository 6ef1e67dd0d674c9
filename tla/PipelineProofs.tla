----------------------------- MODULE PipelineProofs -----------------------------
(***************************************************************************)
(* Theorems about Pipeline, for any number of lines, producers, consumers  *)
(* and any lengths and thresholds: an item is in one place at a time, and  *)
(* the controller's list is right.                                         *)
(***************************************************************************)
EXTENDS Pipeline, FiniteSetTheorems, SequenceTheorems, TLAPS

(* Sequences without repetitions. *)

LEMMA AppendRange ==
  ASSUME NEW S, NEW s \in Seq(S), NEW x \in S
  PROVE  /\ Range(Append(s, x)) = Range(s) \cup {x}
         /\ IsInjective(s) /\ x \notin Range(s) => IsInjective(Append(s, x))
<1>1. /\ DOMAIN Append(s, x) = 1 .. Len(s) + 1 /\ DOMAIN s = 1 .. Len(s) /\ Len(s) \in Nat
      /\ \A i \in 1 .. Len(s) : Append(s, x)[i] = s[i]
      /\ Append(s, x)[Len(s) + 1] = x
  BY AppendProperties, LenProperties
<1>2. Range(Append(s, x)) = Range(s) \cup {x}
  BY <1>1 DEF Range
<1>3. ASSUME IsInjective(s), x \notin Range(s) PROVE IsInjective(Append(s, x))
  BY <1>1, <1>3 DEF Range, IsInjective
<1> QED
  BY <1>2, <1>3

LEMMA TailRange ==
  ASSUME NEW S, NEW s \in Seq(S), s # <<>>, IsInjective(s)
  PROVE  /\ Range(Tail(s)) = Range(s) \ {Head(s)}
         /\ IsInjective(Tail(s))
         /\ Head(s) \in Range(s)
<1>1. /\ DOMAIN Tail(s) = 1 .. Len(s) - 1 /\ DOMAIN s = 1 .. Len(s) /\ Len(s) \in Nat \ {0}
      /\ \A i \in 1 .. Len(s) - 1 : Tail(s)[i] = s[i + 1]
      /\ Head(s) = s[1]
  BY HeadTailProperties, LenProperties, EmptySeq
<1>2. \A i, j \in 1 .. Len(s) : s[i] = s[j] => i = j
  BY <1>1 DEF IsInjective
<1>3. IsInjective(Tail(s))
  BY <1>1, <1>2 DEF IsInjective
<1>4. Range(Tail(s)) \subseteq Range(s) \ {Head(s)}
  BY <1>1, <1>2 DEF Range
<1>5. ASSUME NEW i \in 1 .. Len(s), s[i] # s[1] PROVE s[i] \in Range(Tail(s))
  <2>1. i - 1 \in 1 .. Len(s) - 1 /\ Tail(s)[i - 1] = s[i]
    BY <1>1, <1>5
  <2> QED
    BY <1>1, <2>1 DEF Range
<1>6. Range(s) \ {Head(s)} \subseteq Range(Tail(s))
  BY <1>1, <1>5 DEF Range
<1> QED
  BY <1>1, <1>3, <1>4, <1>6 DEF Range

LEMMA FrontRange ==
  ASSUME NEW S, NEW s \in Seq(S), s # <<>>, IsInjective(s)
  PROVE  /\ Front(s) \in Seq(S) /\ Len(Front(s)) = Len(s) - 1
         /\ Range(Front(s)) = Range(s) \ {Last(s)}
         /\ IsInjective(Front(s))
         /\ Last(s) \in Range(s)
<1>1. DOMAIN s = 1 .. Len(s) /\ Len(s) \in Nat \ {0} /\ \A i \in 1 .. Len(s) : s[i] \in S
  BY LenProperties, EmptySeq, ElementOfSeq
<1>2. /\ Front(s) \in Seq(S) /\ Len(Front(s)) = Len(s) - 1
      /\ \A i \in 1 .. Len(s) - 1 : Front(s)[i] = s[i]
  BY <1>1, SubSeqProperties DEF Front
<1>3. DOMAIN Front(s) = 1 .. Len(s) - 1
  BY <1>2, LenProperties
<1>4. \A i, j \in 1 .. Len(s) : s[i] = s[j] => i = j
  BY <1>1 DEF IsInjective
<1>5. IsInjective(Front(s))
  BY <1>1, <1>2, <1>3, <1>4 DEF IsInjective
<1>6. Range(Front(s)) = Range(s) \ {Last(s)}
  BY <1>1, <1>2, <1>3, <1>4 DEF Range, Last
<1>7. Last(s) = s[Len(s)] /\ Len(s) \in 1 .. Len(s)
  BY <1>1 DEF Last
<1> QED
  BY <1>1, <1>2, <1>5, <1>6, <1>7 DEF Range

LEMMA ConcatRange ==
  ASSUME NEW S, NEW s \in Seq(S), NEW t \in Seq(S)
  PROVE  /\ s \o t \in Seq(S)
         /\ Range(s \o t) = Range(s) \cup Range(t)
         /\ IsInjective(s) /\ IsInjective(t) /\ Range(s) \cap Range(t) = {}
              => IsInjective(s \o t)
<1>1. /\ s \o t \in Seq(S)
      /\ DOMAIN (s \o t) = 1 .. Len(s) + Len(t)
      /\ DOMAIN s = 1 .. Len(s) /\ Len(s) \in Nat
      /\ DOMAIN t = 1 .. Len(t) /\ Len(t) \in Nat
      /\ \A i \in 1 .. Len(s) + Len(t) :
           (s \o t)[i] = IF i <= Len(s) THEN s[i] ELSE t[i - Len(s)]
  BY ConcatProperties, LenProperties
<1>2. ASSUME IsInjective(s), IsInjective(t), Range(s) \cap Range(t) = {}
      PROVE  IsInjective(s \o t)
  <2> SUFFICES ASSUME NEW i \in 1 .. Len(s) + Len(t), NEW j \in 1 .. Len(s) + Len(t),
                      (s \o t)[i] = (s \o t)[j]
               PROVE  i = j
    BY <1>1 DEF IsInjective
  <2>1. CASE i <= Len(s) /\ j <= Len(s)
    BY <1>1, <1>2, <2>1 DEF IsInjective
  <2>2. CASE i > Len(s) /\ j > Len(s)
    BY <1>1, <1>2, <2>2 DEF IsInjective
  <2>0. ASSUME NEW k \in 1 .. Len(s), NEW l \in 1 .. Len(t) PROVE s[k] # t[l]
    <3>1. s[k] \in Range(s) /\ t[l] \in Range(t)
      BY <1>1 DEF Range
    <3> QED
      BY <1>2, <3>1
  <2>3. CASE i <= Len(s) /\ j > Len(s)
    <3>1. i \in 1 .. Len(s) /\ j - Len(s) \in 1 .. Len(t)
      BY <1>1, <2>3
    <3> QED
      BY <1>1, <2>0, <2>3, <3>1
  <2>4. CASE i > Len(s) /\ j <= Len(s)
    <3>1. j \in 1 .. Len(s) /\ i - Len(s) \in 1 .. Len(t)
      BY <1>1, <2>4
    <3> QED
      BY <1>1, <2>0, <2>4, <3>1
  <2> QED
    BY <1>1, <2>1, <2>2, <2>3, <2>4
<1> QED
  BY <1>1, <1>2, RangeConcatenation

LEMMA EmptyRange == Range(<<>>) = {} /\ IsInjective(<<>>)
BY DEF Range, IsInjective

-------------------------------------------------------------------------------
(* Items in hand. *)

OneHand(f) == \A x, y \in DOMAIN f : f[x] # NoItem /\ f[x] = f[y] => x = y

LEMMA Take ==
  ASSUME NEW D, NEW f \in [D -> Item \cup {NoItem}], NEW x \in D, f[x] = NoItem,
         NEW i \in Item, i \notin Held(f), NEW g, g = [f EXCEPT ![x] = i]
  PROVE  /\ g \in [D -> Item \cup {NoItem}]
         /\ OneHand(f) => OneHand(g)
<1>1. i # NoItem
  BY SizeAssumption DEF Item
<1>2. /\ g \in [D -> Item \cup {NoItem}] /\ DOMAIN g = D /\ DOMAIN f = D
      /\ g[x] = i /\ \A y \in D \ {x} : g[y] = f[y]
  OBVIOUS
<1>3. \A y \in D : f[y] # i
  BY <1>1, <1>2 DEF Held
<1> QED
  BY <1>2, <1>3 DEF OneHand

LEMMA Give ==
  ASSUME NEW D, NEW f \in [D -> Item \cup {NoItem}], NEW x \in D, f[x] # NoItem,
         OneHand(f), NEW g, g = [f EXCEPT ![x] = NoItem]
  PROVE  g \in [D -> Item \cup {NoItem}] /\ OneHand(g)
<1>1. /\ g \in [D -> Item \cup {NoItem}] /\ DOMAIN g = D /\ DOMAIN f = D
      /\ g[x] = NoItem /\ \A y \in D \ {x} : g[y] = f[y]
  OBVIOUS
<1> QED
  BY <1>1 DEF OneHand

-------------------------------------------------------------------------------
(* The places of the items, from the input file to the output file. *)

\* No item is in two of the places, and each is in one.
Partition(A, B, C, D, E, F, G) ==
  /\ A \cup B \cup C \cup D \cup E \cup F \cup G = Item
  /\ A \cap (B \cup C \cup D \cup E \cup F \cup G) = {}
  /\ B \cap (C \cup D \cup E \cup F \cup G) = {}
  /\ C \cap (D \cup E \cup F \cup G) = {}
  /\ D \cap (E \cup F \cup G) = {}
  /\ E \cap (F \cup G) = {}
  /\ F \cap G = {}

PlaceInv ==
  Partition(Range(unread), Range(readerQueue), Held(produced), Range(workerQueue),
            Held(consumed), Range(writerQueue), Range(written))

OnceInv ==
  /\ IsInjective(unread) /\ IsInjective(readerQueue) /\ IsInjective(workerQueue)
  /\ IsInjective(writerQueue) /\ IsInjective(written)
  /\ OneHand(produced) /\ OneHand(consumed)

StageInv ==
  /\ \A i \in Range(unread) \cup Range(readerQueue) : stage[i] = "raw"
  /\ \A i \in Held(produced) \cup Range(workerQueue) : stage[i] = "produced"
  /\ \A i \in Held(consumed) \cup Range(writerQueue) \cup Range(written) :
       stage[i] = "consumed"

\* A consumer has an item in hand exactly between its dequeue and its enqueue.
HandInv == \A c \in Consumer : consumer[c] = "enqueue" <=> consumed[c] # NoItem

ItemsInv == TypeOK /\ PlaceInv /\ OnceInv /\ StageInv /\ HandInv

\* The first consumer is never taken off the list.
FirstStays == consumers = <<>> => \A c \in Consumer : consumer[c] = "none"

ListInv == ListsRunningConsumers /\ FirstStays

LEMMA OneStep ==
  ASSUME NEW A, NEW B, NEW C, NEW D, NEW E, NEW F, NEW G, NEW i,
         Partition(A, B, C, D, E, F, G)
  PROVE  /\ i \in A => Partition(A \ {i}, B \cup {i}, C, D, E, F, G)
         /\ i \in B => Partition(A, B \ {i}, C \cup {i}, D, E, F, G)
         /\ i \in C => Partition(A, B, C \ {i}, D \cup {i}, E, F, G)
         /\ i \in D => Partition(A, B, C, D \ {i}, E \cup {i}, F, G)
         /\ i \in E => Partition(A, B, C, D, E \ {i}, F \cup {i}, G)
         /\ i \in F => Partition(A, B, C, D, E, F \ {i}, G \cup {i})
BY DEF Partition

LEMMA ItemsInit == Init => ItemsInv
<1> SUFFICES ASSUME Init PROVE ItemsInv
  OBVIOUS
<1>1. n \in Nat /\ Item = 1 .. n /\ WorkerQueueSize \in Nat
  BY SizeAssumption DEF Item
<1>2. unread \in Seq(Item) /\ DOMAIN unread = Item /\ \A i \in Item : unread[i] = i
  <2>1. [i \in 1 .. n |-> i] \in Seq(Item)
    BY <1>1, SeqDef
  <2> QED
    BY <1>1, <2>1 DEF Init
<1>3. Range(unread) = Item /\ IsInjective(unread)
  BY <1>2 DEF Range, IsInjective
<1>4. TypeOK
  BY <1>1, <1>2, EmptySeq, SizeAssumption DEF Init, TypeOK, Stage
<1>5. Held(produced) = {} /\ Held(consumed) = {} /\ OneHand(produced) /\ OneHand(consumed)
  BY DEF Init, Held, OneHand
<1>6. PlaceInv
  BY <1>3, <1>5, EmptyRange DEF PlaceInv, Partition, Init
<1>7. OnceInv
  BY <1>3, <1>5, EmptyRange DEF OnceInv, Init
<1>8. StageInv
  BY <1>3, <1>5, EmptyRange DEF StageInv, Init
<1>9. HandInv
  BY DEF HandInv, Init
<1> QED
  BY <1>4, <1>6, <1>7, <1>8, <1>9 DEF ItemsInv

\* What the head of a queue and its two ends are.
LEMMA Dequeued ==
  ASSUME NEW s \in Seq(Item), s # <<>>
  PROVE  Head(s) \in Item /\ Tail(s) \in Seq(Item) /\ Len(Tail(s)) = Len(s) - 1
         /\ Len(s) \in Nat \ {0}
BY HeadTailProperties, LenProperties, EmptySeq

LEMMA Enqueued ==
  ASSUME NEW s \in Seq(Item), NEW i \in Item
  PROVE  Append(s, i) \in Seq(Item) /\ Len(Append(s, i)) = Len(s) + 1 /\ Len(s) \in Nat
BY AppendProperties, LenProperties

LEMMA DequeueFits ==
  ASSUME NEW s \in Seq(Item), s # <<>>, NEW size, size \in Nat, Len(s) <= size
  PROVE  Tail(s) \in Seq(Item) /\ Len(Tail(s)) <= size
<1>1. Tail(s) \in Seq(Item) /\ Len(Tail(s)) = Len(s) - 1 /\ Len(s) \in Nat \ {0}
  BY Dequeued
<1> QED
  BY <1>1

LEMMA EnqueueFits ==
  ASSUME NEW s \in Seq(Item), NEW i \in Item, NEW size, size \in Nat, Len(s) < size
  PROVE  Append(s, i) \in Seq(Item) /\ Len(Append(s, i)) <= size
<1>1. Append(s, i) \in Seq(Item) /\ Len(Append(s, i)) = Len(s) + 1 /\ Len(s) \in Nat
  BY Enqueued
<1> QED
  BY <1>1

LEMMA ReadKeeps == ItemsInv /\ Read => ItemsInv'
<1> SUFFICES ASSUME ItemsInv, Read PROVE ItemsInv'
  OBVIOUS
<1> DEFINE i == Head(unread)
<1>1. unread \in Seq(Item) /\ unread # <<>> /\ readerQueue \in Seq(Item) /\ i \in Item
  BY Dequeued DEF ItemsInv, TypeOK, Read
<1>2. /\ Range(unread') = Range(unread) \ {i} /\ i \in Range(unread)
      /\ IsInjective(unread')
  BY <1>1, TailRange DEF ItemsInv, OnceInv, Read
<1>3. i \notin Range(readerQueue)
  BY <1>2 DEF ItemsInv, PlaceInv, Partition
<1>4. Range(readerQueue') = Range(readerQueue) \cup {i} /\ IsInjective(readerQueue')
  BY <1>1, <1>3, AppendRange DEF ItemsInv, OnceInv, Read
<1>5. TypeOK'
  <2>1. unread' \in Seq(Item) /\ readerQueue' \in Seq(Item) /\ Len(readerQueue') <= ReaderQueueSize
    BY <1>1, SizeAssumption, Dequeued, EnqueueFits DEF ItemsInv, TypeOK, Read
  <2> HIDE DEF i
  <2> QED
    BY <2>1 DEF ItemsInv, TypeOK, Read, consumerVars
<1> HIDE DEF i
<1>6. PlaceInv'
  <2>1. Partition(Range(unread) \ {i}, Range(readerQueue) \cup {i}, Held(produced),
                  Range(workerQueue), Held(consumed),
                  Range(writerQueue), Range(written))
    BY <1>2, OneStep DEF ItemsInv, PlaceInv
  <2> QED
    BY <1>2, <1>4, <2>1 DEF PlaceInv, Read, consumerVars
<1>7. OnceInv'
  BY <1>2, <1>4 DEF ItemsInv, OnceInv, Read, consumerVars
<1>8. StageInv'
  BY <1>2, <1>4 DEF ItemsInv, StageInv, Read, consumerVars
<1>9. HandInv'
  BY DEF ItemsInv, HandInv, Read, consumerVars
<1> QED
  BY <1>5, <1>6, <1>7, <1>8, <1>9 DEF ItemsInv

LEMMA ProduceKeeps ==
  ASSUME NEW p \in Producer, ItemsInv, Produce(p)
  PROVE  ItemsInv'
<1> DEFINE i == Head(readerQueue)
<1>1. /\ readerQueue \in Seq(Item) /\ readerQueue # <<>> /\ i \in Item
      /\ produced \in [Producer -> Item \cup {NoItem}] /\ produced[p] = NoItem
  BY Dequeued DEF ItemsInv, TypeOK, Produce
<1>2. /\ Range(readerQueue') = Range(readerQueue) \ {i} /\ i \in Range(readerQueue)
      /\ IsInjective(readerQueue')
  BY <1>1, TailRange DEF ItemsInv, OnceInv, Produce
<1>3. i \notin Held(produced)
  BY <1>2 DEF ItemsInv, PlaceInv, Partition
<1>4. /\ produced' \in [Producer -> Item \cup {NoItem}]
      /\ Held(produced') = Held(produced) \cup {i} /\ OneHand(produced')
  <2>1. produced' = [produced EXCEPT ![p] = i] /\ OneHand(produced)
    BY DEF ItemsInv, OnceInv, Produce
  <2> HIDE DEF i
  <2>2. i # NoItem
    BY <1>1, SizeAssumption DEF Item
  <2>3. Held(produced') = Held(produced) \cup {i}
    BY <1>1, <1>3, <2>1, <2>2 DEF Held
  <2> QED
    BY <1>1, <1>3, <2>1, <2>3, Take
<1>5. TypeOK'
  <2>1. readerQueue' \in Seq(Item) /\ Len(readerQueue') <= ReaderQueueSize
    BY <1>1, SizeAssumption, DequeueFits DEF ItemsInv, TypeOK, Produce
  <2>2. stage' \in [Item -> Stage]
    BY DEF ItemsInv, TypeOK, Produce, Stage
  <2> HIDE DEF i
  <2> QED
    BY <1>4, <2>1, <2>2 DEF ItemsInv, TypeOK, Produce, consumerVars
<1>6. stage[i] = "raw"
  BY <1>2 DEF ItemsInv, StageInv
<1>7. stage' = [stage EXCEPT ![i] = "produced"] /\ stage \in [Item -> Stage]
  BY <1>6 DEF Produce, ItemsInv, TypeOK
<1> HIDE DEF i
<1>8. PlaceInv'
  <2>1. Partition(Range(unread), Range(readerQueue) \ {i}, Held(produced) \cup {i},
                  Range(workerQueue), Held(consumed),
                  Range(writerQueue), Range(written))
    BY <1>2, OneStep DEF ItemsInv, PlaceInv
  <2> QED
    BY <1>2, <1>4, <2>1 DEF PlaceInv, Produce, consumerVars
<1>9. OnceInv'
  BY <1>2, <1>4 DEF ItemsInv, OnceInv, Produce, consumerVars
<1>10. StageInv'
  <2>1. \A j \in Item \ {i} : stage'[j] = stage[j]
    BY <1>7
  <2>2. stage'[i] = "produced"
    BY <1>1, <1>7
  <2>3. PlaceInv /\ PlaceInv' /\ StageInv
    BY <1>8 DEF ItemsInv
  <2>4. UNCHANGED <<unread, consumed, workerQueue, writerQueue, written>>
    BY DEF Produce, consumerVars
  <2> QED
    BY <1>2, <1>4, <2>1, <2>2, <2>3, <2>4 DEF StageInv, PlaceInv, Partition
<1>11. HandInv'
  BY DEF ItemsInv, HandInv, Produce, consumerVars
<1> QED
  BY <1>5, <1>8, <1>9, <1>10, <1>11 DEF ItemsInv

LEMMA DeliverKeeps ==
  ASSUME NEW p \in Producer, ItemsInv, Deliver(p)
  PROVE  ItemsInv'
<1> DEFINE i == produced[p]
<1>1. /\ workerQueue \in Seq(Item) /\ i \in Item /\ i # NoItem
      /\ produced \in [Producer -> Item \cup {NoItem}]
  BY DEF ItemsInv, TypeOK, Deliver
<1>2. /\ produced' \in [Producer -> Item \cup {NoItem}]
      /\ Held(produced') = Held(produced) \ {i} /\ OneHand(produced')
      /\ i \in Held(produced)
  <2>1. produced' = [produced EXCEPT ![p] = NoItem] /\ OneHand(produced)
    BY DEF ItemsInv, OnceInv, Deliver
  <2>2. Held(produced') = Held(produced) \ {i} /\ i \in Held(produced)
    BY <1>1, <2>1 DEF Held, OneHand
  <2>3. produced' \in [Producer -> Item \cup {NoItem}] /\ OneHand(produced')
    BY <1>1, <2>1, Give
  <2> QED
    BY <2>2, <2>3
<1>3. i \notin Range(workerQueue)
  BY <1>2 DEF ItemsInv, PlaceInv, Partition
<1>4. Range(workerQueue') = Range(workerQueue) \cup {i} /\ IsInjective(workerQueue')
  BY <1>1, <1>3, AppendRange DEF ItemsInv, OnceInv, Deliver
<1>5. TypeOK'
  <2>1. workerQueue' \in Seq(Item) /\ Len(workerQueue') <= WorkerQueueSize
    BY <1>1, SizeAssumption, EnqueueFits DEF ItemsInv, TypeOK, Deliver
  <2> HIDE DEF i
  <2> QED
    BY <1>2, <2>1 DEF ItemsInv, TypeOK, Deliver, consumerVars
<1> HIDE DEF i
<1>6. PlaceInv'
  <2>1. Partition(Range(unread), Range(readerQueue), Held(produced) \ {i},
                  Range(workerQueue) \cup {i}, Held(consumed),
                  Range(writerQueue), Range(written))
    BY <1>2, OneStep DEF ItemsInv, PlaceInv
  <2> QED
    BY <1>2, <1>4, <2>1 DEF PlaceInv, Deliver, consumerVars
<1>7. OnceInv'
  BY <1>2, <1>4 DEF ItemsInv, OnceInv, Deliver, consumerVars
<1>8. StageInv'
  BY <1>2, <1>4 DEF ItemsInv, StageInv, Deliver, consumerVars
<1>9. HandInv'
  BY DEF ItemsInv, HandInv, Deliver, consumerVars
<1> QED
  BY <1>5, <1>6, <1>7, <1>8, <1>9 DEF ItemsInv

LEMMA ConsumeKeeps ==
  ASSUME NEW c \in Consumer, ItemsInv, Consume(c)
  PROVE  ItemsInv'
<1> DEFINE i == Head(workerQueue)
<1>0. /\ consumed \in [Consumer -> Item \cup {NoItem}] /\ consumed[c] = NoItem
      /\ consumer \in [Consumer -> {"none", "test", "dequeue", "enqueue"}]
  BY DEF ItemsInv, TypeOK, HandInv, Consume
<1>1. workerQueue \in Seq(Item) /\ workerQueue # <<>> /\ i \in Item
  BY Dequeued DEF ItemsInv, TypeOK, Consume
<1>2. /\ Range(workerQueue') = Range(workerQueue) \ {i} /\ i \in Range(workerQueue)
      /\ IsInjective(workerQueue')
  BY <1>1, TailRange DEF ItemsInv, OnceInv, Consume
<1>3. i \notin Held(consumed)
  BY <1>2 DEF ItemsInv, PlaceInv, Partition
<1>4. /\ consumed' \in [Consumer -> Item \cup {NoItem}]
      /\ Held(consumed') = Held(consumed) \cup {i} /\ OneHand(consumed')
  <2>1. consumed' = [consumed EXCEPT ![c] = i] /\ OneHand(consumed)
    BY DEF ItemsInv, OnceInv, Consume
  <2> HIDE DEF i
  <2>2. i # NoItem
    BY <1>1, SizeAssumption DEF Item
  <2>3. Held(consumed') = Held(consumed) \cup {i}
    BY <1>0, <1>1, <1>3, <2>1, <2>2 DEF Held
  <2> QED
    BY <1>0, <1>1, <1>3, <2>1, <2>3, Take
<1>5. TypeOK'
  <2>1. workerQueue' \in Seq(Item) /\ Len(workerQueue') <= WorkerQueueSize
    BY <1>1, SizeAssumption, DequeueFits DEF ItemsInv, TypeOK, Consume
  <2>2. stage' \in [Item -> Stage]
    BY DEF ItemsInv, TypeOK, Consume, Stage
  <2> HIDE DEF i
  <2> QED
    BY <1>0, <1>4, <2>1, <2>2 DEF ItemsInv, TypeOK, Consume
<1>6. stage[i] = "produced"
  BY <1>2 DEF ItemsInv, StageInv
<1>7. stage' = [stage EXCEPT ![i] = "consumed"] /\ stage \in [Item -> Stage]
  BY <1>6 DEF Consume, ItemsInv, TypeOK
<1>8. HandInv'
  BY <1>0, <1>1, SizeAssumption DEF ItemsInv, HandInv, Consume, Item
<1> HIDE DEF i
<1>9. PlaceInv'
  <2>1. Partition(Range(unread), Range(readerQueue), Held(produced),
                  Range(workerQueue) \ {i}, Held(consumed) \cup {i},
                  Range(writerQueue), Range(written))
    BY <1>2, OneStep DEF ItemsInv, PlaceInv
  <2> QED
    BY <1>2, <1>4, <2>1 DEF PlaceInv, Consume
<1>10. OnceInv'
  BY <1>2, <1>4 DEF ItemsInv, OnceInv, Consume
<1>11. StageInv'
  <2>1. \A j \in Item \ {i} : stage'[j] = stage[j]
    BY <1>7
  <2>2. stage'[i] = "consumed"
    BY <1>1, <1>7
  <2>3. PlaceInv /\ PlaceInv' /\ StageInv
    BY <1>9 DEF ItemsInv
  <2>4. UNCHANGED <<unread, readerQueue, produced, writerQueue, written>>
    BY DEF Consume
  <2> QED
    BY <1>2, <1>4, <2>1, <2>2, <2>3, <2>4 DEF StageInv, PlaceInv, Partition
<1> QED
  BY <1>5, <1>8, <1>9, <1>10, <1>11 DEF ItemsInv

LEMMA OutputKeeps ==
  ASSUME NEW c \in Consumer, ItemsInv, Output(c)
  PROVE  ItemsInv'
<1> DEFINE i == consumed[c]
<1>1. /\ writerQueue \in Seq(Item) /\ i \in Item /\ i # NoItem
      /\ consumed \in [Consumer -> Item \cup {NoItem}]
      /\ consumer \in [Consumer -> {"none", "test", "dequeue", "enqueue"}]
  BY DEF ItemsInv, TypeOK, HandInv, Output
<1>2. /\ consumed' \in [Consumer -> Item \cup {NoItem}]
      /\ Held(consumed') = Held(consumed) \ {i} /\ OneHand(consumed')
      /\ i \in Held(consumed)
  <2>1. consumed' = [consumed EXCEPT ![c] = NoItem] /\ OneHand(consumed)
    BY DEF ItemsInv, OnceInv, Output
  <2>2. Held(consumed') = Held(consumed) \ {i} /\ i \in Held(consumed)
    BY <1>1, <2>1 DEF Held, OneHand
  <2>3. consumed' \in [Consumer -> Item \cup {NoItem}] /\ OneHand(consumed')
    BY <1>1, <2>1, Give
  <2> QED
    BY <2>2, <2>3
<1>3. i \notin Range(writerQueue)
  BY <1>2 DEF ItemsInv, PlaceInv, Partition
<1>4. Range(writerQueue') = Range(writerQueue) \cup {i} /\ IsInjective(writerQueue')
  BY <1>1, <1>3, AppendRange DEF ItemsInv, OnceInv, Output
<1>5. TypeOK'
  <2>1. writerQueue' \in Seq(Item) /\ Len(writerQueue') <= WriterQueueSize
    BY <1>1, SizeAssumption, EnqueueFits DEF ItemsInv, TypeOK, Output
  <2> HIDE DEF i
  <2> QED
    BY <1>1, <1>2, <2>1 DEF ItemsInv, TypeOK, Output
<1>6. HandInv'
  BY <1>1 DEF ItemsInv, HandInv, Output
<1> HIDE DEF i
<1>7. PlaceInv'
  <2>1. Partition(Range(unread), Range(readerQueue), Held(produced),
                  Range(workerQueue), Held(consumed) \ {i},
                  Range(writerQueue) \cup {i}, Range(written))
    BY <1>2, OneStep DEF ItemsInv, PlaceInv
  <2> QED
    BY <1>2, <1>4, <2>1 DEF PlaceInv, Output
<1>8. OnceInv'
  BY <1>2, <1>4 DEF ItemsInv, OnceInv, Output
<1>9. StageInv'
  BY <1>2, <1>4 DEF ItemsInv, StageInv, Output
<1> QED
  BY <1>5, <1>6, <1>7, <1>8, <1>9 DEF ItemsInv

LEMMA WriteKeeps == ItemsInv /\ Write => ItemsInv'
<1> SUFFICES ASSUME ItemsInv, Write PROVE ItemsInv'
  OBVIOUS
<1> DEFINE i == Head(writerQueue)
<1>1. writerQueue \in Seq(Item) /\ writerQueue # <<>> /\ written \in Seq(Item) /\ i \in Item
  BY Dequeued DEF ItemsInv, TypeOK, Write
<1>2. /\ Range(writerQueue') = Range(writerQueue) \ {i} /\ i \in Range(writerQueue)
      /\ IsInjective(writerQueue')
  BY <1>1, TailRange DEF ItemsInv, OnceInv, Write
<1>3. i \notin Range(written)
  BY <1>2 DEF ItemsInv, PlaceInv, Partition
<1>4. Range(written') = Range(written) \cup {i} /\ IsInjective(written')
  BY <1>1, <1>3, AppendRange DEF ItemsInv, OnceInv, Write
<1>5. TypeOK'
  <2>1. written' \in Seq(Item) /\ writerQueue' \in Seq(Item) /\ Len(writerQueue') <= WriterQueueSize
    BY <1>1, SizeAssumption, DequeueFits, Enqueued DEF ItemsInv, TypeOK, Write
  <2> HIDE DEF i
  <2> QED
    BY <2>1 DEF ItemsInv, TypeOK, Write, consumerVars
<1> HIDE DEF i
<1>6. PlaceInv'
  <2>1. Partition(Range(unread), Range(readerQueue), Held(produced),
                  Range(workerQueue), Held(consumed),
                  Range(writerQueue) \ {i}, Range(written) \cup {i})
    BY <1>2, OneStep DEF ItemsInv, PlaceInv
  <2> QED
    BY <1>2, <1>4, <2>1 DEF PlaceInv, Write, consumerVars
<1>7. OnceInv'
  BY <1>2, <1>4 DEF ItemsInv, OnceInv, Write, consumerVars
<1>8. StageInv'
  BY <1>2, <1>4 DEF ItemsInv, StageInv, Write, consumerVars
<1>9. HandInv'
  BY DEF ItemsInv, HandInv, Write, consumerVars
<1> QED
  BY <1>5, <1>6, <1>7, <1>8, <1>9 DEF ItemsInv

LEMMA ItemsUnmoved ==
  ASSUME ItemsInv,
         UNCHANGED <<stage, unread, queueVars, produced, consumed, written>>
  PROVE  PlaceInv' /\ OnceInv' /\ StageInv'
BY DEF ItemsInv, PlaceInv, OnceInv, StageInv, queueVars

LEMMA ItemsNext == ItemsInv /\ [Next]_vars => ItemsInv'
<1> SUFFICES ASSUME ItemsInv, [Next]_vars PROVE ItemsInv'
  OBVIOUS
<1>0. /\ consumer \in [Consumer -> {"none", "test", "dequeue", "enqueue"}]
      /\ consumers \in Seq(Consumer) /\ workerQueue \in Seq(Item)
      /\ Len(workerQueue) \in 0 .. WorkerQueueSize /\ HandInv
  <2>1. workerQueue \in Seq(Item) /\ Len(workerQueue) <= WorkerQueueSize
    BY DEF ItemsInv, TypeOK
  <2> QED
    BY <2>1, LenProperties, SizeAssumption DEF ItemsInv, TypeOK
<1>1. ASSUME NEW c \in Consumer, TestCancel(c) PROVE ItemsInv'
  <2>1. TypeOK'
    BY <1>0, <1>1 DEF ItemsInv, TypeOK, TestCancel, queueVars
  <2>2. HandInv'
    BY <1>0, <1>1 DEF HandInv, TestCancel
  <2>3. UNCHANGED <<stage, unread, queueVars, produced, consumed, written>>
    BY <1>1 DEF TestCancel
  <2> QED
    BY <2>1, <2>2, <2>3, ItemsUnmoved DEF ItemsInv
<1>2. CASE Check
  <2>1. TypeOK'
    BY <1>0, <1>2 DEF ItemsInv, TypeOK, Check, queueVars, consumerVars
  <2>2. HandInv'
    BY <1>0, <1>2 DEF HandInv, Check, consumerVars
  <2>3. UNCHANGED <<stage, unread, queueVars, produced, consumed, written>>
    BY <1>2 DEF Check, consumerVars
  <2> QED
    BY <2>1, <2>2, <2>3, ItemsUnmoved DEF ItemsInv
<1>3. ASSUME NEW c \in Consumer, ScaleUp(c) PROVE ItemsInv'
  <2>1. consumers' \in Seq(Consumer)
    BY <1>0, <1>3, AppendProperties DEF ScaleUp
  <2>2. TypeOK'
    BY <1>0, <1>3, <2>1 DEF ItemsInv, TypeOK, ScaleUp, queueVars
  <2>3. HandInv'
    BY <1>0, <1>3 DEF HandInv, ScaleUp
  <2>4. UNCHANGED <<stage, unread, queueVars, produced, consumed, written>>
    BY <1>3 DEF ScaleUp
  <2> QED
    BY <2>2, <2>3, <2>4, ItemsUnmoved DEF ItemsInv
<1>4. CASE ScaleDown
  <2>1. Len(consumers) > 1 /\ consumers' = Front(consumers)
    BY <1>4 DEF ScaleDown
  <2>2. consumers' \in Seq(Consumer)
    BY <1>0, <2>1, SubSeqProperties, LenProperties DEF Front
  <2>3. TypeOK'
    BY <1>0, <1>4, <2>2 DEF ItemsInv, TypeOK, ScaleDown, queueVars
  <2>4. HandInv'
    BY <1>0, <1>4 DEF HandInv, ScaleDown
  <2>5. UNCHANGED <<stage, unread, queueVars, produced, consumed, written>>
    BY <1>4 DEF ScaleDown
  <2> QED
    BY <2>3, <2>4, <2>5, ItemsUnmoved DEF ItemsInv
<1>5. CASE Keep
  <2>1. TypeOK'
    BY <1>0, <1>5 DEF ItemsInv, TypeOK, Keep, queueVars, consumerVars
  <2>2. HandInv'
    BY <1>0, <1>5 DEF HandInv, Keep, consumerVars
  <2>3. UNCHANGED <<stage, unread, queueVars, produced, consumed, written>>
    BY <1>5 DEF Keep, consumerVars
  <2> QED
    BY <2>1, <2>2, <2>3, ItemsUnmoved DEF ItemsInv
<1>6. CASE Join
  <2>1. TypeOK'
    BY <1>0, <1>6 DEF ItemsInv, TypeOK, Join, queueVars, consumerVars
  <2>2. HandInv'
    BY <1>0, <1>6 DEF HandInv, Join, consumerVars
  <2>3. UNCHANGED <<stage, unread, queueVars, produced, consumed, written>>
    BY <1>6 DEF Join, consumerVars
  <2> QED
    BY <2>1, <2>2, <2>3, ItemsUnmoved DEF ItemsInv
<1>7. CASE UNCHANGED vars
  <2>1. TypeOK' /\ HandInv'
    BY <1>7 DEF ItemsInv, TypeOK, HandInv, vars, queueVars, consumerVars
  <2> QED
    BY <1>7, <2>1, ItemsUnmoved DEF ItemsInv, vars, consumerVars
<1> QED
  BY <1>1, <1>2, <1>3, <1>4, <1>5, <1>6, <1>7, ReadKeeps, ProduceKeeps, DeliverKeeps,
     ConsumeKeeps, OutputKeeps, WriteKeeps
  DEF Next, Control, Work, Exited

LEMMA ItemsAlways == Spec => []ItemsInv
<1> QED
  BY ItemsInit, ItemsNext, PTL DEF Spec

(* The type invariant of Pipeline. *)
THEOREM TypesHold == Spec => []TypeOK
<1>1. ItemsInv => TypeOK
  BY DEF ItemsInv
<1> QED
  BY <1>1, ItemsAlways, PTL

-------------------------------------------------------------------------------
(***************************************************************************)
(* Every item is in one place, as far transformed as that place says, for  *)
(* any number of items, producers and consumers: the dequeue, transform    *)
(* and enqueue of Producer::process and Consumer::process lose and repeat  *)
(* nothing, whomever the controller cancels meanwhile.                     *)
(***************************************************************************)
THEOREM ItemsStayOnceInTheirStage == Spec => []EachItemOnceInItsStage
<1>1. ASSUME ItemsInv PROVE EachItemOnceInItsStage
  <2>1. /\ unread \in Seq(Item) /\ readerQueue \in Seq(Item) /\ workerQueue \in Seq(Item)
        /\ writerQueue \in Seq(Item) /\ written \in Seq(Item)
    BY <1>1 DEF ItemsInv, TypeOK
  <2> DEFINE two == unread \o readerQueue
             three == two \o workerQueue
             four == three \o writerQueue
             line == four \o written
  <2>2. PlaceInv /\ OnceInv /\ StageInv
    BY <1>1 DEF ItemsInv
  <2>3. /\ Range(unread) \cap Range(readerQueue) = {}
        /\ (Range(unread) \cup Range(readerQueue)) \cap Range(workerQueue) = {}
        /\ (Range(unread) \cup Range(readerQueue) \cup Range(workerQueue))
             \cap Range(writerQueue) = {}
        /\ (Range(unread) \cup Range(readerQueue) \cup Range(workerQueue)
              \cup Range(writerQueue)) \cap Range(written) = {}
    BY <2>2 DEF PlaceInv, Partition
  <2>4. /\ two \in Seq(Item) /\ IsInjective(two)
        /\ Range(two) = Range(unread) \cup Range(readerQueue)
    BY <2>1, <2>2, <2>3, ConcatRange DEF OnceInv
  <2>5. /\ three \in Seq(Item) /\ IsInjective(three)
        /\ Range(three) = Range(two) \cup Range(workerQueue)
    <3> HIDE DEF two
    <3> QED
      BY <2>1, <2>2, <2>3, <2>4, ConcatRange DEF OnceInv
  <2>6. /\ four \in Seq(Item) /\ IsInjective(four)
        /\ Range(four) = Range(three) \cup Range(writerQueue)
    <3> HIDE DEF three
    <3> QED
      BY <2>1, <2>2, <2>3, <2>4, <2>5, ConcatRange DEF OnceInv
  <2>7. IsInjective(line) /\ Range(line) = Range(four) \cup Range(written)
    <3> HIDE DEF four
    <3> QED
      BY <2>1, <2>2, <2>3, <2>4, <2>5, <2>6, ConcatRange DEF OnceInv
  <2>8. Range(writerQueue \o written) = Range(writerQueue) \cup Range(written)
    BY <2>1, ConcatRange
  <2>9. line = unread \o readerQueue \o workerQueue \o writerQueue \o written
    OBVIOUS
  <2>10. \A f \in {produced, consumed} : \A x, y \in DOMAIN f :
           f[x] # NoItem /\ f[x] = f[y] => x = y
    BY <2>2 DEF OnceInv, OneHand
  <2> HIDE DEF line, four, three
  <2>11. /\ Range(line) \cap (Held(produced) \cup Held(consumed)) = {}
         /\ Range(line) \cup (Held(produced) \cup Held(consumed)) = Item
         /\ Held(produced) \cap Held(consumed) = {}
    BY <2>2, <2>4, <2>5, <2>6, <2>7 DEF PlaceInv, Partition
  <2>12. /\ \A i \in Range(unread \o readerQueue) : stage[i] = "raw"
         /\ \A i \in Range(workerQueue) \cup Held(produced) : stage[i] = "produced"
         /\ \A i \in Range(writerQueue \o written) \cup Held(consumed) :
              stage[i] = "consumed"
    BY <2>2, <2>4, <2>8 DEF StageInv
  <2> QED
    BY <2>7, <2>9, <2>10, <2>11, <2>12 DEF EachItemOnceInItsStage
<1> QED
  BY <1>1, ItemsAlways, PTL

-------------------------------------------------------------------------------
(* The controller's list. *)

\* Of the steps outside the controller, none takes or cancels a consumer but
\* TestCancel, which ends one that is cancelled already.
LEMMA ListFrame ==
  ASSUME ItemsInv, ListInv, consumers' = consumers, isCancel' = isCancel,
         \A c \in Consumer : ~isCancel[c] => (consumer'[c] = "none" <=> consumer[c] = "none"),
         \A c \in Consumer : consumer[c] = "none" => consumer'[c] = "none"
  PROVE  ListInv'
BY DEF ListInv, ListsRunningConsumers, FirstStays

LEMMA ListNext == ItemsInv /\ ListInv /\ [Next]_vars => ListInv'
<1> SUFFICES ASSUME ItemsInv, ListInv, [Next]_vars PROVE ListInv'
  OBVIOUS
<1>0. /\ consumer \in [Consumer -> {"none", "test", "dequeue", "enqueue"}]
      /\ isCancel \in [Consumer -> BOOLEAN] /\ consumers \in Seq(Consumer)
      /\ IsInjective(consumers)
      /\ Range(consumers) = {c \in Consumer : consumer[c] # "none" /\ ~isCancel[c]}
  BY DEF ItemsInv, TypeOK, ListInv, ListsRunningConsumers
<1>1. CASE UNCHANGED consumerVars /\ UNCHANGED consumers
  BY <1>1, ListFrame DEF consumerVars
<1>2. ASSUME NEW d \in Consumer, TestCancel(d) PROVE ListInv'
  BY <1>0, <1>2, ListFrame DEF TestCancel
<1>3. ASSUME NEW d \in Consumer, Consume(d) PROVE ListInv'
  BY <1>0, <1>3, ListFrame DEF Consume
<1>4. ASSUME NEW d \in Consumer, Output(d) PROVE ListInv'
  BY <1>0, <1>4, ListFrame DEF Output
<1>5. ASSUME NEW d \in Consumer, ScaleUp(d) PROVE ListInv'
  <2>1. /\ consumers' = Append(consumers, d) /\ consumer[d] = "none"
        /\ consumer' = [consumer EXCEPT ![d] = "test"]
        /\ isCancel' = [isCancel EXCEPT ![d] = FALSE]
    BY <1>5 DEF ScaleUp
  <2>2. d \notin Range(consumers)
    BY <1>0, <2>1
  <2>3. Range(consumers') = Range(consumers) \cup {d} /\ IsInjective(consumers')
    BY <1>0, <2>1, <2>2, AppendRange
  <2>4. Range(consumers') = {c \in Consumer : consumer'[c] # "none" /\ ~isCancel'[c]}
    BY <1>0, <2>1, <2>3
  <2>5. consumers' # <<>>
    BY <1>0, <2>1, AppendProperties
  <2> QED
    BY <2>3, <2>4, <2>5 DEF ListInv, ListsRunningConsumers, FirstStays
<1>6. CASE ScaleDown
  <2> DEFINE d == Last(consumers)
  <2>1. /\ Len(consumers) > 1 /\ consumers' = Front(consumers) /\ consumer' = consumer
        /\ isCancel' = [isCancel EXCEPT ![d] = TRUE]
    BY <1>6 DEF ScaleDown
  <2>2. consumers # <<>> /\ Len(consumers) \in Nat
    BY <1>0, <2>1, EmptySeq, LenProperties
  <2>3. /\ Range(consumers') = Range(consumers) \ {d} /\ IsInjective(consumers')
        /\ d \in Range(consumers)
        /\ consumers' \in Seq(Consumer) /\ Len(consumers') = Len(consumers) - 1
    BY <1>0, <2>1, <2>2, FrontRange
  <2>4. consumers' # <<>>
    BY <2>1, <2>2, <2>3, EmptySeq
  <2> HIDE DEF d
  <2>5. Range(consumers') = {c \in Consumer : consumer'[c] # "none" /\ ~isCancel'[c]}
    BY <1>0, <2>1, <2>3
  <2> QED
    BY <2>3, <2>4, <2>5 DEF ListInv, ListsRunningConsumers, FirstStays
<1>7. \/ UNCHANGED consumerVars /\ UNCHANGED consumers
      \/ \E c \in Consumer : Work(c)
      \/ \E c \in Consumer : ScaleUp(c)
      \/ ScaleDown
  BY DEF Next, Read, Write, Join, Control, Check, Keep, Produce, Deliver, Exited, vars
<1> QED
  BY <1>1, <1>2, <1>3, <1>4, <1>5, <1>6, <1>7 DEF Work

LEMMA ListAlways == Spec => []ListInv
<1>1. Init => ListInv
  BY EmptyRange DEF Init, ListInv, ListsRunningConsumers, FirstStays
<1> QED
  BY <1>1, ListNext, ItemsAlways, PTL DEF Spec

(***************************************************************************)
(* ConsumerController::consumers holds the consumers that are not          *)
(* cancelled, each once, whatever the thresholds and however many are      *)
(* started: cancel() is never called on an object that deleted itself.     *)
(***************************************************************************)
THEOREM ListHoldsTheRunning == Spec => []ListsRunningConsumers
<1>1. ListInv => ListsRunningConsumers
  BY DEF ListInv
<1> QED
  BY <1>1, ListAlways, PTL

(***************************************************************************)
(* Once a consumer was created, every step leaves one that is not          *)
(* cancelled.                                                              *)
(***************************************************************************)
THEOREM AConsumerStays == Spec => AtLeastOneConsumer
<1>1. ASSUME ItemsInv, ListInv, ListInv', [Next]_vars, NEW d \in Consumer,
             consumer[d] # "none"
      PROVE  \E c \in Consumer : consumer'[c] # "none" /\ ~isCancel'[c]
  <2>1. consumers # <<>> /\ consumers \in Seq(Consumer)
    BY <1>1 DEF ListInv, FirstStays, ItemsInv, TypeOK
  <2>2. consumers' # <<>> /\ consumers' \in Seq(Consumer)
    <3>1. ItemsInv'
      BY <1>1, ItemsNext
    <3>2. CASE consumers' = consumers
      BY <2>1, <3>2
    <3>3. ASSUME NEW c \in Consumer, ScaleUp(c) PROVE consumers' # <<>>
      BY <2>1, <3>3, AppendProperties DEF ScaleUp
    <3>4. CASE ScaleDown
      <4>1. /\ Len(consumers) > 1 /\ consumers' = Front(consumers)
            /\ IsInjective(consumers) /\ Len(consumers) \in Nat
        BY <1>1, <2>1, <3>4, LenProperties DEF ScaleDown, ListInv, ListsRunningConsumers
      <4>2. Len(consumers') = Len(consumers) - 1 /\ consumers' \in Seq(Consumer)
        BY <2>1, <4>1, FrontRange
      <4> QED
        BY <4>1, <4>2, EmptySeq
    <3>5. \/ consumers' = consumers
          \/ \E c \in Consumer : ScaleUp(c)
          \/ ScaleDown
      BY <1>1 DEF Next, Read, Write, Join, Control, Check, Keep, Produce, Deliver, Work,
                 TestCancel, Consume, Output, Exited, vars
    <3> QED
      BY <3>1, <3>2, <3>3, <3>4, <3>5 DEF ItemsInv, TypeOK
  <2>3. consumers'[1] \in Range(consumers')
    BY <2>2, LenProperties, EmptySeq DEF Range
  <2> QED
    BY <1>1, <2>3 DEF ListInv, ListsRunningConsumers
<1>2. ItemsInv /\ ListInv /\ ListInv' /\ [Next]_vars
      => [(\E c \in Consumer : consumer[c] # "none")
           => \E c \in Consumer : consumer'[c] # "none" /\ ~isCancel'[c]]_vars
  BY <1>1
<1> QED
  BY <1>2, ItemsAlways, ListAlways, PTL DEF Spec, AtLeastOneConsumer

-------------------------------------------------------------------------------
(* The end. *)

WrittenInv == main = "returned" => Len(written) = n

LEMMA WrittenAlways == Spec => []WrittenInv
<1>1. Init => WrittenInv
  BY DEF Init, WrittenInv
<1>2. WrittenInv /\ [Next]_vars => WrittenInv'
  BY DEF WrittenInv, Next, Read, Write, Join, Control, Check, ScaleUp, ScaleDown, Keep,
         Produce, Deliver, Work, TestCancel, Consume, Output, Exited, vars
<1> QED
  BY <1>1, <1>2, PTL DEF Spec

\* n different items were written: all of them.
LEMMA AllWritten ==
  ASSUME ItemsInv, Len(written) = n
  PROVE  Range(written) = Item
<1>1. /\ written \in Seq(Item) /\ IsInjective(written) /\ n \in Nat
      /\ DOMAIN written = 1 .. n /\ Item = 1 .. n
  BY LenProperties, SizeAssumption DEF ItemsInv, TypeOK, OnceInv, Item
<1>2. written \in [1 .. n -> Item]
  BY <1>1, LenProperties
<1>3. written \in Injection(1 .. n, 1 .. n)
  BY <1>1, <1>2 DEF Injection
<1>4. IsFiniteSet(1 .. n)
  BY <1>1, FS_Interval
<1>5. written \in Surjection(1 .. n, 1 .. n)
  BY <1>3, <1>4, FS_Injection
<1> QED
  BY <1>1, <1>2, <1>5 DEF Surjection, Range

(***************************************************************************)
(* When main returns, every queue is empty and no thread has an item, for  *)
(* any number of lines: the destructors leave nothing in use.              *)
(***************************************************************************)
THEOREM NothingLeftAtExit == Spec => []QuietAtExit
<1>1. ASSUME ItemsInv, WrittenInv PROVE QuietAtExit
  <2> SUFFICES ASSUME main = "returned"
               PROVE  /\ readerQueue = <<>> /\ workerQueue = <<>> /\ writerQueue = <<>>
                      /\ Held(produced) = {} /\ Held(consumed) = {}
    BY DEF QuietAtExit
  <2>1. Range(written) = Item
    BY <1>1, AllWritten DEF WrittenInv
  <2>2. /\ Range(readerQueue) = {} /\ Range(workerQueue) = {} /\ Range(writerQueue) = {}
        /\ Held(produced) = {} /\ Held(consumed) = {}
    BY <1>1, <2>1 DEF ItemsInv, PlaceInv, Partition
  <2>3. \A s \in Seq(Item) : s # <<>> => s[1] \in Range(s)
    BY LenProperties, EmptySeq DEF Range
  <2> QED
    BY <1>1, <2>2, <2>3 DEF ItemsInv, TypeOK
<1> QED
  BY <1>1, ItemsAlways, WrittenAlways, PTL

===============================================================================
