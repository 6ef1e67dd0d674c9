----------------------------- MODULE TSQueueProofs -----------------------------
(***************************************************************************)
(* Theorems about TSQueue, for any number of threads and any capacity: the *)
(* indices agree, no wakeup is lost, and it implements the safety part of  *)
(* BoundedQueue.                                                           *)
(***************************************************************************)
EXTENDS TSQueue, FiniteSetTheorems, SequenceTheorems, TLAPS

Holding == {"test", "count", "signal", "unlock"}

Holds(t) == pc[t] \in Holding

Counting(S) == \E t \in S : pc[t] = "count"
Signalling(S) == \E t \in S : pc[t] = "signal"

\* The index of the k-th item from the front, from 0.
Slot(k) == (head + k) % Capacity

MutexInv == \A t \in Thread : Holds(t) <=> mutex = t

ItemInv ==
  /\ \A t \in Enqueuer : pc[t] # "out" => item[t] \in Item
  /\ \A t \in Thread : pc[t] = "out" => item[t] = NoItem

IndexInv ==
  /\ Filled \in 0 .. Capacity
  /\ tail = Slot(Filled)
  /\ \A k \in 0 .. Filled - 1 : buffer[Slot(k)] \in Item

Inv == TypeOK /\ MutexInv /\ ItemInv /\ IndexInv

-------------------------------------------------------------------------------
(* Indices *)

\* An index at most one lap ahead.
LEMMA OneLap ==
  ASSUME NEW a \in Nat, a < 2 * Capacity
  PROVE  a % Capacity = IF a < Capacity THEN a ELSE a - Capacity
<1>1. Capacity \in Nat \ {0}
  BY CapacityAssumption
<1>2. CASE a < Capacity
  BY <1>1, <1>2
<1>3. CASE a >= Capacity
  <2>1. a = Capacity * 1 + (a - Capacity) /\ a - Capacity \in 0 .. Capacity - 1
    BY <1>1, <1>3
  <2> QED
    BY <1>1, <2>1
<1> QED
  BY <1>1, <1>2, <1>3

LEMMA SlotIs ==
  ASSUME head \in 0 .. Capacity - 1, NEW k \in 0 .. Capacity
  PROVE  /\ Slot(k) = IF head + k < Capacity THEN head + k ELSE head + k - Capacity
         /\ Slot(k) \in 0 .. Capacity - 1
<1>1. head + k \in Nat /\ head + k < 2 * Capacity /\ Capacity \in Nat \ {0}
  BY CapacityAssumption
<1> QED
  BY <1>1, OneLap DEF Slot

LEMMA SlotsDiffer ==
  ASSUME head \in 0 .. Capacity - 1, NEW j \in 0 .. Capacity - 1, NEW k \in 0 .. Capacity - 1,
         j # k
  PROVE  Slot(j) # Slot(k)
<1>1. Capacity \in Nat \ {0} /\ j \in 0 .. Capacity /\ k \in 0 .. Capacity
  BY CapacityAssumption
<1>2. /\ Slot(j) = IF head + j < Capacity THEN head + j ELSE head + j - Capacity
      /\ Slot(k) = IF head + k < Capacity THEN head + k ELSE head + k - Capacity
  BY <1>1, SlotIs
<1> QED
  BY <1>1, <1>2

\* What tail is after a store, and what becomes of the items' places when head
\* moves.
LEMMA NextSlot ==
  ASSUME head \in 0 .. Capacity - 1, NEW k \in 0 .. Capacity - 1
  PROVE  /\ (Slot(k) + 1) % Capacity = Slot(k + 1)
         /\ (((head + 1) % Capacity) + k) % Capacity = Slot(k + 1)
<1> DEFINE next == (head + 1) % Capacity
<1>1. /\ Capacity \in Nat \ {0} /\ k \in 0 .. Capacity /\ k + 1 \in 0 .. Capacity
      /\ head + 1 \in Nat /\ head + 1 < 2 * Capacity
  BY CapacityAssumption
<1>2. /\ Slot(k) \in 0 .. Capacity - 1
      /\ Slot(k) = IF head + k < Capacity THEN head + k ELSE head + k - Capacity
  BY <1>1, SlotIs
<1>3. Slot(k + 1) = IF head + (k + 1) < Capacity THEN head + (k + 1) ELSE head + (k + 1) - Capacity
  BY <1>1, SlotIs
<1>4. next = IF head + 1 < Capacity THEN head + 1 ELSE head + 1 - Capacity
  BY <1>1, OneLap
<1> HIDE DEF next
<1>5. next \in 0 .. Capacity - 1
  BY <1>1, <1>4
<1>6. (Slot(k) + 1) % Capacity = Slot(k + 1)
  <2> DEFINE a == Slot(k) + 1
  <2>1. a \in Nat /\ a < 2 * Capacity
    BY <1>1, <1>2
  <2> HIDE DEF a
  <2>2. a % Capacity = IF a < Capacity THEN a ELSE a - Capacity
    BY <2>1, OneLap
  <2>3. a % Capacity = Slot(k + 1)
    BY <1>1, <1>2, <1>3, <2>2 DEF a
  <2> QED
    BY <2>3 DEF a
<1>7. (next + k) % Capacity = Slot(k + 1)
  <2> DEFINE a == next + k
  <2>1. a \in Nat /\ a < 2 * Capacity
    BY <1>1, <1>5
  <2> HIDE DEF a
  <2>2. a % Capacity = IF a < Capacity THEN a ELSE a - Capacity
    BY <2>1, OneLap
  <2>3. a % Capacity = Slot(k + 1)
    BY <1>1, <1>3, <1>4, <2>2 DEF a
  <2> QED
    BY <2>3 DEF a
<1> QED
  BY <1>6, <1>7 DEF next

\* Who holds the mutex is the only one to.
LEMMA OneHolder ==
  ASSUME Inv, NEW t \in Thread, Holds(t) PROVE \A u \in Thread \ {t} : ~ Holds(u)
BY DEF Inv, MutexInv

LEMMA FilledAtTest ==
  ASSUME Inv, NEW t \in Thread, pc[t] # "count", Holds(t) \/ mutex = NoThread PROVE Filled = size
<1>1. \A u \in Thread : pc[u] # "count"
  BY NamesAssumption, OneHolder DEF Inv, MutexInv, Holds, Holding, Thread
<1> QED
  BY <1>1 DEF Filled, Thread

LEMMA FilledAtCount ==
  ASSUME Inv, NEW t \in Thread, pc[t] = "count"
  PROVE  Filled = IF t \in Enqueuer THEN size + 1 ELSE size - 1
<1>1. \A u \in Thread \ {t} : pc[u] # "count"
  BY OneHolder DEF Holds, Holding
<1> QED
  BY <1>1, NamesAssumption DEF Filled, Thread

-------------------------------------------------------------------------------
(* Steps *)

LEMMA InitInv == Init => Inv
<1> SUFFICES ASSUME Init PROVE Inv
  OBVIOUS
<1>1. Capacity \in Nat \ {0}
  BY CapacityAssumption
<1>2. TypeOK
  BY <1>1 DEF Init, TypeOK, PC
<1>3. MutexInv /\ ItemInv
  BY NamesAssumption DEF Init, MutexInv, ItemInv, Holds, Holding, Thread
<1>4. Filled = 0
  BY DEF Init, Filled, Thread
<1>5. tail = Slot(0)
  BY <1>1, SlotIs DEF Init
<1>6. IndexInv
  BY <1>1, <1>4, <1>5 DEF IndexInv
<1> QED
  BY <1>2, <1>3, <1>6 DEF Inv

\* The thread t goes from one place of the code to another, and others, those
\* woken, from wait to lock.
LEMMA MutexStep ==
  ASSUME Inv, NEW t \in Thread, TypeOK',
         \/ Holds(t)' /\ mutex' = t /\ mutex \in {t, NoThread}
         \/ ~ Holds(t)' /\ mutex' = NoThread /\ mutex \in {t, NoThread}
         \/ ~ Holds(t) /\ ~ Holds(t)' /\ mutex' = mutex,
         \A u \in Thread \ {t} : Holds(u)' <=> Holds(u)
  PROVE  MutexInv'
BY NamesAssumption DEF Inv, MutexInv, Thread

\* A step that leaves the buffer, and who counts, alone.
LEMMA IndexStutter ==
  ASSUME Inv, UNCHANGED shared, \A t \in Thread : pc'[t] = "count" <=> pc[t] = "count"
  PROVE  IndexInv' /\ Contents' = Contents
<1>1. UNCHANGED <<buffer, size, head, tail>>
  BY DEF shared
<1>2. Filled' = Filled
  BY <1>1 DEF Filled, Thread
<1>3. \A k : Slot(k)' = Slot(k)
  BY <1>1 DEF Slot
<1>4. Contents' = Contents
  BY <1>1, <1>2 DEF Contents
<1> QED
  BY <1>1, <1>2, <1>3, <1>4 DEF Inv, IndexInv

LEMMA CallInv == ASSUME Inv, NEW t \in Thread, Call(t) PROVE Inv'
<1>1. PICK i \in IF t \in Enqueuer THEN Item ELSE {NoItem} : item' = [item EXCEPT ![t] = i]
  BY DEF Call
<1>2. pc[t] = "out" /\ pc' = [pc EXCEPT ![t] = "lock"] /\ UNCHANGED <<shared, mutex>>
  BY DEF Call
<1>3. TypeOK'
  BY <1>1, <1>2 DEF Inv, TypeOK, PC, shared
<1>4. MutexInv'
  BY <1>2, <1>3, MutexStep DEF Inv, TypeOK, Holds, Holding
<1>5. ItemInv'
  BY <1>1, <1>2 DEF Inv, TypeOK, ItemInv, Thread
<1>6. IndexInv'
  BY <1>2, IndexStutter DEF Inv, TypeOK
<1> QED
  BY <1>3, <1>4, <1>5, <1>6 DEF Inv

LEMMA LockInv == ASSUME Inv, NEW t \in Thread, Lock(t) PROVE Inv'
<1>1. /\ pc[t] = "lock" /\ mutex = NoThread /\ mutex' = t /\ pc' = [pc EXCEPT ![t] = "test"]
      /\ UNCHANGED <<shared, item>>
  BY DEF Lock
<1>2. TypeOK'
  BY <1>1 DEF Inv, TypeOK, PC, shared
<1>3. MutexInv'
  BY <1>1, <1>2, MutexStep DEF Inv, TypeOK, Holds, Holding
<1>4. ItemInv'
  BY <1>1 DEF Inv, TypeOK, ItemInv, Thread
<1>5. IndexInv'
  BY <1>1, IndexStutter DEF Inv, TypeOK
<1> QED
  BY <1>2, <1>3, <1>4, <1>5 DEF Inv

LEMMA WaitInv == ASSUME Inv, NEW t \in Thread, Wait(t) PROVE Inv'
<1>1. /\ pc[t] = "test" /\ mutex' = NoThread /\ pc' = [pc EXCEPT ![t] = "wait"]
      /\ UNCHANGED <<shared, item>>
  BY DEF Wait
<1>2. TypeOK'
  BY <1>1 DEF Inv, TypeOK, PC, shared
<1>3. MutexInv'
  <2>1. mutex = t
    BY <1>1 DEF Inv, MutexInv, Holds, Holding
  <2> QED
    BY <1>1, <1>2, <2>1, MutexStep DEF Inv, TypeOK, Holds, Holding
<1>4. ItemInv'
  BY <1>1 DEF Inv, TypeOK, ItemInv, Thread
<1>5. IndexInv'
  BY <1>1, IndexStutter DEF Inv, TypeOK
<1> QED
  BY <1>2, <1>3, <1>4, <1>5 DEF Inv

LEMMA SpuriousWakeupInv == ASSUME Inv, NEW t \in Thread, SpuriousWakeup(t) PROVE Inv'
<1>1. /\ pc[t] = "wait" /\ pc' = [pc EXCEPT ![t] = "lock"]
      /\ UNCHANGED <<shared, mutex, item>>
  BY DEF SpuriousWakeup
<1>2. TypeOK'
  BY <1>1 DEF Inv, TypeOK, PC, shared
<1>3. MutexInv'
  BY <1>1, <1>2, MutexStep DEF Inv, TypeOK, Holds, Holding
<1>4. ItemInv'
  BY <1>1 DEF Inv, TypeOK, ItemInv, Thread
<1>5. IndexInv'
  BY <1>1, IndexStutter DEF Inv, TypeOK
<1> QED
  BY <1>2, <1>3, <1>4, <1>5 DEF Inv

LEMMA StoreFacts ==
  ASSUME Inv, NEW t \in Thread, Store(t)
  PROVE  /\ Filled = size /\ Filled' = size + 1 /\ size \in 0 .. Capacity - 1
         /\ tail = Slot(size)
         /\ \A k \in 0 .. size - 1 : buffer'[Slot(k)] = buffer[Slot(k)]
         /\ buffer'[Slot(size)] = item[t]
         /\ \A k : Slot(k)' = Slot(k)
         /\ tail' = Slot(size + 1)
<1>1. /\ t \in Enqueuer /\ pc[t] = "test" /\ size # Capacity
      /\ buffer' = [buffer EXCEPT ![tail] = item[t]]
      /\ tail' = (tail + 1) % Capacity
      /\ pc' = [pc EXCEPT ![t] = "count"]
      /\ UNCHANGED <<size, head, mutex, item>>
  BY DEF Store, MustWait
<1>2. /\ Capacity \in Nat \ {0} /\ head \in 0 .. Capacity - 1 /\ size \in 0 .. Capacity - 1
      /\ tail \in 0 .. Capacity - 1 /\ buffer \in [0 .. Capacity - 1 -> Item \cup {NoItem}]
      /\ pc \in [Thread -> PC]
  BY <1>1, CapacityAssumption DEF Inv, TypeOK
<1>3. Filled = size
  BY <1>1, FilledAtTest DEF Holds, Holding
<1>4. \A u \in Thread : pc'[u] = "count" <=> u = t
  BY <1>1, <1>2, OneHolder DEF Holds, Holding
<1>5. Filled' = size + 1
  BY <1>1, <1>4 DEF Filled, Thread
<1>6. tail = Slot(size)
  BY <1>3 DEF Inv, IndexInv
<1>7. \A k \in 0 .. size - 1 : Slot(k) # tail /\ Slot(k) \in 0 .. Capacity - 1
  <2>1. ASSUME NEW k \in 0 .. size - 1 PROVE Slot(k) # tail /\ Slot(k) \in 0 .. Capacity - 1
    <3>1. k \in 0 .. Capacity - 1 /\ k \in 0 .. Capacity /\ k # size
      BY <1>2
    <3>2. Slot(k) # Slot(size)
      BY <1>2, <3>1, SlotsDiffer
    <3>3. Slot(k) \in 0 .. Capacity - 1
      BY <1>2, <3>1, SlotIs
    <3> QED
      BY <1>6, <3>2, <3>3
  <2> QED
    BY <2>1
<1>8. tail' = Slot(size + 1)
  <2>1. (Slot(size) + 1) % Capacity = Slot(size + 1)
    BY <1>2, NextSlot
  <2> QED
    BY <1>1, <1>6, <2>1
<1> QED
  BY <1>1, <1>2, <1>3, <1>5, <1>6, <1>7, <1>8 DEF Slot

LEMMA StoreInv == ASSUME Inv, NEW t \in Thread, Store(t) PROVE Inv'
<1>1. /\ t \in Enqueuer /\ pc[t] = "test"
      /\ buffer' = [buffer EXCEPT ![tail] = item[t]]
      /\ tail' = (tail + 1) % Capacity
      /\ pc' = [pc EXCEPT ![t] = "count"]
      /\ UNCHANGED <<size, head, mutex, item>>
  BY DEF Store
<1>2. Capacity \in Nat \ {0} /\ item[t] \in Item
  BY <1>1, CapacityAssumption DEF Inv, ItemInv
<1>3. tail' \in 0 .. Capacity - 1
  BY <1>1, <1>2 DEF Inv, TypeOK
<1>4. TypeOK'
  BY <1>1, <1>3 DEF Inv, TypeOK, PC
<1>5. MutexInv'
  BY <1>1, <1>4, MutexStep DEF Inv, TypeOK, MutexInv, Holds, Holding
<1>6. ItemInv'
  BY <1>1 DEF Inv, TypeOK, ItemInv, Thread
<1>7. IndexInv'
  <2>1. /\ Filled = size /\ Filled' = size + 1 /\ size \in 0 .. Capacity - 1
        /\ \A k \in 0 .. size - 1 : buffer'[Slot(k)] = buffer[Slot(k)]
        /\ buffer'[Slot(size)] = item[t]
        /\ \A k : Slot(k)' = Slot(k)
        /\ tail' = Slot(size + 1)
    BY StoreFacts
  <2>2. \A k \in 0 .. Filled' - 1 : buffer'[Slot(k)] \in Item
    BY <1>2, <2>1 DEF Inv, IndexInv
  <2> QED
    BY <1>2, <2>1, <2>2 DEF IndexInv
<1> QED
  BY <1>4, <1>5, <1>6, <1>7 DEF Inv

LEMMA FetchFacts ==
  ASSUME Inv, NEW t \in Thread, Fetch(t)
  PROVE  /\ Filled = size /\ Filled' = size - 1 /\ size \in 1 .. Capacity
         /\ item' = [item EXCEPT ![t] = buffer[Slot(0)]] /\ buffer[Slot(0)] \in Item
         /\ buffer' = buffer /\ tail' = tail
         /\ \A k \in 0 .. size - 1 : Slot(k)' = Slot(k + 1)
<1>1. /\ t \in Dequeuer /\ t \notin Enqueuer /\ pc[t] = "test" /\ size # 0
      /\ item' = [item EXCEPT ![t] = buffer[head]]
      /\ head' = (head + 1) % Capacity
      /\ pc' = [pc EXCEPT ![t] = "count"]
      /\ UNCHANGED <<buffer, size, tail, mutex>>
  BY NamesAssumption DEF Fetch, MustWait
<1>2. /\ Capacity \in Nat \ {0} /\ head \in 0 .. Capacity - 1 /\ size \in 1 .. Capacity
      /\ pc \in [Thread -> PC]
  BY <1>1, CapacityAssumption DEF Inv, TypeOK
<1>3. Filled = size
  BY <1>1, FilledAtTest DEF Holds, Holding
<1>4. \A u \in Thread : pc'[u] = "count" <=> u = t
  BY <1>1, <1>2, OneHolder DEF Holds, Holding
<1>5. Filled' = size - 1
  BY <1>1, <1>4 DEF Filled, Thread
<1>6. head = Slot(0)
  BY <1>2, SlotIs
<1>7. \A k \in 0 .. size - 1 : Slot(k)' = Slot(k + 1)
  BY <1>1, <1>2, NextSlot DEF Slot
<1> QED
  BY <1>1, <1>2, <1>3, <1>5, <1>6, <1>7 DEF Inv, IndexInv

LEMMA FetchInv == ASSUME Inv, NEW t \in Thread, Fetch(t) PROVE Inv'
<1>1. /\ t \in Dequeuer /\ t \notin Enqueuer /\ pc[t] = "test"
      /\ head' = (head + 1) % Capacity
      /\ pc' = [pc EXCEPT ![t] = "count"]
      /\ UNCHANGED <<buffer, size, tail, mutex>>
  BY NamesAssumption DEF Fetch
<1>2. /\ Filled = size /\ Filled' = size - 1 /\ size \in 1 .. Capacity
      /\ item' = [item EXCEPT ![t] = buffer[Slot(0)]] /\ buffer[Slot(0)] \in Item
      /\ buffer' = buffer /\ tail' = tail
      /\ \A k \in 0 .. size - 1 : Slot(k)' = Slot(k + 1)
  BY FetchFacts
<1>3. Capacity \in Nat \ {0}
  BY CapacityAssumption
<1>4. head' \in 0 .. Capacity - 1
  BY <1>1, <1>3 DEF Inv, TypeOK
<1>5. TypeOK'
  BY <1>1, <1>2, <1>4 DEF Inv, TypeOK, PC
<1>6. MutexInv'
  BY <1>1, <1>5, MutexStep DEF Inv, TypeOK, MutexInv, Holds, Holding
<1>7. ItemInv'
  BY <1>1, <1>2 DEF Inv, TypeOK, ItemInv, Thread
<1>8. IndexInv'
  <2>1. tail' = Slot(Filled)'
    <3>1. PICK k \in 0 .. size - 1 : k = size - 1 /\ k + 1 = size
      BY <1>2
    <3>2. Slot(k)' = Slot(size)
      BY <1>2, <3>1
    <3> QED
      BY <1>2, <3>1, <3>2 DEF Inv, IndexInv, Slot
  <2>2. ASSUME NEW k \in 0 .. Filled' - 1 PROVE buffer'[Slot(k)'] \in Item
    <3>1. k \in 0 .. size - 1 /\ k + 1 \in 0 .. Filled - 1
      BY <1>2, <2>2
    <3> QED
      BY <1>2, <3>1 DEF Inv, IndexInv
  <2>3. Filled' \in 0 .. Capacity
    BY <1>2, <1>3
  <2> QED
    BY <2>1, <2>2, <2>3 DEF IndexInv
<1> QED
  BY <1>5, <1>6, <1>7, <1>8 DEF Inv

LEMMA CountFacts ==
  ASSUME Inv, NEW t \in Thread, Count(t)
  PROVE  /\ size' = Filled /\ Filled' = Filled
         /\ UNCHANGED <<buffer, head, tail, mutex, item>>
         /\ \A k : Slot(k)' = Slot(k)
<1>1. /\ pc[t] = "count" /\ pc' = [pc EXCEPT ![t] = "signal"]
      /\ size' = IF t \in Enqueuer THEN size + 1 ELSE size - 1
      /\ UNCHANGED <<buffer, head, tail, mutex, item>>
  BY DEF Count
<1>2. size' = Filled
  BY <1>1, FilledAtCount
<1>3. \A u \in Thread : pc'[u] # "count"
  BY <1>1, OneHolder DEF Inv, TypeOK, Holds, Holding
<1>4. Filled' = size'
  BY <1>3 DEF Filled, Thread
<1> QED
  BY <1>1, <1>2, <1>4 DEF Slot

LEMMA CountInv == ASSUME Inv, NEW t \in Thread, Count(t) PROVE Inv'
<1>1. pc[t] = "count" /\ pc' = [pc EXCEPT ![t] = "signal"]
  BY DEF Count
<1>2. /\ size' = Filled /\ Filled' = Filled
      /\ UNCHANGED <<buffer, head, tail, mutex, item>>
      /\ \A k : Slot(k)' = Slot(k)
  BY CountFacts
<1>3. TypeOK'
  BY <1>1, <1>2 DEF Inv, TypeOK, IndexInv, PC
<1>4. MutexInv'
  BY <1>1, <1>2, <1>3, MutexStep DEF Inv, TypeOK, MutexInv, Holds, Holding
<1>5. ItemInv'
  BY <1>1, <1>2 DEF Inv, TypeOK, ItemInv, Thread
<1>6. IndexInv'
  BY <1>2 DEF Inv, IndexInv
<1> QED
  BY <1>3, <1>4, <1>5, <1>6 DEF Inv

\* A signal takes at most one thread out of its wait.
LEMMA SignalFacts ==
  ASSUME Inv, NEW t \in Thread, Signal(t)
  PROVE  /\ pc[t] = "signal" /\ UNCHANGED <<shared, mutex, item>>
         /\ pc' \in [Thread -> PC] /\ pc'[t] = "unlock"
         /\ \/ Signalled(t) = {} /\ \A u \in Thread \ {t} : pc'[u] = pc[u]
            \/ \E w \in Signalled(t) \ {t} :
                 /\ w \in Thread /\ pc[w] = "wait" /\ pc'[w] = "lock"
                 /\ \A u \in Thread \ {t, w} : pc'[u] = pc[u]
<1>1. /\ pc[t] = "signal" /\ UNCHANGED <<shared, mutex, item>> /\ pc \in [Thread -> PC]
  BY DEF Signal, Inv, TypeOK
<1>2. CASE Signalled(t) = {}
  BY <1>1, <1>2 DEF Signal, PC
<1>3. CASE Signalled(t) # {}
  <2>1. PICK w \in Signalled(t) : pc' = [pc EXCEPT ![t] = "unlock", ![w] = "lock"]
    BY <1>3 DEF Signal
  <2>2. w \in Thread /\ pc[w] = "wait" /\ w # t
    BY <1>1, <2>1 DEF Signalled, EnqueueWaiters, DequeueWaiters, Thread
  <2>3. /\ pc' \in [Thread -> PC] /\ pc'[t] = "unlock" /\ pc'[w] = "lock"
        /\ \A u \in Thread \ {t, w} : pc'[u] = pc[u]
    BY <1>1, <2>1, <2>2 DEF PC
  <2> QED
    BY <1>1, <2>1, <2>2, <2>3
<1> QED
  BY <1>2, <1>3

LEMMA SignalInv == ASSUME Inv, NEW t \in Thread, Signal(t) PROVE Inv'
<1>1. /\ pc[t] = "signal" /\ pc'[t] = "unlock" /\ UNCHANGED <<shared, mutex, item>>
      /\ pc' \in [Thread -> PC]
      /\ \A u \in Thread \ {t} : pc'[u] = pc[u] \/ (pc[u] = "wait" /\ pc'[u] = "lock")
  BY SignalFacts
<1>2. TypeOK'
  BY <1>1 DEF Inv, TypeOK, shared
<1>3. MutexInv'
  BY <1>1, <1>2, MutexStep DEF Inv, MutexInv, Holds, Holding
<1>4. ItemInv'
  BY <1>1 DEF Inv, ItemInv, Thread
<1>5. IndexInv'
  BY <1>1, IndexStutter
<1> QED
  BY <1>2, <1>3, <1>4, <1>5 DEF Inv

LEMMA UnlockInv == ASSUME Inv, NEW t \in Thread, Unlock(t) PROVE Inv'
<1>1. /\ pc[t] = "unlock" /\ mutex' = NoThread /\ pc' = [pc EXCEPT ![t] = "out"]
      /\ item' = [item EXCEPT ![t] = NoItem]
      /\ UNCHANGED shared
  BY DEF Unlock
<1>2. TypeOK'
  BY <1>1 DEF Inv, TypeOK, PC, shared
<1>3. MutexInv'
  BY <1>1, <1>2, MutexStep DEF Inv, TypeOK, MutexInv, Holds, Holding
<1>4. ItemInv'
  BY <1>1 DEF Inv, TypeOK, ItemInv, Thread
<1>5. IndexInv'
  BY <1>1, IndexStutter DEF Inv, TypeOK
<1> QED
  BY <1>2, <1>3, <1>4, <1>5 DEF Inv

LEMMA StutterInv == Inv /\ UNCHANGED vars => Inv'
<1> SUFFICES ASSUME Inv, UNCHANGED vars PROVE Inv'
  OBVIOUS
<1>1. UNCHANGED <<shared, mutex, pc, item>>
  BY DEF vars
<1>2. TypeOK' /\ MutexInv' /\ ItemInv'
  BY <1>1 DEF Inv, TypeOK, MutexInv, ItemInv, Holds, shared
<1>3. IndexInv'
  BY <1>1, IndexStutter
<1> QED
  BY <1>2, <1>3 DEF Inv

LEMMA NextInv == Inv /\ [Next]_vars => Inv'
<1> SUFFICES ASSUME Inv, [Next]_vars PROVE Inv'
  OBVIOUS
<1>1. ASSUME NEW t \in Thread, Call(t) PROVE Inv'
  BY <1>1, CallInv
<1>2. ASSUME NEW t \in Thread, Lock(t) PROVE Inv'
  BY <1>2, LockInv
<1>3. ASSUME NEW t \in Thread, SpuriousWakeup(t) PROVE Inv'
  BY <1>3, SpuriousWakeupInv
<1>4. ASSUME NEW t \in Thread, Step(t) PROVE Inv'
  BY <1>4, WaitInv, StoreInv, FetchInv, CountInv, SignalInv, UnlockInv DEF Step
<1> QED
  BY <1>1, <1>2, <1>3, <1>4, StutterInv DEF Next

LEMMA Invariance == Spec => []Inv
<1> QED
  BY InitInv, NextInv, PTL DEF Spec

\* size stays within 0..buffer_size, head and tail within the buffer.
THEOREM TypesHold == Spec => []TypeOK
<1>1. Inv => TypeOK
  BY DEF Inv
<1> QED
  BY <1>1, Invariance, PTL

\* The mutex excludes, and head, tail and size say which places are filled.
THEOREM IndicesStayTogether == Spec => []IndicesAgree
<1>1. Inv => IndicesAgree
  <2> SUFFICES ASSUME Inv PROVE IndicesAgree
    OBVIOUS
  <2>1. \A t \in Thread : pc[t] \in {"test", "count", "signal", "unlock"} <=> mutex = t
    BY DEF Inv, MutexInv, Holds, Holding
  <2>2. tail = (head + Filled) % Capacity
    BY DEF Inv, IndexInv, Slot
  <2>3. ASSUME NEW i \in DOMAIN Contents PROVE Contents[i] # NoItem
    <3>1. Filled \in Nat /\ i \in 1 .. Filled /\ head \in Nat
      BY CapacityAssumption DEF Contents, Inv, IndexInv, TypeOK
    <3>2. PICK k \in 0 .. Filled - 1 : i = k + 1 /\ head + i - 1 = head + k
      BY <3>1
    <3>3. Contents[i] = buffer[Slot(k)]
      BY <3>1, <3>2 DEF Contents, Slot
    <3> QED
      BY <3>2, <3>3, NamesAssumption DEF Inv, IndexInv
  <2> QED
    BY <2>1, <2>2, <2>3 DEF IndicesAgree
<1> QED
  BY <1>1, Invariance, PTL

-------------------------------------------------------------------------------
(***************************************************************************)
(* No wakeup is lost.  S are the threads of one kind, T those of the other.*)
(* The inductive invariant counts, next to the awake calls of S, the one   *)
(* that took its item and has not counted it, or the signal that a thread  *)
(* of T has counted for and not sent.                                      *)
(***************************************************************************)
IsAwake(t) == pc[t] \in {"lock", "test"}
Sleepers(S) == {t \in S : pc[t] = "wait"}
Owed(S, T) == IF Counting(S) \/ Signalling(T) THEN 1 ELSE 0
Supply(S, T) == Awake(S) + Owed(S, T)

WakeInv ==
  /\ Sleepers(Dequeuer) # {} => size <= Supply(Dequeuer, Enqueuer)
  /\ Sleepers(Enqueuer) # {} => Capacity - size <= Supply(Enqueuer, Dequeuer)

Kinds(S, T) == S \cup T = Thread /\ S \cap T = {}

LEMMA AwakeChange ==
  ASSUME NEW S, S \subseteq Thread, NEW x, \A u \in S \ {x} : IsAwake(u)' <=> IsAwake(u)
  PROVE  /\ Awake(S) \in Nat /\ Awake(S)' \in Nat
         /\ x \notin S \/ (IsAwake(x)' <=> IsAwake(x)) => Awake(S)' = Awake(S)
         /\ x \in S /\ IsAwake(x)' /\ ~ IsAwake(x) => Awake(S)' = Awake(S) + 1
         /\ x \in S /\ ~ IsAwake(x)' /\ IsAwake(x) => Awake(S)' = Awake(S) - 1
<1> DEFINE A == {t \in S : IsAwake(t)}
           B == {t \in S : IsAwake(t)'}
<1>1. Awake(S) = Cardinality(A) /\ Awake(S)' = Cardinality(B)
  BY DEF Awake, IsAwake
<1>2. IsFiniteSet(A) /\ IsFiniteSet(B)
  <2>1. IsFiniteSet(Thread)
    BY NamesAssumption DEF Thread
  <2>2. A \in SUBSET Thread /\ B \in SUBSET Thread
    OBVIOUS
  <2> HIDE DEF A, B
  <2> QED
    BY <2>1, <2>2, FS_Subset
<1>3. x \notin S \/ (IsAwake(x)' <=> IsAwake(x)) => B = A
  OBVIOUS
<1>4. x \in S /\ IsAwake(x)' /\ ~ IsAwake(x) => B = A \cup {x} /\ x \notin A
  OBVIOUS
<1>5. x \in S /\ ~ IsAwake(x)' /\ IsAwake(x) => B = A \ {x} /\ x \in A
  OBVIOUS
<1> HIDE DEF A, B
<1>6. Cardinality(A) \in Nat /\ Cardinality(B) \in Nat
  BY <1>2, FS_CardinalityType
<1>7. /\ Cardinality(A \cup {x}) = IF x \in A THEN Cardinality(A) ELSE Cardinality(A) + 1
      /\ Cardinality(A \ {x}) = IF x \in A THEN Cardinality(A) - 1 ELSE Cardinality(A)
  BY <1>2, FS_AddElement, FS_RemoveElement
<1> QED
  BY <1>1, <1>3, <1>4, <1>5, <1>6, <1>7

\* Steps outside the mutex, and taking and releasing it.
LEMMA SupplyOutside ==
  ASSUME Inv, Inv', NEW S, NEW T, Kinds(S, T), NEW t \in Thread,
         Call(t) \/ Lock(t) \/ SpuriousWakeup(t) \/ Unlock(t) \/ (Wait(t) /\ t \notin S)
  PROVE  Sleepers(S)' \subseteq Sleepers(S) /\ Supply(S, T)' >= Supply(S, T)
<1>1. PICK p, q \in PC :
        /\ pc[t] = p /\ pc' = [pc EXCEPT ![t] = q]
        /\ <<p, q>> \in {<<"out", "lock">>, <<"lock", "test">>, <<"wait", "lock">>,
                        <<"unlock", "out">>, <<"test", "wait">>}
        /\ <<p, q>> = <<"test", "wait">> => t \notin S
  BY DEF Call, Lock, SpuriousWakeup, Unlock, Wait, PC
<1>2. pc \in [Thread -> PC] /\ S \subseteq Thread /\ T \subseteq Thread
  BY DEF Inv, TypeOK, Kinds
<1>3. \A u \in Thread \ {t} : pc'[u] = pc[u]
  BY <1>1, <1>2
<1>4. pc'[t] = q
  BY <1>1, <1>2
<1>5. Sleepers(S)' \subseteq Sleepers(S)
  BY <1>1, <1>2, <1>3, <1>4 DEF Sleepers
<1>6. Owed(S, T)' = Owed(S, T)
  BY <1>1, <1>2, <1>3, <1>4 DEF Owed, Counting, Signalling
<1>7. Awake(S) \in Nat /\ Awake(S)' \in Nat /\ Awake(S)' >= Awake(S)
  <2>1. \A u \in S \ {t} : IsAwake(u)' <=> IsAwake(u)
    BY <1>2, <1>3 DEF IsAwake
  <2>2. t \in S => (IsAwake(t) => IsAwake(t)')
    BY <1>1, <1>4 DEF IsAwake
  <2> QED
    BY <1>2, <2>1, <2>2, AwakeChange
<1> QED
  BY <1>5, <1>6, <1>7 DEF Supply, Owed

\* The call of t takes effect: its thread is not awake any more, and owed.
LEMMA SupplyEffect ==
  ASSUME Inv, Inv', NEW S, NEW T, Kinds(S, T), NEW t \in Thread, Store(t) \/ Fetch(t)
  PROVE  Sleepers(S)' \subseteq Sleepers(S) /\ Supply(S, T)' >= Supply(S, T)
<1>1. pc[t] = "test" /\ pc' = [pc EXCEPT ![t] = "count"]
  BY DEF Store, Fetch
<1>2. pc \in [Thread -> PC] /\ S \subseteq Thread /\ T \subseteq Thread /\ S \cap T = {}
  BY DEF Inv, TypeOK, Kinds
<1>3. pc'[t] = "count" /\ \A u \in Thread \ {t} : pc'[u] = pc[u]
  BY <1>1, <1>2
<1>4. Sleepers(S)' \subseteq Sleepers(S)
  BY <1>2, <1>3 DEF Sleepers
<1>5. Owed(S, T) = 0 /\ Owed(S, T)' = IF t \in S THEN 1 ELSE 0
  <2>1. \A u \in Thread \ {t} : pc[u] \notin {"count", "signal"}
    BY <1>1, OneHolder DEF Holds, Holding
  <2> QED
    BY <1>1, <1>2, <1>3, <2>1 DEF Owed, Counting, Signalling
<1>6. /\ Awake(S) \in Nat /\ Awake(S)' \in Nat
      /\ Awake(S)' = IF t \in S THEN Awake(S) - 1 ELSE Awake(S)
  <2>1. \A u \in S \ {t} : IsAwake(u)' <=> IsAwake(u)
    BY <1>2, <1>3 DEF IsAwake
  <2>2. IsAwake(t) /\ ~ IsAwake(t)'
    BY <1>1, <1>3 DEF IsAwake
  <2> QED
    BY <1>2, <2>1, <2>2, AwakeChange
<1> QED
  BY <1>4, <1>5, <1>6 DEF Supply

\* t counts: what S needs and what it is owed change by one.
LEMMA SupplyCount ==
  ASSUME Inv, Inv', NEW S, NEW T, Kinds(S, T), NEW t \in Thread, Count(t)
  PROVE  /\ Sleepers(S)' = Sleepers(S) /\ Supply(S, T) \in Nat
         /\ Supply(S, T)' = IF t \in S THEN Supply(S, T) - 1 ELSE Supply(S, T) + 1
<1>1. pc[t] = "count" /\ pc' = [pc EXCEPT ![t] = "signal"]
  BY DEF Count
<1>2. /\ pc \in [Thread -> PC] /\ S \subseteq Thread /\ T \subseteq Thread /\ S \cap T = {}
      /\ t \notin S => t \in T
  BY DEF Inv, TypeOK, Kinds
<1>3. pc'[t] = "signal" /\ \A u \in Thread \ {t} : pc'[u] = pc[u]
  BY <1>1, <1>2
<1>4. Sleepers(S)' = Sleepers(S)
  BY <1>1, <1>2, <1>3 DEF Sleepers
<1>5. /\ Owed(S, T) = IF t \in S THEN 1 ELSE 0
      /\ Owed(S, T)' = IF t \in S THEN 0 ELSE 1
  <2>1. \A u \in Thread \ {t} : pc[u] \notin {"count", "signal"}
    BY <1>1, OneHolder DEF Holds, Holding
  <2> QED
    BY <1>1, <1>2, <1>3, <2>1 DEF Owed, Counting, Signalling
<1>6. Awake(S) \in Nat /\ Awake(S)' = Awake(S)
  <2>1. \A u \in S \ {t} : IsAwake(u)' <=> IsAwake(u)
    BY <1>2, <1>3 DEF IsAwake
  <2>2. ~ IsAwake(t) /\ ~ IsAwake(t)'
    BY <1>1, <1>3 DEF IsAwake
  <2> QED
    BY <1>2, <2>1, <2>2, AwakeChange
<1> QED
  BY <1>4, <1>5, <1>6 DEF Supply

\* t pays what it owes, unless nobody sleeps.
LEMMA SupplySignal ==
  ASSUME Inv, Inv', NEW S, NEW T, Kinds(S, T), NEW t \in Thread, Signal(t),
         t \in T => Signalled(t) = Sleepers(S), t \in S => Signalled(t) \subseteq T
  PROVE  \/ Sleepers(S)' = {}
         \/ Sleepers(S)' \subseteq Sleepers(S) /\ Supply(S, T)' >= Supply(S, T)
<1>1. /\ pc[t] = "signal" /\ pc'[t] = "unlock" /\ pc \in [Thread -> PC]
      /\ S \subseteq Thread /\ T \subseteq Thread /\ S \cap T = {} /\ (t \notin S => t \in T)
  BY SignalFacts DEF Inv, TypeOK, Kinds
<1>2. \A u \in Thread \ {t} : pc[u] \notin {"count", "signal"}
  BY <1>1, OneHolder DEF Holds, Holding
<1>3. CASE Signalled(t) = {} /\ \A u \in Thread \ {t} : pc'[u] = pc[u]
  <2>1. Sleepers(S)' = Sleepers(S)
    BY <1>1, <1>3 DEF Sleepers
  <2>2. CASE t \in T
    BY <1>3, <2>1, <2>2
  <2>3. CASE t \in S
    <3>1. Owed(S, T)' = 0 /\ Owed(S, T) = 0
      BY <1>1, <1>2, <1>3, <2>3 DEF Owed, Counting, Signalling
    <3>2. Awake(S) \in Nat /\ Awake(S)' = Awake(S)
      <4>1. \A u \in S \ {t} : IsAwake(u)' <=> IsAwake(u)
        BY <1>1, <1>3 DEF IsAwake
      <4>2. ~ IsAwake(t) /\ ~ IsAwake(t)'
        BY <1>1 DEF IsAwake
      <4> QED
        BY <1>1, <4>1, <4>2, AwakeChange
    <3> QED
      BY <2>1, <3>1, <3>2 DEF Supply
  <2> QED
    BY <1>1, <2>2, <2>3
<1>4. ASSUME NEW w \in Signalled(t) \ {t}, w \in Thread, pc[w] = "wait", pc'[w] = "lock",
             \A u \in Thread \ {t, w} : pc'[u] = pc[u]
      PROVE  Sleepers(S)' \subseteq Sleepers(S) /\ Supply(S, T)' >= Supply(S, T)
  <2>1. Sleepers(S)' \subseteq Sleepers(S)
    BY <1>1, <1>4 DEF Sleepers
  <2>2. w \in S <=> t \in T
    BY <1>1, <1>4 DEF Sleepers
  <2>3. Owed(S, T)' = 0 /\ Owed(S, T) = IF t \in T THEN 1 ELSE 0
    BY <1>1, <1>2, <1>4 DEF Owed, Counting, Signalling
  <2>4. Awake(S) \in Nat /\ Awake(S)' = IF w \in S THEN Awake(S) + 1 ELSE Awake(S)
    <3>1. \A u \in S \ {w} : IsAwake(u)' <=> IsAwake(u)
      BY <1>1, <1>4 DEF IsAwake
    <3>2. ~ IsAwake(w) /\ IsAwake(w)'
      BY <1>4 DEF IsAwake
    <3> QED
      BY <1>1, <3>1, <3>2, AwakeChange
  <2> QED
    BY <2>1, <2>2, <2>3, <2>4 DEF Supply
<1> QED
  BY <1>3, <1>4, SignalFacts

LEMMA AwakeType ==
  ASSUME NEW S, S \subseteq Thread PROVE Awake(S) \in Nat /\ Awake(S)' \in Nat
<1>1. IsFiniteSet({t \in S : IsAwake(t)}) /\ IsFiniteSet({t \in S : IsAwake(t)'})
  <2>1. IsFiniteSet(Thread)
    BY NamesAssumption DEF Thread
  <2>2. {t \in S : IsAwake(t)} \in SUBSET Thread /\ {t \in S : IsAwake(t)'} \in SUBSET Thread
    OBVIOUS
  <2> QED
    BY <2>1, <2>2, FS_Subset
<1> QED
  BY <1>1, FS_CardinalityType DEF Awake, IsAwake

LEMMA SupplyType ==
  ASSUME NEW S, NEW T, Kinds(S, T)
  PROVE  Supply(S, T) \in Nat /\ Supply(S, T)' \in Nat
<1>1. Awake(S) \in Nat /\ Awake(S)' \in Nat
  BY AwakeType DEF Kinds
<1> QED
  BY <1>1 DEF Supply, Owed

\* One half of WakeInv: the threads of S need n before the step and m after it.
LEMMA KindStep ==
  ASSUME Inv, Inv', NEW S, NEW T, Kinds(S, T), NEW t \in Thread,
         Call(t) \/ Lock(t) \/ SpuriousWakeup(t) \/ Step(t),
         NEW n \in Nat, NEW m \in Nat,
         ~ Count(t) => m = n,
         Count(t) => m = IF t \in S THEN n - 1 ELSE n + 1,
         Wait(t) /\ t \in S => n = 0,
         t \in T => Signalled(t) = Sleepers(S), t \in S => Signalled(t) \subseteq T,
         Sleepers(S) # {} => n <= Supply(S, T)
  PROVE  Sleepers(S)' # {} => m <= Supply(S, T)'
<1>1. Supply(S, T) \in Nat /\ Supply(S, T)' \in Nat
  BY SupplyType
<1>2. CASE /\ ~ Count(t)
           /\ \/ Sleepers(S)' = {}
              \/ Sleepers(S)' \subseteq Sleepers(S) /\ Supply(S, T)' >= Supply(S, T)
  BY <1>1, <1>2
<1>3. CASE Call(t) \/ Lock(t) \/ SpuriousWakeup(t) \/ Unlock(t) \/ (Wait(t) /\ t \notin S)
  BY <1>2, <1>3, SupplyOutside DEF Call, Lock, SpuriousWakeup, Unlock, Wait, Count
<1>4. CASE Wait(t) /\ t \in S
  BY <1>1, <1>4 DEF Wait, Count
<1>5. CASE Store(t) \/ Fetch(t)
  BY <1>2, <1>5, SupplyEffect DEF Store, Fetch, Count
<1>6. CASE Count(t)
  BY <1>1, <1>6, SupplyCount
<1>7. CASE Signal(t)
  BY <1>2, <1>7, SupplySignal DEF Signal, Count
<1> QED
  BY <1>3, <1>4, <1>5, <1>6, <1>7 DEF Step

LEMMA InitWakeInv == Init => WakeInv
BY DEF Init, WakeInv, Sleepers, Thread

LEMMA NextWakeInv == Inv /\ Inv' /\ WakeInv /\ [Next]_vars => WakeInv'
<1> SUFFICES ASSUME Inv, Inv', WakeInv, [Next]_vars PROVE WakeInv'
  OBVIOUS
<1>1. CASE UNCHANGED vars
  <2>1. size' = size /\ pc' = pc
    BY <1>1 DEF vars, shared
  <2>2. \A S : Sleepers(S)' = Sleepers(S) /\ Awake(S)' = Awake(S)
    BY <2>1 DEF Sleepers, Awake
  <2>3. \A S, T : Owed(S, T)' = Owed(S, T)
    BY <2>1 DEF Owed, Counting, Signalling
  <2> QED
    BY <2>1, <2>2, <2>3 DEF WakeInv, Supply
<1>2. ASSUME NEW t \in Thread, Call(t) \/ Lock(t) \/ SpuriousWakeup(t) \/ Step(t)
      PROVE  WakeInv'
  <2>1. /\ size \in Nat /\ size' \in Nat /\ Capacity - size \in Nat /\ Capacity - size' \in Nat
        /\ Capacity \in Nat
    <3>1. Capacity \in Nat
      BY CapacityAssumption
    <3>2. size \in 0 .. Capacity /\ size' \in 0 .. Capacity
      BY DEF Inv, TypeOK
    <3>3. \A k \in 0 .. Capacity : k \in Nat /\ Capacity - k \in Nat
      BY <3>1
    <3> QED
      BY <3>1, <3>2, <3>3
  <2>2. Kinds(Dequeuer, Enqueuer) /\ Kinds(Enqueuer, Dequeuer)
    BY NamesAssumption DEF Kinds, Thread
  <2>3. ~ Count(t) => size' = size
    BY <1>2 DEF Call, Lock, SpuriousWakeup, Step, Wait, Store, Fetch, Signal, Unlock, shared
  <2>4. Count(t) => size' = IF t \in Enqueuer THEN size + 1 ELSE size - 1
    BY DEF Count
  <2>5. Wait(t) => IF t \in Enqueuer THEN size = Capacity ELSE size = 0
    BY DEF Wait, MustWait
  <2>6. Signalled(t) = IF t \in Enqueuer THEN Sleepers(Dequeuer) ELSE Sleepers(Enqueuer)
    BY DEF Signalled, EnqueueWaiters, DequeueWaiters, Sleepers
  <2>7. t \in Enqueuer <=> t \notin Dequeuer
    BY NamesAssumption DEF Thread
  <2>8. Sleepers(Enqueuer) \subseteq Enqueuer /\ Sleepers(Dequeuer) \subseteq Dequeuer
    BY DEF Sleepers
  <2>9. Sleepers(Dequeuer)' # {} => size' <= Supply(Dequeuer, Enqueuer)'
    <3> DEFINE n == size
               m == size'
    <3>1. /\ ~ Count(t) => m = n
          /\ Count(t) => m = IF t \in Dequeuer THEN n - 1 ELSE n + 1
          /\ Wait(t) /\ t \in Dequeuer => n = 0
          /\ n \in Nat /\ m \in Nat
          /\ Sleepers(Dequeuer) # {} => n <= Supply(Dequeuer, Enqueuer)
      BY <2>1, <2>3, <2>4, <2>5, <2>7 DEF WakeInv
    <3> HIDE DEF n, m
    <3>2. Sleepers(Dequeuer)' # {} => m <= Supply(Dequeuer, Enqueuer)'
      BY <1>2, <2>2, <2>6, <2>7, <2>8, <3>1, KindStep
    <3> QED
      BY <3>2 DEF m
  <2>10. Sleepers(Enqueuer)' # {} => Capacity - size' <= Supply(Enqueuer, Dequeuer)'
    <3> DEFINE n == Capacity - size
               m == Capacity - size'
    <3>1. /\ ~ Count(t) => m = n
          /\ Count(t) => m = IF t \in Enqueuer THEN n - 1 ELSE n + 1
          /\ Wait(t) /\ t \in Enqueuer => n = 0
      <4>1. \A j, k \in Nat : /\ k = j + 1 => Capacity - k = Capacity - j - 1
                              /\ k = j - 1 => Capacity - k = Capacity - j + 1
                              /\ k = Capacity => Capacity - k = 0
        BY <2>1
      <4>2. ~ Count(t) => m = n
        BY <2>3
      <4>3. Count(t) => m = IF t \in Enqueuer THEN n - 1 ELSE n + 1
        BY <2>1, <2>4, <4>1
      <4>4. Wait(t) /\ t \in Enqueuer => n = 0
        BY <2>1, <2>5, <4>1
      <4> QED
        BY <4>2, <4>3, <4>4
    <3>2. /\ n \in Nat /\ m \in Nat
          /\ Sleepers(Enqueuer) # {} => n <= Supply(Enqueuer, Dequeuer)
      BY <2>1 DEF WakeInv
    <3> HIDE DEF n, m
    <3>3. Sleepers(Enqueuer)' # {} => m <= Supply(Enqueuer, Dequeuer)'
      BY <1>2, <2>2, <2>6, <2>7, <2>8, <3>1, <3>2, KindStep
    <3> QED
      BY <3>3 DEF m
  <2> QED
    BY <2>9, <2>10 DEF WakeInv
<1> QED
  BY <1>1, <1>2 DEF Next

\* One signal per operation is enough, however many threads sleep, wake
\* spuriously or overtake the thread that was signalled.
THEOREM WakeupsAreNotLost == Spec => []NoLostWakeup
<1>1. Inv /\ WakeInv => NoLostWakeup
  <2> SUFFICES ASSUME Inv, WakeInv, mutex = NoThread PROVE NoLostWakeup
    BY DEF NoLostWakeup
  <2>1. \A t \in Thread : ~ Holds(t)
    BY NamesAssumption DEF Inv, MutexInv, Thread
  <2>2. Owed(Dequeuer, Enqueuer) = 0 /\ Owed(Enqueuer, Dequeuer) = 0
    BY <2>1 DEF Owed, Counting, Signalling, Holds, Holding, Thread
  <2>3. Kinds(Dequeuer, Enqueuer) /\ Kinds(Enqueuer, Dequeuer)
    BY NamesAssumption DEF Kinds, Thread
  <2>4. Supply(Dequeuer, Enqueuer) \in Nat /\ Supply(Enqueuer, Dequeuer) \in Nat
    BY <2>3, SupplyType
  <2>5. Awake(Dequeuer) \in Nat /\ Awake(Enqueuer) \in Nat
    <3>1. Dequeuer \subseteq Thread /\ Enqueuer \subseteq Thread
      BY DEF Thread
    <3> QED
      BY <3>1, AwakeType
  <2>6. /\ Supply(Dequeuer, Enqueuer) = Awake(Dequeuer)
        /\ Supply(Enqueuer, Dequeuer) = Awake(Enqueuer)
    BY <2>2, <2>5 DEF Supply
  <2> QED
    BY <2>6 DEF WakeInv, NoLostWakeup, Sleepers, EnqueueWaiters, DequeueWaiters
<1> QED
  BY <1>1, Invariance, InitWakeInv, NextWakeInv, PTL DEF Spec

-------------------------------------------------------------------------------
(* It implements the safety part of BoundedQueue. *)

StateOf(p) ==
  IF p = "out" THEN "idle" ELSE IF p \in {"lock", "test", "wait"} THEN "pending" ELSE "done"

LEMMA CallOfIs ==
  /\ callOf = [t \in Thread |-> [state |-> StateOf(pc[t]), item |-> item[t]]]
  /\ callOf' = [t \in Thread |-> [state |-> StateOf(pc'[t]), item |-> item'[t]]]
BY DEF callOf, StateOf

LEMMA ContentsIs ==
  ASSUME Inv
  PROVE  /\ Filled \in Nat /\ Contents = [i \in 1 .. Filled |-> buffer[Slot(i - 1)]]
         /\ Contents \in Seq(Item) /\ Len(Contents) = Filled
<1>1. Filled \in 0 .. Capacity /\ Capacity \in Nat /\ head \in Nat
  BY CapacityAssumption DEF Inv, IndexInv, TypeOK
<1>2. \A i \in 1 .. Filled : head + i - 1 = head + (i - 1) /\ i - 1 \in 0 .. Filled - 1
  BY <1>1
<1>3. Contents = [i \in 1 .. Filled |-> buffer[Slot(i - 1)]]
  BY <1>2 DEF Contents, Slot
<1>4. \A i \in 1 .. Filled : buffer[Slot(i - 1)] \in Item
  BY <1>2 DEF Inv, IndexInv
<1>5. Contents \in Seq(Item) /\ Len(Contents) = Filled
  BY <1>1, <1>3, <1>4
<1> QED
  BY <1>1, <1>3, <1>5

LEMMA ContentsAfter ==
  ASSUME Inv' PROVE Contents' = [i \in 1 .. Filled' |-> buffer'[Slot(i - 1)']]
<1>1. Filled' \in 0 .. Capacity /\ Capacity \in Nat /\ head' \in Nat
  BY CapacityAssumption DEF Inv, IndexInv, TypeOK
<1>2. \A i \in 1 .. Filled' : head' + i - 1 = head' + (i - 1)
  BY <1>1
<1> QED
  BY <1>2 DEF Contents, Slot

\* What the step of t does to the calls.
LEMMA CallMoves ==
  ASSUME NEW t \in Thread,
         \A u \in Thread \ {t} : StateOf(pc'[u]) = StateOf(pc[u]) /\ item'[u] = item[u]
  PROVE  /\ callOf' = [callOf EXCEPT ![t] = [state |-> StateOf(pc'[t]), item |-> item'[t]]]
         /\ callOf[t] = [state |-> StateOf(pc[t]), item |-> item[t]]
<1>1. callOf' = [u \in Thread |->
                  IF u = t THEN [state |-> StateOf(pc'[t]), item |-> item'[t]]
                           ELSE [state |-> StateOf(pc[u]), item |-> item[u]]]
  BY CallOfIs
<1> QED
  BY <1>1, CallOfIs

LEMMA InitRefines == ASSUME Init, Inv PROVE Abstract!Init
<1>1. Filled = 0
  BY DEF Init, Filled, Thread
<1>2. Contents = <<>>
  BY <1>1, ContentsIs
<1>3. callOf = [t \in Abstract!Thread |-> Abstract!Idle]
  BY CallOfIs DEF Init, StateOf, Abstract!Thread, Abstract!Idle, Thread
<1> QED
  BY <1>2, <1>3 DEF Abstract!Init

\* Steps that the caller does not see.
LEMMA HiddenRefines ==
  ASSUME Inv, NEW t \in Thread,
         Lock(t) \/ SpuriousWakeup(t) \/ Wait(t) \/ Count(t) \/ Signal(t)
  PROVE  UNCHANGED <<Contents, callOf>>
<1>1. item' = item /\ \A u \in Thread : StateOf(pc'[u]) = StateOf(pc[u])
  <2>1. CASE Signal(t)
    BY <2>1, SignalFacts DEF StateOf
  <2>2. CASE Lock(t) \/ SpuriousWakeup(t) \/ Wait(t) \/ Count(t)
    BY <2>2 DEF Lock, SpuriousWakeup, Wait, Count, Inv, TypeOK, StateOf
  <2> QED
    BY <2>1, <2>2
<1>2. callOf' = callOf
  BY <1>1, CallOfIs
<1>3. CASE Count(t)
  <2>1. Filled' = Filled /\ buffer' = buffer /\ head' = head
    BY <1>3, CountFacts
  <2> QED
    BY <1>2, <2>1 DEF Contents
<1>4. CASE Signal(t)
  <2>1. UNCHANGED shared /\ \A u \in Thread : pc'[u] = "count" <=> pc[u] = "count"
    BY <1>4, SignalFacts
  <2> QED
    BY <1>2, <2>1, IndexStutter
<1>5. CASE Lock(t) \/ SpuriousWakeup(t) \/ Wait(t)
  <2>1. UNCHANGED shared /\ \A u \in Thread : pc'[u] = "count" <=> pc[u] = "count"
    BY <1>5 DEF Lock, SpuriousWakeup, Wait, Inv, TypeOK
  <2> QED
    BY <1>2, <2>1, IndexStutter
<1> QED
  BY <1>3, <1>4, <1>5

LEMMA CallRefines == ASSUME Inv, NEW t \in Thread, Call(t) PROVE Abstract!Call(t)
<1>1. PICK i \in IF t \in Enqueuer THEN Item ELSE {NoItem} : item' = [item EXCEPT ![t] = i]
  BY DEF Call
<1>2. pc[t] = "out" /\ pc' = [pc EXCEPT ![t] = "lock"] /\ UNCHANGED shared
  BY DEF Call
<1>3. /\ pc'[t] = "lock" /\ item'[t] = i /\ item[t] = NoItem
      /\ \A u \in Thread \ {t} : pc'[u] = pc[u] /\ item'[u] = item[u]
  BY <1>1, <1>2 DEF Inv, TypeOK, ItemInv
<1>4. Contents' = Contents
  BY <1>2, <1>3, IndexStutter
<1>5. callOf[t] = Abstract!Idle
  BY <1>2, <1>3, CallOfIs DEF StateOf, Abstract!Idle
<1>6. callOf' = [callOf EXCEPT ![t] = [state |-> "pending", item |-> i]]
  BY <1>3, CallMoves DEF StateOf
<1> QED
  BY <1>1, <1>4, <1>5, <1>6 DEF Abstract!Call

LEMMA StoreRefines == ASSUME Inv, Inv', NEW t \in Thread, Store(t) PROVE Abstract!Put(t)
<1>1. /\ t \in Enqueuer /\ pc[t] = "test" /\ pc' = [pc EXCEPT ![t] = "count"] /\ item' = item
  BY DEF Store
<1>2. pc'[t] = "count" /\ \A u \in Thread \ {t} : pc'[u] = pc[u]
  BY <1>1 DEF Inv, TypeOK
<1>3. callOf[t] = [state |-> "pending", item |-> item[t]]
  BY <1>1, CallOfIs DEF StateOf
<1>4. callOf' = [callOf EXCEPT ![t] = [state |-> "done", item |-> item[t]]]
  <2>1. \A u \in Thread \ {t} : StateOf(pc'[u]) = StateOf(pc[u]) /\ item'[u] = item[u]
    BY <1>1, <1>2
  <2>2. StateOf(pc'[t]) = "done" /\ item'[t] = item[t]
    BY <1>1, <1>2 DEF StateOf
  <2> QED
    BY <2>1, <2>2, CallMoves
<1>5. callOf' = [callOf EXCEPT ![t].state = "done"]
  <2>1. [callOf[t] EXCEPT !.state = "done"] = [state |-> "done", item |-> item[t]]
    BY <1>3
  <2>2. callOf' = [callOf EXCEPT ![t] = [callOf[t] EXCEPT !.state = "done"]]
    BY <1>4, <2>1
  <2> QED
    BY <2>2
<1>6. /\ Filled = size /\ Filled' = size + 1 /\ size \in 0 .. Capacity - 1
      /\ \A k \in 0 .. size - 1 : buffer'[Slot(k)] = buffer[Slot(k)]
      /\ buffer'[Slot(size)] = item[t]
      /\ \A k : Slot(k)' = Slot(k)
  BY StoreFacts
<1>7. /\ Contents = [i \in 1 .. Filled |-> buffer[Slot(i - 1)]]
      /\ Contents' = [i \in 1 .. Filled' |-> buffer'[Slot(i - 1)']]
      /\ Contents \in Seq(Item) /\ Len(Contents) = size
  BY <1>6, ContentsIs, ContentsAfter
<1>8. Contents' = [i \in 1 .. size + 1 |-> IF i <= size THEN Contents[i] ELSE item[t]]
  <2>1. \A i \in 1 .. size + 1 : i <= size => i - 1 \in 0 .. size - 1 /\ i \in 1 .. Filled
    BY <1>6
  <2>2. \A i \in 1 .. size + 1 : ~ (i <= size) => i - 1 = size
    BY <1>6
  <2> QED
    BY <1>6, <1>7, <2>1, <2>2
<1>9. Contents' = Append(Contents, item[t])
  <2> DEFINE s == Contents
  <2>1. s \in Seq(Item) /\ Len(s) = size
    BY <1>7
  <2>2. Contents' = [i \in 1 .. Len(s) + 1 |-> IF i <= Len(s) THEN s[i] ELSE item[t]]
    BY <1>8, <2>1
  <2> HIDE DEF s
  <2>3. Contents' = Append(s, item[t])
    BY <2>1, <2>2
  <2> QED
    BY <2>3 DEF s
<1>10. Len(Contents) < Capacity
  BY <1>6, <1>7, CapacityAssumption
<1> QED
  BY <1>1, <1>3, <1>5, <1>9, <1>10 DEF Abstract!Put

LEMMA FetchRefines == ASSUME Inv, Inv', NEW t \in Thread, Fetch(t) PROVE Abstract!Take(t)
<1>1. t \in Dequeuer /\ pc[t] = "test" /\ pc' = [pc EXCEPT ![t] = "count"]
  BY DEF Fetch
<1>2. pc'[t] = "count" /\ \A u \in Thread \ {t} : pc'[u] = pc[u]
  BY <1>1 DEF Inv, TypeOK
<1>3. /\ Filled = size /\ Filled' = size - 1 /\ size \in 1 .. Capacity
      /\ item' = [item EXCEPT ![t] = buffer[Slot(0)]] /\ buffer' = buffer
      /\ \A k \in 0 .. size - 1 : Slot(k)' = Slot(k + 1)
  BY FetchFacts
<1>4. item'[t] = buffer[Slot(0)] /\ \A u \in Thread \ {t} : item'[u] = item[u]
  BY <1>3 DEF Inv, TypeOK
<1>5. callOf[t] = [state |-> "pending", item |-> item[t]]
  BY <1>1, CallOfIs DEF StateOf
<1>6. callOf' = [callOf EXCEPT ![t] = [state |-> "done", item |-> buffer[Slot(0)]]]
  <2>1. \A u \in Thread \ {t} : StateOf(pc'[u]) = StateOf(pc[u]) /\ item'[u] = item[u]
    BY <1>2, <1>4
  <2>2. StateOf(pc'[t]) = "done"
    BY <1>2 DEF StateOf
  <2> QED
    BY <1>4, <2>1, <2>2, CallMoves
<1>7. /\ Contents = [i \in 1 .. Filled |-> buffer[Slot(i - 1)]]
      /\ Contents' = [i \in 1 .. Filled' |-> buffer'[Slot(i - 1)']]
      /\ Contents \in Seq(Item) /\ Len(Contents) = size
  BY <1>3, ContentsIs, ContentsAfter
<1>8. Head(Contents) = buffer[Slot(0)]
  BY <1>3, <1>7
<1>9. Contents' = [i \in 1 .. size - 1 |-> Contents[i + 1]]
  <2>1. \A i \in 1 .. size - 1 :
          i - 1 \in 0 .. size - 1 /\ i + 1 \in 1 .. Filled /\ (i - 1) + 1 = (i + 1) - 1
    BY <1>3
  <2>2. ASSUME NEW i \in 1 .. size - 1 PROVE buffer'[Slot(i - 1)'] = Contents[i + 1]
    BY <1>3, <1>7, <2>1
  <2> QED
    BY <1>3, <1>7, <2>2
<1>10. Contents' = Tail(Contents) /\ Contents # <<>>
  <2> DEFINE s == Contents
  <2>1. s \in Seq(Item) /\ Len(s) = size /\ Contents' = [i \in 1 .. Len(s) - 1 |-> s[i + 1]]
    BY <1>7, <1>9
  <2> HIDE DEF s
  <2>2. s # <<>>
    BY <1>3, <2>1
  <2>3. Tail(s) = [i \in 1 .. Len(s) - 1 |-> s[i + 1]]
    <3>1. /\ Tail(s) \in Seq(Item) /\ Len(Tail(s)) = Len(s) - 1
          /\ \A i \in 1 .. Len(Tail(s)) : Tail(s)[i] = s[i + 1]
      BY <2>1, <2>2, HeadTailProperties
    <3>2. \A r \in Seq(Item) : r = [i \in 1 .. Len(r) |-> r[i]]
      OBVIOUS
    <3> QED
      BY <3>1, <3>2
  <2> QED
    BY <2>1, <2>2, <2>3 DEF s
<1>11. callOf' = [callOf EXCEPT ![t] = [state |-> "done", item |-> Head(Contents)]]
  BY <1>6, <1>8
<1>12. callOf[t].state = "pending"
  BY <1>5
<1> QED
  BY <1>1, <1>10, <1>11, <1>12 DEF Abstract!Take

LEMMA UnlockRefines == ASSUME Inv, NEW t \in Thread, Unlock(t) PROVE Abstract!Return(t)
<1>1. /\ pc[t] = "unlock" /\ pc' = [pc EXCEPT ![t] = "out"]
      /\ item' = [item EXCEPT ![t] = NoItem] /\ UNCHANGED shared
  BY DEF Unlock
<1>2. /\ pc'[t] = "out" /\ item'[t] = NoItem
      /\ \A u \in Thread \ {t} : pc'[u] = pc[u] /\ item'[u] = item[u]
  BY <1>1 DEF Inv, TypeOK
<1>3. Contents' = Contents
  BY <1>1, <1>2, IndexStutter
<1>4. callOf[t].state = "done"
  BY <1>1, CallOfIs DEF StateOf
<1>5. callOf' = [callOf EXCEPT ![t] = Abstract!Idle]
  BY <1>2, CallMoves DEF StateOf, Abstract!Idle
<1> QED
  BY <1>3, <1>4, <1>5 DEF Abstract!Return

\* Every step of TSQueue is a step of BoundedQueue or none: enqueue and dequeue
\* take effect at one instant, in first-in first-out order, and never beyond
\* the capacity.
THEOREM QueueRefinesBoundedQueue == Spec => Abstract!Spec
<1>1. Init /\ Inv => Abstract!Init
  BY InitRefines
<1>2. Inv /\ Inv' /\ [Next]_vars => [Abstract!Next]_(Abstract!vars)
  <2> SUFFICES ASSUME Inv, Inv', [Next]_vars PROVE Abstract!Next \/ UNCHANGED <<Contents, callOf>>
    BY DEF Abstract!vars
  <2>1. CASE UNCHANGED vars
    <3>1. UNCHANGED <<shared, pc, item>>
      BY <2>1 DEF vars
    <3>2. callOf' = callOf
      BY <3>1, CallOfIs
    <3> QED
      BY <3>1, <3>2, IndexStutter
  <2>2. ASSUME NEW t \in Thread, Call(t) \/ Lock(t) \/ SpuriousWakeup(t) \/ Step(t)
        PROVE  Abstract!Next \/ UNCHANGED <<Contents, callOf>>
    <3>1. t \in Abstract!Thread
      BY DEF Abstract!Thread, Thread
    <3>2. CASE Lock(t) \/ SpuriousWakeup(t) \/ Wait(t) \/ Count(t) \/ Signal(t)
      BY <3>2, HiddenRefines
    <3>3. CASE Call(t)
      BY <3>1, <3>3, CallRefines DEF Abstract!Next
    <3>4. CASE Store(t)
      BY <3>1, <3>4, StoreRefines DEF Abstract!Next
    <3>5. CASE Fetch(t)
      BY <3>1, <3>5, FetchRefines DEF Abstract!Next
    <3>6. CASE Unlock(t)
      BY <3>1, <3>6, UnlockRefines DEF Abstract!Next
    <3> QED
      BY <2>2, <3>2, <3>3, <3>4, <3>5, <3>6 DEF Step
  <2> QED
    BY <2>1, <2>2 DEF Next
<1> QED
  BY <1>1, <1>2, InitInv, Invariance, PTL DEF Spec, Abstract!Spec
===============================================================================
