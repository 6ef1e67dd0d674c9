---------------------------- MODULE SchedulerProofs ----------------------------
(* The inductive invariant of Scheduler and what follows from it, that Scheduler   *)
(* implements ProcessLifecycle, and the two invariants about its history.          *)
EXTENDS SchedulerHistory, TLAPS

Inv ==
  /\ TypeOK
  /\ QueuedAtItsLevel
  /\ ListsOrdered
  /\ NoThreadLost
  /\ CarcassSafe
  /\ RemainingIsWhatIsLeft

-------------------------------------------------------------------------------
(* The ready lists. *)

LEMMA LevelType == ASSUME NEW p \in Nat PROVE Level(p) \in Levels
BY DEF Level, Levels

LEMMA QueuedIff ==
  ASSUME NEW q \in Lists, NEW t
  PROVE  t \in Queued(q) <=> \E k \in Levels : t \in q.list[k]
BY DEF Queued, Lists, Levels

LEMMA AppendedSound ==
  ASSUME NEW q \in Lists, Ordered(q), NEW k \in Levels, NEW t \in Thread,
         t \notin Queued(q)
  PROVE  /\ Appended(q, k, t) \in Lists
         /\ Ordered(Appended(q, k, t))
         /\ Appended(q, k, t).list[k] = q.list[k] \cup {t}
         /\ \A j \in Levels : j # k => Appended(q, k, t).list[j] = q.list[j]
<1> DEFINE r == Appended(q, k, t)
<1>1. r \in Lists
  BY DEF Appended, Lists
<1>2. /\ r.list[k] = q.list[k] \cup {t}
      /\ \A j \in Levels : j # k => r.list[j] = q.list[j]
  BY DEF Appended, Lists
<1>3. r.before = q.before \cup (q.list[k] \X {t})
  BY DEF Appended
<1>4. \A j \in Levels : t \notin q.list[j]
  BY QueuedIff
<1>5. \A p \in q.before : p = <<p[1], p[2]>> /\ p[1] # t /\ p[2] # t
  BY <1>4 DEF Ordered, Lists
<1>6. \A u, v : <<u, v>> \in r.before <=>
                  <<u, v>> \in q.before \/ (u \in q.list[k] /\ v = t)
  BY <1>3
<1> HIDE DEF r
<1>7. Ordered(r)
  <2>1. \A i, j \in Levels : \A u \in r.list[i] : u \in r.list[j] => i = j
    BY <1>2, <1>4 DEF Ordered
  <2>2. \A p \in r.before : \E j \in Levels : {p[1], p[2]} \subseteq r.list[j]
    BY <1>2, <1>3 DEF Ordered
  <2>3. \A j \in Levels : \A u \in r.list[j] : <<u, u>> \notin r.before
    BY <1>2, <1>4, <1>5, <1>6 DEF Ordered
  <2>4. \A j \in Levels : \A u, v \in r.list[j] :
          u = v \/ <<u, v>> \in r.before \/ <<v, u>> \in r.before
    <3>1. ASSUME NEW j \in Levels, NEW u \in q.list[j], NEW v \in q.list[j]
          PROVE  u = v \/ <<u, v>> \in r.before \/ <<v, u>> \in r.before
      BY <1>6 DEF Ordered
    <3>2. ASSUME NEW u \in q.list[k]
          PROVE  <<u, t>> \in r.before
      BY <1>6
    <3>3. ASSUME NEW j \in Levels, NEW u \in r.list[j], NEW v \in r.list[j]
          PROVE  u = v \/ <<u, v>> \in r.before \/ <<v, u>> \in r.before
      <4>1. CASE j # k
        BY <1>2, <3>1, <3>3, <4>1
      <4>2. CASE j = k
        <5>1. /\ u = t \/ u \in q.list[k]
              /\ v = t \/ v \in q.list[k]
          BY <1>2, <3>3, <4>2
        <5>2. QED
          BY <3>1, <3>2, <5>1
      <4>3. QED
        BY <4>1, <4>2
    <3>4. QED
      BY <3>3
  <2>5. \A j \in Levels : \A u, v, w \in r.list[j] :
          <<u, v>> \in r.before /\ <<v, w>> \in r.before => <<u, w>> \in r.before
    BY <1>2, <1>4, <1>5, <1>6 DEF Ordered
  <2> QED
    BY <2>1, <2>2, <2>3, <2>4, <2>5 DEF Ordered
<1> QED
  BY <1>1, <1>2, <1>7 DEF r

LEMMA RemovedSound ==
  ASSUME NEW q \in Lists, Ordered(q), NEW t \in Thread
  PROVE  /\ Removed(q, t) \in Lists
         /\ Ordered(Removed(q, t))
         /\ \A j \in Levels : Removed(q, t).list[j] = q.list[j] \ {t}
<1> DEFINE r == Removed(q, t)
<1>1. r \in Lists
  BY DEF Removed, Lists
<1>2. \A j \in Levels : r.list[j] = q.list[j] \ {t}
  BY DEF Removed
<1>3. r.before = {p \in q.before : p[1] # t /\ p[2] # t}
  BY DEF Removed
<1>4. \A u, v : u # t /\ v # t => (<<u, v>> \in r.before <=> <<u, v>> \in q.before)
  BY <1>3
<1>5. \A p \in r.before : p \in q.before /\ p[1] # t /\ p[2] # t
  BY <1>3
<1> HIDE DEF r
<1>6. Ordered(r)
  <2>1. \A i, j \in Levels : \A u \in r.list[i] : u \in r.list[j] => i = j
    BY <1>2 DEF Ordered
  <2>2. \A p \in r.before : \E j \in Levels : {p[1], p[2]} \subseteq r.list[j]
    BY <1>2, <1>5 DEF Ordered
  <2>3. \A j \in Levels : \A u \in r.list[j] : <<u, u>> \notin r.before
    BY <1>2, <1>4 DEF Ordered
  <2>4. \A j \in Levels : \A u, v \in r.list[j] :
          u = v \/ <<u, v>> \in r.before \/ <<v, u>> \in r.before
    BY <1>2, <1>4 DEF Ordered
  <2>5. \A j \in Levels : \A u, v, w \in r.list[j] :
          <<u, v>> \in r.before /\ <<v, w>> \in r.before => <<u, w>> \in r.before
    BY <1>2, <1>4 DEF Ordered
  <2> QED
    BY <2>1, <2>2, <2>3, <2>4, <2>5 DEF Ordered
<1> QED
  BY <1>1, <1>2, <1>6 DEF r

LEMMA FindNextQueued ==
  ASSUME NEW q \in Lists, NEW rem, NEW n, FindNextToRun(q, rem, n)
  PROVE  n \in Queued(q)
BY DEF FindNextToRun, Queued

\* Ageing keeps priorities and ages in range, and moves up one list at most.
LEMMA AgedType ==
  ASSUME TypeOK, NEW t \in Thread
  PROVE  /\ AgedPriority(t) \in 0 .. MaxPriority
         /\ AgedAge(t) \in 0 .. AgeCap
         /\ Level(priority[t]) = 1 => Level(AgedPriority(t)) = 1
         /\ Level(priority[t]) = 2 =>
              Level(AgedPriority(t)) = IF AgedPriority(t) >= L1Floor THEN 1 ELSE 2
         /\ Level(priority[t]) = 3 =>
              Level(AgedPriority(t)) = IF AgedPriority(t) >= L2Floor THEN 2 ELSE 3
<1>1. priority[t] \in 0 .. MaxPriority /\ age[t] \in 0 .. AgeCap
  BY DEF TypeOK
<1> QED
  BY <1>1, PriorityAssumption, TickAssumption
     DEF AgedPriority, AgedAge, Promoted, MinOf, Level

LEMMA AgedListsSound ==
  ASSUME TypeOK, ListsOrdered, QueuedAtItsLevel
  PROVE  /\ AgedLists \in Lists
         /\ Ordered(AgedLists)
         /\ \A k \in Levels : \A t \in AgedLists.list[k] :
              t \in Queued(ready) /\ Level(AgedPriority(t)) = k
         /\ Queued(AgedLists) = Queued(ready)
<1> DEFINE up2 == {t \in ready.list[2] : AgedPriority(t) >= L1Floor}
           up3 == {t \in ready.list[3] : AgedPriority(t) >= L2Floor}
           r == AgedLists
<1>0. \A k \in Levels : k = 1 \/ k = 2 \/ k = 3
  BY DEF Levels
<1>1. ready \in Lists /\ Ordered(ready)
  BY DEF TypeOK, ListsOrdered
<1>2. /\ r.list[1] = ready.list[1] \cup up2
      /\ r.list[2] = (ready.list[2] \ up2) \cup up3
      /\ r.list[3] = ready.list[3] \ up3
  BY DEF AgedLists, Levels
<1>3. r.before = {p \in ready.before :
                    \E k \in Levels : p[1] \in r.list[k] /\ p[2] \in r.list[k]}
                 \cup (ready.list[1] \X up2) \cup ((ready.list[2] \ up2) \X up3)
  BY DEF AgedLists
<1>4. r \in Lists
  BY <1>1 DEF AgedLists, Lists, Levels
<1>5. Queued(r) = Queued(ready)
  BY <1>2 DEF Queued
<1>6. \A k \in Levels : \A t \in r.list[k] :
        t \in Queued(ready) /\ Level(AgedPriority(t)) = k
  <2>1. \A k \in Levels : \A t \in ready.list[k] : t \in Thread /\ Level(priority[t]) = k
    BY <1>1 DEF QueuedAtItsLevel, Lists
  <2>2. ASSUME NEW t \in r.list[1] PROVE Level(AgedPriority(t)) = 1
    <3>1. t \in Thread /\ (Level(priority[t]) = 1 \/ AgedPriority(t) >= L1Floor)
      BY <1>2, <2>1 DEF Levels
    <3> QED
      BY <3>1, AgedType DEF Level
  <2>3. ASSUME NEW t \in r.list[2] PROVE Level(AgedPriority(t)) = 2
    <3>1. CASE t \in ready.list[2] \ up2
      <4>1. t \in Thread /\ Level(priority[t]) = 2 /\ ~(AgedPriority(t) >= L1Floor)
        BY <3>1, <2>1 DEF Levels
      <4> QED
        BY <4>1, AgedType
    <3>2. CASE t \in up3
      <4>1. t \in Thread /\ Level(priority[t]) = 3 /\ AgedPriority(t) >= L2Floor
        BY <3>2, <2>1 DEF Levels
      <4> QED
        BY <4>1, AgedType
    <3> QED
      BY <1>2, <3>1, <3>2
  <2>4. ASSUME NEW t \in r.list[3] PROVE Level(AgedPriority(t)) = 3
    <3>1. t \in Thread /\ Level(priority[t]) = 3 /\ ~(AgedPriority(t) >= L2Floor)
      BY <1>2, <2>1 DEF Levels
    <3> QED
      BY <3>1, AgedType
  <2>5. \A k \in Levels : \A t \in r.list[k] : t \in Queued(ready)
    BY <1>2 DEF Queued, Levels
  <2> QED
    BY <2>2, <2>3, <2>4, <2>5 DEF Levels
<1>7. \A u, v : <<u, v>> \in r.before <=>
        \/ <<u, v>> \in ready.before /\ \E k \in Levels : u \in r.list[k] /\ v \in r.list[k]
        \/ u \in ready.list[1] /\ v \in up2
        \/ u \in ready.list[2] \ up2 /\ v \in up3
  BY <1>3
<1>8. \A p \in r.before : \E k \in Levels : {p[1], p[2]} \subseteq r.list[k]
  BY <1>2, <1>3 DEF Levels
<1>9. \A j, k \in Levels : \A t \in r.list[j] : t \in r.list[k] => j = k
  BY <1>6
<1>10. /\ up2 \subseteq ready.list[2]
       /\ up3 \subseteq ready.list[3]
  OBVIOUS
<1>11. /\ \A t \in ready.list[1] : t \notin ready.list[2] /\ t \notin ready.list[3]
       /\ \A t \in ready.list[2] : t \notin ready.list[3]
  BY <1>1 DEF Ordered, Levels
<1>12. /\ \A u, v : <<u, v>> \in ready.before =>
            \/ u \in ready.list[1] /\ v \in ready.list[1]
            \/ u \in ready.list[2] /\ v \in ready.list[2]
            \/ u \in ready.list[3] /\ v \in ready.list[3]
       /\ \A k \in Levels : \A u \in ready.list[k] : <<u, u>> \notin ready.before
       /\ \A k \in Levels : \A u, v \in ready.list[k] :
            u = v \/ <<u, v>> \in ready.before \/ <<v, u>> \in ready.before
       /\ \A k \in Levels : \A u, v, w \in ready.list[k] :
            <<u, v>> \in ready.before /\ <<v, w>> \in ready.before
              => <<u, w>> \in ready.before
  <2>1. ASSUME NEW u, NEW v, <<u, v>> \in ready.before
        PROVE  \E k \in Levels : u \in ready.list[k] /\ v \in ready.list[k]
    BY <2>1, <1>1 DEF Ordered
  <2>2. \A u, v : <<u, v>> \in ready.before =>
            \/ u \in ready.list[1] /\ v \in ready.list[1]
            \/ u \in ready.list[2] /\ v \in ready.list[2]
            \/ u \in ready.list[3] /\ v \in ready.list[3]
    BY <2>1 DEF Levels
  <2>3. \A k \in Levels : \A u \in ready.list[k] : <<u, u>> \notin ready.before
    BY <1>1 DEF Ordered
  <2>4. \A k \in Levels : \A u, v \in ready.list[k] :
            u = v \/ <<u, v>> \in ready.before \/ <<v, u>> \in ready.before
    BY <1>1 DEF Ordered
  <2>5. \A k \in Levels : \A u, v, w \in ready.list[k] :
            <<u, v>> \in ready.before /\ <<v, w>> \in ready.before
              => <<u, w>> \in ready.before
    BY <1>1 DEF Ordered
  <2> QED
    BY <2>2, <2>3, <2>4, <2>5
<1> HIDE DEF up2, up3, r
<1>13. \A k \in Levels : \A u \in r.list[k] : <<u, u>> \notin r.before
  <2>1. ASSUME NEW u \in r.list[1] PROVE <<u, u>> \notin r.before
    BY <2>1, <1>2, <1>7, <1>10, <1>11, <1>12 DEF Levels
  <2>2. ASSUME NEW u \in r.list[2] PROVE <<u, u>> \notin r.before
    BY <2>2, <1>2, <1>7, <1>10, <1>11, <1>12 DEF Levels
  <2>3. ASSUME NEW u \in r.list[3] PROVE <<u, u>> \notin r.before
    BY <2>3, <1>2, <1>7, <1>10, <1>11, <1>12 DEF Levels
  <2> QED
    BY <1>0, <2>1, <2>2, <2>3
<1>14. \A k \in Levels : \A u, v \in r.list[k] :
         u = v \/ <<u, v>> \in r.before \/ <<v, u>> \in r.before
  <2>1. ASSUME NEW u \in r.list[1], NEW v \in r.list[1] PROVE 
               u = v \/ <<u, v>> \in r.before \/ <<v, u>> \in r.before
    BY <2>1, <1>2, <1>7, <1>10, <1>11, <1>12 DEF Levels
  <2>2. ASSUME NEW u \in r.list[2], NEW v \in r.list[2] PROVE 
               u = v \/ <<u, v>> \in r.before \/ <<v, u>> \in r.before
    BY <2>2, <1>2, <1>7, <1>10, <1>11, <1>12 DEF Levels
  <2>3. ASSUME NEW u \in r.list[3], NEW v \in r.list[3] PROVE 
               u = v \/ <<u, v>> \in r.before \/ <<v, u>> \in r.before
    BY <2>3, <1>2, <1>7, <1>10, <1>11, <1>12 DEF Levels
  <2> QED
    BY <1>0, <2>1, <2>2, <2>3
<1>15. \A k \in Levels : \A u, v, w \in r.list[k] :
         <<u, v>> \in r.before /\ <<v, w>> \in r.before => <<u, w>> \in r.before
  <2>1. ASSUME NEW u \in r.list[1], NEW v \in r.list[1], NEW w \in r.list[1],
               <<u, v>> \in r.before, <<v, w>> \in r.before
        PROVE  <<u, w>> \in r.before
    BY <2>1, <1>2, <1>7, <1>10, <1>11, <1>12 DEF Levels
  <2>2. ASSUME NEW u \in r.list[2], NEW v \in r.list[2], NEW w \in r.list[2],
               <<u, v>> \in r.before, <<v, w>> \in r.before
        PROVE  <<u, w>> \in r.before
    BY <2>2, <1>2, <1>7, <1>10, <1>11, <1>12 DEF Levels
  <2>3. ASSUME NEW u \in r.list[3], NEW v \in r.list[3], NEW w \in r.list[3],
               <<u, v>> \in r.before, <<v, w>> \in r.before
        PROVE  <<u, w>> \in r.before
    BY <2>3, <1>2, <1>7, <1>10, <1>11, <1>12 DEF Levels
  <2> QED
    BY <1>0, <2>1, <2>2, <2>3
<1> QED
  BY <1>4, <1>5, <1>6, <1>8, <1>9, <1>13, <1>14, <1>15 DEF Ordered, r

-------------------------------------------------------------------------------
(* Each action keeps the invariant. *)

LEMMA MinusType ==
  ASSUME NEW a \in Nat, NEW b \in Nat
  PROVE  Minus(a, b) \in Nat /\ Minus(a, b) <= a
BY DEF Minus

\* A list member is a ready thread of the right level, on that list only.
LEMMA QueuedFacts ==
  ASSUME Inv, NEW t \in Queued(ready)
  PROVE  /\ t \in Thread
         /\ status[t] = "READY"
         /\ t = current => phase = "idle"
<1>1. PICK k \in Levels : t \in ready.list[k]
  BY QueuedIff DEF Inv, TypeOK
<1> QED
  BY <1>1 DEF Inv, TypeOK, Lists, QueuedAtItsLevel

LEMMA ConstantTypes ==
  /\ MaxPriority \in Nat /\ L1Floor \in Nat /\ L2Floor \in Nat /\ AgeStep \in Nat
  /\ TimerTicks \in Nat \ {0} /\ UserTick \in Nat /\ SystemTick \in Nat
  /\ AgeThreshold \in Nat /\ AgeCap \in Nat /\ BurstCap \in Nat
BY PriorityAssumption, TickAssumption

LEMMA SliceType == Slice \subseteq 1 .. 2 * TimerTicks
<1>1. CASE RandomSlice
  BY <1>1 DEF Slice
<1>2. CASE ~RandomSlice
  BY <1>2, TickAssumption DEF Slice
<1> QED
  BY <1>1, <1>2

LEMMA InitInv == Init => Inv
<1> SUFFICES ASSUME Init PROVE Inv
  OBVIOUS
<1>1. TypeOK
  <2>1. ready \in Lists
    BY DEF Init, Lists
  <2>2. toTimer \in Slice /\ 1 .. 2 * TimerTicks \subseteq 0 .. 2 * TimerTicks
    BY TickAssumption DEF Init
  <2>3. toTimer \in 0 .. 2 * TimerTicks
    BY <2>2, SliceType
  <2>4. /\ priority \in [Thread -> 0 .. MaxPriority]
        /\ approxBurst \in [Thread -> 0 .. BurstCap]
        /\ totalBurst \in [Thread -> 0 .. BurstCap]
        /\ remainingBurst \in [Thread -> 0 .. BurstCap]
        /\ age \in [Thread -> 0 .. AgeCap]
        /\ ran \in 0 .. BurstCap
    BY ConstantTypes DEF Init
  <2>5. /\ status \in [Thread -> Status]
        /\ current \in Thread /\ toBeDestroyed \in Thread \cup {NoThread}
        /\ phase \in Phase /\ inP \subseteq Thread
    BY ThreadAssumption DEF Init, Status, Phase
  <2>6. finishing \in BOOLEAN /\ yieldOnReturn \in BOOLEAN
    BY DEF Init
  <2> QED
    BY <2>1, <2>3, <2>4, <2>5, <2>6 DEF TypeOK
<1>2. QueuedAtItsLevel /\ ListsOrdered
  BY DEF Init, QueuedAtItsLevel, ListsOrdered, Ordered
<1>3. NoThreadLost /\ CarcassSafe
  BY ThreadAssumption DEF Init, NoThreadLost, CarcassSafe
<1>4. RemainingIsWhatIsLeft
  <2>1. Minus(0, 0) = 0
    BY DEF Minus
  <2> QED
    BY <2>1 DEF Init, RemainingIsWhatIsLeft
<1> QED
  BY <1>1, <1>2, <1>3, <1>4 DEF Inv

LEMMA ExecInv ==
  ASSUME Inv, NEW t \in Thread, NEW p \in InitialPriority, Exec(t, p)
  PROVE  Inv'
<1>1. p \in 0 .. MaxPriority /\ Level(p) \in Levels
  BY LevelType, PriorityAssumption
<1>2. t \notin Queued(ready) /\ t # current
  BY QueuedFacts DEF Exec, Inv, NoThreadLost
<1>3. ready \in Lists /\ Ordered(ready)
  BY DEF Inv, TypeOK, ListsOrdered
<1>4. /\ ready' \in Lists
      /\ Ordered(ready')
      /\ ready'.list[Level(p)] = ready.list[Level(p)] \cup {t}
      /\ \A j \in Levels : j # Level(p) => ready'.list[j] = ready.list[j]
  BY <1>1, <1>2, <1>3, AppendedSound DEF Exec
<1>5. TypeOK'
  BY <1>1, <1>4, TickAssumption
     DEF Exec, Inv, TypeOK, Status, Phase, irqVars
<1>6. QueuedAtItsLevel'
  BY <1>1, <1>2, <1>4 DEF Exec, Inv, TypeOK, QueuedAtItsLevel, Queued, Lists
<1>7. NoThreadLost'
  <2>1. \A u \in Queued(ready) \cup {t} : u \in Queued(ready')
    BY <1>1, <1>3, <1>4, QueuedIff
  <2> QED
    BY <1>2, <2>1 DEF Exec, Inv, TypeOK, NoThreadLost
<1>8. CarcassSafe'
  BY <1>2 DEF Exec, Inv, TypeOK, CarcassSafe
<1>9. RemainingIsWhatIsLeft'
  BY DEF Exec, Inv, RemainingIsWhatIsLeft, Minus
<1> QED
  BY <1>4, <1>5, <1>6, <1>7, <1>8, <1>9 DEF Inv, ListsOrdered

LEMMA AwakenInv ==
  ASSUME Inv, NEW t \in Thread, Awaken(t),
         \/ phase = "run" /\ phase' = "enable"
         \/ phase \in {"handlers", "idle"} /\ phase' = phase
  PROVE  Inv'
<1> DEFINE k == Level(priority[t])
<1>1. k \in Levels
  BY LevelType, PriorityAssumption DEF Inv, TypeOK
<1>2. t \notin Queued(ready) /\ (t = current => phase = "idle")
  BY QueuedFacts DEF Awaken, Waiting, Inv, NoThreadLost
<1>3. ready \in Lists /\ Ordered(ready)
  BY DEF Inv, TypeOK, ListsOrdered
<1>4. /\ ready' \in Lists
      /\ Ordered(ready')
      /\ ready'.list[k] = ready.list[k] \cup {t}
      /\ \A j \in Levels : j # k => ready'.list[j] = ready.list[j]
  BY <1>1, <1>2, <1>3, AppendedSound DEF Awaken, ReadyToRun
<1>5. TypeOK'
  BY <1>4, TickAssumption
     DEF Awaken, Inv, TypeOK, Status, Phase, irqVars
<1>6. QueuedAtItsLevel'
  BY <1>1, <1>2, <1>4 DEF Awaken, Inv, TypeOK, QueuedAtItsLevel, Queued, Lists
<1>7. NoThreadLost'
  <2>1. \A u \in Queued(ready) \cup {t} : u \in Queued(ready')
    BY <1>1, <1>3, <1>4, QueuedIff
  <2> QED
    BY <1>2, <2>1 DEF Awaken, Inv, TypeOK, NoThreadLost
<1>8. CarcassSafe'
  BY DEF Awaken, Waiting, Inv, TypeOK, CarcassSafe
<1>9. RemainingIsWhatIsLeft'
  BY DEF Awaken, Inv, RemainingIsWhatIsLeft, Minus
<1> QED
  BY <1>4, <1>5, <1>6, <1>7, <1>8, <1>9 DEF Inv, ListsOrdered

LEMMA ResumeInv ==
  ASSUME Inv, Resume
  PROVE  Inv'
<1>1. TypeOK'
  BY TickAssumption DEF Resume, CheckToBeDestroyed, Inv, TypeOK, Status, Phase, irqVars
<1>2. QueuedAtItsLevel' /\ ListsOrdered'
  <2>1. \A k \in Levels : \A t \in ready.list[k] :
          t \in Thread /\ status[t] = "READY" /\ t # toBeDestroyed /\ t # current
    BY ThreadAssumption DEF Resume, CheckToBeDestroyed, Inv, CarcassSafe, QueuedAtItsLevel, TypeOK, Lists
  <2>2. \A t \in Thread : t # toBeDestroyed => status'[t] = status[t]
    BY DEF Resume, CheckToBeDestroyed
  <2>3. ready' = ready /\ priority' = priority /\ current' = current
    BY DEF Resume, CheckToBeDestroyed
  <2>4. \A k \in Levels : \A t \in ready.list[k] : Level(priority[t]) = k
    BY DEF Inv, QueuedAtItsLevel
  <2>5. QueuedAtItsLevel'
    BY <2>1, <2>2, <2>3, <2>4 DEF QueuedAtItsLevel
  <2> QED
    BY <2>3, <2>5 DEF Inv, ListsOrdered
<1>3. NoThreadLost' /\ CarcassSafe'
  BY ThreadAssumption DEF Resume, CheckToBeDestroyed, Inv, TypeOK, CarcassSafe, NoThreadLost
<1>4. RemainingIsWhatIsLeft'
  BY DEF Resume, CheckToBeDestroyed, Inv, RemainingIsWhatIsLeft, Minus
<1> QED
  BY <1>1, <1>2, <1>3, <1>4 DEF Inv

\* Run hands the CPU to a queued thread: what it needs of the lists and the
\* statuses it is given, and what it then keeps of the invariant.
LEMMA RunSound ==
  ASSUME Inv, NEW q \in Lists, Ordered(q), NEW n \in Queued(q),
         NEW st \in [Thread -> Status], NEW fin \in BOOLEAN,
         \A k \in Levels : \A t \in q.list[k] : st[t] = "READY" /\ Level(priority[t]) = k,
         \A t \in Thread : st[t] = "READY" => t \in Queued(q),
         \A t \in Thread : st[t] # "RUNNING",
         fin => st[current] = "BLOCKED",
         toBeDestroyed = NoThread, finishing' = FALSE, priority' = priority,
         Run(n, q, st, fin)
  PROVE  /\ QueuedAtItsLevel' /\ ListsOrdered' /\ NoThreadLost' /\ CarcassSafe'
         /\ ready' \in Lists
         /\ status' \in [Thread -> Status] /\ current' \in Thread
         /\ toBeDestroyed' \in Thread \cup {NoThread} /\ phase' \in Phase
<1>1. PICK l \in Levels : n \in q.list[l]
  BY QueuedIff
<1>2. n \in Thread /\ st[n] = "READY"
  BY <1>1 DEF Lists
<1>3. /\ ready' \in Lists
      /\ Ordered(ready')
      /\ \A j \in Levels : ready'.list[j] = q.list[j] \ {n}
  BY <1>2, RemovedSound DEF Run
<1>4. /\ status' = [st EXCEPT ![n] = "RUNNING"]
      /\ current' = n /\ phase' = "switch"
      /\ toBeDestroyed' = IF fin THEN current ELSE NoThread
  BY DEF Run
<1>5. current \in Thread
  BY DEF Inv, TypeOK
<1>6. /\ status' \in [Thread -> Status] /\ current' \in Thread /\ phase' \in Phase
      /\ toBeDestroyed' \in Thread \cup {NoThread}
  BY <1>2, <1>4, <1>5 DEF Status, Phase
<1>7. QueuedAtItsLevel'
  <2>1. ASSUME NEW k \in Levels, NEW t \in ready'.list[k]
        PROVE  status'[t] = "READY" /\ Level(priority[t]) = k /\ t # current'
    BY <1>3, <1>4, <2>1 DEF Lists
  <2> QED
    BY <2>1 DEF QueuedAtItsLevel, Level
<1>8. NoThreadLost'
  <2>1. ASSUME NEW t \in Thread, status'[t] = "READY"
        PROVE  t \in Queued(ready')
    <3>1. t # n /\ st[t] = "READY"
      BY <1>2, <1>4, <2>1
    <3>2. PICK k \in Levels : t \in q.list[k]
      BY <3>1, QueuedIff
    <3> QED
      BY <3>1, <3>2, <1>3, QueuedIff
  <2>2. ASSUME NEW t \in Thread, status'[t] = "RUNNING" PROVE t = current'
    BY <1>4, <2>2
  <2>3. status'[current'] = "RUNNING"
    BY <1>2, <1>4
  <2> QED
    BY <2>1, <2>2, <2>3, <1>4 DEF NoThreadLost
<1>9. CarcassSafe'
  <2>1. status'[current'] # "DELETED"
    BY <1>2, <1>4
  <2>2. CASE fin
    <3>1. current # n /\ status'[current] = "BLOCKED"
      BY <2>2, <1>2, <1>4, <1>5
    <3> QED
      BY <2>1, <2>2, <3>1, <1>4 DEF CarcassSafe
  <2>3. CASE ~fin
    BY <2>1, <2>3, <1>4 DEF CarcassSafe
  <2> QED
    BY <2>2, <2>3
<1> QED
  BY <1>3, <1>6, <1>7, <1>8, <1>9 DEF ListsOrdered

\* Outside "switch" no carcass waits to be deleted.
LEMMA NoCarcass ==
  ASSUME Inv, phase # "switch"
  PROVE  toBeDestroyed = NoThread
BY DEF Inv, CarcassSafe

\* The burst updates keep types and the meaning of remainingBurst.
LEMMA BurstToReadySound ==
  ASSUME Inv, BurstToReady
  PROVE  /\ approxBurst' \in [Thread -> 0 .. BurstCap]
         /\ totalBurst' \in [Thread -> 0 .. BurstCap]
         /\ remainingBurst' \in [Thread -> 0 .. BurstCap]
         /\ RemainingIsWhatIsLeft'
<1>1. /\ current \in Thread /\ ran \in 0 .. BurstCap
      /\ approxBurst \in [Thread -> 0 .. BurstCap]
      /\ totalBurst \in [Thread -> 0 .. BurstCap]
      /\ remainingBurst \in [Thread -> 0 .. BurstCap]
  BY DEF Inv, TypeOK
<1>2. BurstNow \in 0 .. BurstCap
  BY <1>1, ConstantTypes DEF BurstNow, MinOf
<1>3. Minus(approxBurst[current], BurstNow) \in 0 .. BurstCap
  BY <1>1, <1>2, ConstantTypes DEF Minus
<1>4. /\ approxBurst' = approxBurst
      /\ totalBurst' = [totalBurst EXCEPT ![current] = BurstNow]
      /\ remainingBurst' = [remainingBurst EXCEPT ![current] =
                              Minus(approxBurst[current], BurstNow)]
  BY DEF BurstToReady
<1>5. ASSUME NEW t \in Thread
      PROVE  remainingBurst'[t] = Minus(approxBurst'[t], totalBurst'[t])
  <2>1. CASE t = current
    BY <2>1, <1>1, <1>4
  <2>2. CASE t # current
    BY <2>2, <1>1, <1>4 DEF Inv, RemainingIsWhatIsLeft
  <2> QED
    BY <2>1, <2>2
<1>6. RemainingIsWhatIsLeft'
  BY <1>5 DEF RemainingIsWhatIsLeft, Minus
<1> QED
  BY <1>1, <1>2, <1>3, <1>4, <1>6

LEMMA BurstToWaitingSound ==
  ASSUME Inv, BurstToWaiting
  PROVE  /\ approxBurst' \in [Thread -> 0 .. BurstCap]
         /\ totalBurst' \in [Thread -> 0 .. BurstCap]
         /\ remainingBurst' \in [Thread -> 0 .. BurstCap]
         /\ RemainingIsWhatIsLeft'
<1> DEFINE estimate == (BurstNow + approxBurst[current]) \div 2
<1>1. /\ current \in Thread /\ ran \in 0 .. BurstCap
      /\ approxBurst \in [Thread -> 0 .. BurstCap]
      /\ totalBurst \in [Thread -> 0 .. BurstCap]
      /\ remainingBurst \in [Thread -> 0 .. BurstCap]
  BY DEF Inv, TypeOK
<1>2. BurstNow \in 0 .. BurstCap
  BY <1>1, ConstantTypes DEF BurstNow, MinOf
<1>3. estimate \in 0 .. BurstCap /\ 0 \in 0 .. BurstCap
  BY <1>1, <1>2, ConstantTypes
<1>4. /\ approxBurst' = [approxBurst EXCEPT ![current] = estimate]
      /\ totalBurst' = [totalBurst EXCEPT ![current] = 0]
      /\ remainingBurst' = [remainingBurst EXCEPT ![current] = estimate]
  BY DEF BurstToWaiting
<1> HIDE DEF estimate
<1>5. ASSUME NEW t \in Thread
      PROVE  remainingBurst'[t] = Minus(approxBurst'[t], totalBurst'[t])
  <2>1. CASE t = current
    <3>1. Minus(estimate, 0) = estimate
      BY <1>3, ConstantTypes DEF Minus
    <3> QED
      BY <2>1, <3>1, <1>1, <1>4
  <2>2. CASE t # current
    BY <2>2, <1>1, <1>4 DEF Inv, RemainingIsWhatIsLeft
  <2> QED
    BY <2>1, <2>2
<1>6. RemainingIsWhatIsLeft'
  BY <1>5 DEF RemainingIsWhatIsLeft, Minus
<1> QED
  BY <1>1, <1>3, <1>4, <1>6

LEMMA SleepInv ==
  ASSUME Inv, NEW fin \in BOOLEAN, Sleep(fin)
  PROVE  Inv'
<1> DEFINE st == [status EXCEPT ![current] = "BLOCKED"]
<1>1. /\ phase \in {"run", "again"} /\ BurstToWaiting
      /\ priority' = priority /\ yieldOnReturn' = yieldOnReturn /\ toTimer' = toTimer
      /\ current \in Thread /\ inP \subseteq Thread => inP' \subseteq Thread
  BY DEF Sleep, irqVars
<1>2. /\ ready \in Lists /\ Ordered(ready) /\ current \in Thread
      /\ status \in [Thread -> Status]
      /\ age \in [Thread -> 0 .. AgeCap] /\ 0 \in 0 .. AgeCap
  BY ConstantTypes DEF Inv, TypeOK, ListsOrdered
<1>3. st \in [Thread -> Status] /\ st[current] = "BLOCKED"
  BY <1>2 DEF Status
<1>4. \A t \in Queued(ready) : t \in Thread /\ t # current /\ status[t] = "READY"
  BY <1>1, QueuedFacts
<1>5. toBeDestroyed = NoThread /\ finishing = FALSE
  BY <1>1, NoCarcass DEF Inv, CarcassSafe, TypeOK
<1>6. \A k \in Levels : \A t \in ready.list[k] :
        st[t] = "READY" /\ Level(priority[t]) = k
  BY <1>2, <1>4, QueuedIff DEF Inv, QueuedAtItsLevel
<1>7. \A t \in Thread : /\ st[t] = "READY" => t \in Queued(ready)
                        /\ st[t] # "RUNNING"
  BY <1>1, <1>2 DEF Inv, NoThreadLost
<1>8. CASE \E n \in Thread : /\ FindNextToRun(ready, remainingBurst', n)
                             /\ Run(n, ready, st, fin)
                             /\ age' = [age EXCEPT ![n] = 0]
                             /\ finishing' = finishing
  <2>1. PICK n \in Thread : /\ FindNextToRun(ready, remainingBurst', n)
                            /\ Run(n, ready, st, fin)
                            /\ age' = [age EXCEPT ![n] = 0]
                            /\ finishing' = finishing
    BY <1>8
  <2>2. n \in Queued(ready)
    BY <1>2, <2>1, FindNextQueued
  <2> HIDE DEF st
  <2>3. /\ QueuedAtItsLevel' /\ ListsOrdered' /\ NoThreadLost' /\ CarcassSafe'
        /\ ready' \in Lists
        /\ status' \in [Thread -> Status] /\ current' \in Thread
        /\ toBeDestroyed' \in Thread \cup {NoThread} /\ phase' \in Phase
    BY <1>1, <1>2, <1>3, <1>5, <1>6, <1>7, <2>1, <2>2, RunSound
  <2>4. age' \in [Thread -> 0 .. AgeCap] /\ ran' \in 0 .. BurstCap
    BY <1>2, <2>1, ConstantTypes DEF Run
  <2>5. TypeOK'
    BY <1>1, <2>1, <2>3, <2>4, BurstToWaitingSound DEF Inv, TypeOK
  <2> QED
    BY <1>1, <2>3, <2>5, BurstToWaitingSound DEF Inv
<1>9. CASE /\ Queued(ready) = {}
           /\ phase' = "idle"
           /\ status' = st
           /\ finishing' = fin
           /\ UNCHANGED <<ready, age, current, ran, toBeDestroyed>>
  <2>1. TypeOK'
    BY <1>1, <1>3, <1>9, BurstToWaitingSound DEF Inv, TypeOK, Phase
  <2>2. QueuedAtItsLevel' /\ ListsOrdered'
    <3>1. \A k \in Levels : ready.list[k] = {}
      BY <1>2, <1>9, QueuedIff
    <3> QED
      BY <3>1, <1>9 DEF QueuedAtItsLevel, Inv, ListsOrdered
  <2>3. NoThreadLost'
    BY <1>3, <1>7, <1>9 DEF NoThreadLost
  <2>4. CarcassSafe'
    BY <1>3, <1>5, <1>9 DEF CarcassSafe
  <2> QED
    BY <1>1, <2>1, <2>2, <2>3, <2>4, BurstToWaitingSound DEF Inv
<1> QED
  BY <1>8, <1>9 DEF Sleep

LEMMA YieldInv ==
  ASSUME Inv, phase = "handlers", Yield,
         yieldOnReturn' = FALSE, toTimer' = toTimer
  PROVE  Inv'
<1> DEFINE k == Level(priority[current])
           q == ReadyToRun(ready, current)
           st == [status EXCEPT ![current] = "READY"]
<1>1. /\ BurstToReady
      /\ priority' = priority /\ finishing' = finishing /\ inP' = inP
  BY DEF Yield
<1>2. /\ ready \in Lists /\ Ordered(ready) /\ current \in Thread
      /\ status \in [Thread -> Status] /\ priority \in [Thread -> 0 .. MaxPriority]
      /\ age \in [Thread -> 0 .. AgeCap] /\ 0 \in 0 .. AgeCap
  BY ConstantTypes DEF Inv, TypeOK, ListsOrdered
<1>3. k \in Levels
  BY <1>2, LevelType, ConstantTypes
<1>4. \A t \in Queued(ready) : t \in Thread /\ t # current /\ status[t] = "READY"
  BY QueuedFacts
<1>5. /\ q \in Lists /\ Ordered(q)
      /\ q.list[k] = ready.list[k] \cup {current}
      /\ \A j \in Levels : j # k => q.list[j] = ready.list[j]
  BY <1>2, <1>3, <1>4, AppendedSound DEF ReadyToRun
<1>6. toBeDestroyed = NoThread /\ finishing = FALSE
  BY NoCarcass DEF Inv, CarcassSafe, TypeOK
<1>7. st \in [Thread -> Status] /\ st[current] = "READY"
  BY <1>2 DEF Status
<1>8. \A j \in Levels : \A t \in q.list[j] :
        st[t] = "READY" /\ Level(priority[t]) = j
  <2>1. ASSUME NEW j \in Levels, NEW t \in q.list[j]
        PROVE  st[t] = "READY" /\ Level(priority[t]) = j
    <3>1. CASE t = current
      <4>1. j = k
        BY <3>1, <2>1, <1>2, <1>4, <1>5, QueuedIff
      <4> QED
        BY <3>1, <4>1, <1>7
    <3>2. CASE t # current
      <4>1. t \in ready.list[j]
        BY <3>2, <2>1, <1>3, <1>5
      <4>2. t \in Queued(ready)
        BY <4>1, <1>2, QueuedIff
      <4> QED
        BY <3>2, <4>1, <4>2, <1>2, <1>4 DEF Inv, QueuedAtItsLevel
    <3> QED
      BY <3>1, <3>2
  <2> QED
    BY <2>1
<1>9. current \in Queued(q)
  BY <1>3, <1>5, QueuedIff
<1>10. \A t \in Thread : /\ st[t] = "READY" => t \in Queued(q)
                         /\ st[t] # "RUNNING"
  <2>1. \A t \in Queued(ready) : t \in Queued(q)
    BY <1>2, <1>3, <1>5, QueuedIff
  <2> QED
    BY <2>1, <1>2, <1>9 DEF Inv, NoThreadLost
<1> HIDE DEF k, q, st
<1>11. PICK n \in Thread :
         /\ FindNextToRun(q, remainingBurst', n)
         /\ age' = [age EXCEPT ![current] = 0, ![n] = 0]
         /\ IF n = current
            THEN /\ ready' = Removed(q, n)
                 /\ status' = st
                 /\ phase' = "enable"
                 /\ UNCHANGED <<current, ran, toBeDestroyed>>
            ELSE Run(n, q, st, FALSE)
  BY DEF Yield, q, st
<1>12. n \in Queued(q)
  BY <1>5, <1>11, FindNextQueued
<1>13. age' \in [Thread -> 0 .. AgeCap]
  BY <1>2, <1>11
<1>14. CASE n = current
  <2>1. /\ ready' \in Lists /\ Ordered(ready')
        /\ \A j \in Levels : ready'.list[j] = q.list[j] \ {n}
    BY <1>2, <1>5, <1>11, <1>14, RemovedSound
  <2>2. /\ status' = st /\ phase' = "enable" /\ current' = current
        /\ ran' = ran /\ toBeDestroyed' = toBeDestroyed
    BY <1>11, <1>14
  <2>3. TypeOK'
    <3>1. phase' \in Phase
      BY <2>2 DEF Phase
    <3> QED
      BY <1>1, <1>7, <1>13, <2>1, <2>2, <3>1, BurstToReadySound DEF Inv, TypeOK
  <2>4. QueuedAtItsLevel'
    BY <1>1, <1>8, <1>14, <2>1, <2>2 DEF QueuedAtItsLevel
  <2>5. NoThreadLost'
    <3>1. ASSUME NEW t \in Thread, status'[t] = "READY", t # current'
          PROVE  t \in Queued(ready')
      <4>1. PICK j \in Levels : t \in q.list[j]
        BY <1>5, <1>10, <2>2, <3>1, QueuedIff
      <4> QED
        BY <4>1, <1>14, <2>1, <2>2, <3>1, QueuedIff
    <3> QED
      BY <3>1, <1>7, <1>10, <2>2 DEF NoThreadLost
  <2>6. CarcassSafe'
    BY <1>1, <1>6, <1>7, <2>2 DEF CarcassSafe
  <2> QED
    BY <1>1, <2>1, <2>3, <2>4, <2>5, <2>6, BurstToReadySound DEF Inv, ListsOrdered
<1>15. CASE n # current
  <2>1. Run(n, q, st, FALSE)
    BY <1>11, <1>15
  <2>2. /\ QueuedAtItsLevel' /\ ListsOrdered' /\ NoThreadLost' /\ CarcassSafe'
        /\ ready' \in Lists
        /\ status' \in [Thread -> Status] /\ current' \in Thread
        /\ toBeDestroyed' \in Thread \cup {NoThread} /\ phase' \in Phase
    BY <1>1, <1>5, <1>6, <1>7, <1>8, <1>10, <1>12, <2>1, RunSound
  <2>3. ran' \in 0 .. BurstCap
    BY <2>1, ConstantTypes DEF Run
  <2>4. TypeOK'
    BY <1>1, <1>13, <2>2, <2>3, BurstToReadySound DEF Inv, TypeOK
  <2> QED
    BY <1>1, <2>2, <2>4, BurstToReadySound DEF Inv
<1> QED
  BY <1>14, <1>15

LEMMA ReturnFromHandlersInv ==
  ASSUME Inv, ReturnFromHandlers
  PROVE  Inv'
<1>1. CASE yieldOnReturn
  BY <1>1, YieldInv DEF ReturnFromHandlers
<1>2. CASE ~yieldOnReturn
  <2>1. /\ phase = "handlers" /\ phase' = "run" /\ yieldOnReturn' = FALSE
        /\ UNCHANGED <<toTimer, threadVars, ready, current, ran, toBeDestroyed, finishing>>
    BY <1>2 DEF ReturnFromHandlers
  <2>2. TypeOK'
    BY <2>1 DEF Inv, TypeOK, threadVars, Phase
  <2>3. QueuedAtItsLevel' /\ ListsOrdered'
    BY <2>1 DEF Inv, QueuedAtItsLevel, ListsOrdered, threadVars
  <2>4. NoThreadLost' /\ CarcassSafe'
    BY <2>1 DEF Inv, NoThreadLost, CarcassSafe, threadVars
  <2>5. RemainingIsWhatIsLeft'
    BY <2>1 DEF Inv, RemainingIsWhatIsLeft, threadVars, Minus
  <2> QED
    BY <2>2, <2>3, <2>4, <2>5 DEF Inv
<1> QED
  BY <1>1, <1>2 DEF Inv, TypeOK

\* The clock moves: only ages and the time to the timer interrupt change.
LEMMA AdvanceClockType ==
  ASSUME Inv, NEW d \in Nat, AdvanceClock(d)
  PROVE  age' \in [Thread -> 0 .. AgeCap] /\ toTimer' \in 0 .. 2 * TimerTicks
<1>1. /\ age \in [Thread -> 0 .. AgeCap]
      /\ toTimer \in 0 .. 2 * TimerTicks
  BY DEF Inv, TypeOK
<1>2. toTimer' \in 0 .. 2 * TimerTicks
  BY <1>1, ConstantTypes DEF AdvanceClock, Minus
<1>3. \A t \in Thread : MinOf(AgeCap, age[t] + d) \in 0 .. AgeCap
  BY <1>1, ConstantTypes DEF MinOf
<1> QED
  BY <1>1, <1>2, <1>3 DEF AdvanceClock

LEMMA OneTickInv ==
  ASSUME Inv, OneTick
  PROVE  Inv'
<1>1. PICK d \in Nat : AdvanceClock(d) /\ ran' = MinOf(BurstCap, ran + d)
  BY ConstantTypes DEF OneTick
<1>2. ran' \in 0 .. BurstCap
  BY <1>1, ConstantTypes DEF MinOf, Inv, TypeOK
<1>3. /\ phase \in {"run", "enable"} /\ phase' = "handlers"
      /\ UNCHANGED <<status, priority, approxBurst, totalBurst, remainingBurst,
                     inP, ready, current, toBeDestroyed, finishing, yieldOnReturn>>
  BY DEF OneTick
<1>4. TypeOK'
  BY <1>1, <1>2, <1>3, AdvanceClockType DEF Inv, TypeOK, Phase
<1>5. QueuedAtItsLevel' /\ ListsOrdered'
  BY <1>3 DEF Inv, QueuedAtItsLevel, ListsOrdered
<1>6. NoThreadLost' /\ CarcassSafe'
  BY <1>3 DEF Inv, NoThreadLost, CarcassSafe
<1>7. RemainingIsWhatIsLeft'
  BY <1>3 DEF Inv, RemainingIsWhatIsLeft, Minus
<1> QED
  BY <1>4, <1>5, <1>6, <1>7 DEF Inv

LEMMA IdleTickInv ==
  ASSUME Inv, IdleTick
  PROVE  Inv'
<1>1. /\ AdvanceClock(1)
      /\ UNCHANGED <<status, priority, approxBurst, totalBurst, remainingBurst,
                     inP, ready, cpuVars, yieldOnReturn>>
  BY DEF IdleTick
<1>2. TypeOK'
  BY <1>1, AdvanceClockType DEF Inv, TypeOK, cpuVars
<1>3. QueuedAtItsLevel' /\ ListsOrdered'
  BY <1>1 DEF Inv, QueuedAtItsLevel, ListsOrdered, cpuVars
<1>4. NoThreadLost' /\ CarcassSafe'
  BY <1>1 DEF Inv, NoThreadLost, CarcassSafe, cpuVars
<1>5. RemainingIsWhatIsLeft'
  BY <1>1 DEF Inv, RemainingIsWhatIsLeft, Minus
<1> QED
  BY <1>2, <1>3, <1>4, <1>5 DEF Inv

LEMMA TimerHandlerInv ==
  ASSUME Inv, TimerHandler
  PROVE  Inv'
<1>1. /\ phase \in {"handlers", "idle"}
      /\ UpdateAging
      /\ toTimer' \in Slice
      /\ UNCHANGED <<status, approxBurst, totalBurst, remainingBurst, inP, cpuVars>>
  BY DEF TimerHandler
<1>2. /\ AgedLists \in Lists
      /\ Ordered(AgedLists)
      /\ \A k \in Levels : \A t \in AgedLists.list[k] :
           t \in Queued(ready) /\ Level(AgedPriority(t)) = k
      /\ Queued(AgedLists) = Queued(ready)
  BY AgedListsSound DEF Inv
<1>3. /\ ready' = AgedLists
      /\ priority' = [t \in Thread |->
                       IF t \in Queued(ready) THEN AgedPriority(t) ELSE priority[t]]
      /\ age' = [t \in Thread |-> IF t \in Queued(ready) THEN AgedAge(t) ELSE age[t]]
  BY <1>1 DEF UpdateAging
<1>4. yieldOnReturn' \in BOOLEAN
  <2>1. yieldOnReturn \in BOOLEAN
    BY DEF Inv, TypeOK
  <2> QED
    BY <2>1 DEF TimerHandler
<1>5. /\ priority' \in [Thread -> 0 .. MaxPriority]
      /\ age' \in [Thread -> 0 .. AgeCap]
  <2>1. ASSUME NEW t \in Thread
        PROVE  /\ AgedPriority(t) \in 0 .. MaxPriority /\ AgedAge(t) \in 0 .. AgeCap
               /\ priority[t] \in 0 .. MaxPriority /\ age[t] \in 0 .. AgeCap
    BY AgedType DEF Inv, TypeOK
  <2> QED
    BY <1>3, <2>1
<1>6. TypeOK'
  <2>1. toTimer' \in 0 .. 2 * TimerTicks
    BY <1>1, SliceType, ConstantTypes
  <2> QED
    BY <1>1, <1>2, <1>3, <1>4, <1>5, <2>1 DEF Inv, TypeOK, cpuVars
<1>7. QueuedAtItsLevel'
  <2>1. ASSUME NEW k \in Levels, NEW t \in ready'.list[k]
        PROVE  /\ status'[t] = "READY" /\ Level(priority'[t]) = k
               /\ t = current' => phase' = "idle"
    <3>1. t \in Queued(ready) /\ Level(AgedPriority(t)) = k
      BY <1>2, <1>3, <2>1
    <3>2. t \in Thread /\ status[t] = "READY" /\ (t = current => phase = "idle")
      BY <3>1, QueuedFacts
    <3> QED
      BY <1>1, <1>3, <3>1, <3>2 DEF cpuVars
  <2> QED
    BY <2>1 DEF QueuedAtItsLevel
<1>8. ListsOrdered'
  BY <1>2, <1>3 DEF ListsOrdered
<1>9. NoThreadLost' /\ CarcassSafe'
  <2>1. Queued(ready') = Queued(ready)
    BY <1>2, <1>3
  <2> QED
    BY <1>1, <2>1 DEF Inv, NoThreadLost, CarcassSafe, cpuVars
<1>10. RemainingIsWhatIsLeft'
  BY <1>1 DEF Inv, RemainingIsWhatIsLeft, Minus
<1> QED
  BY <1>6, <1>7, <1>8, <1>9, <1>10 DEF Inv

LEMMA IdleDispatchInv ==
  ASSUME Inv, IdleDispatch
  PROVE  Inv'
<1>1. PICK n \in Thread : /\ FindNextToRun(ready, remainingBurst, n)
                          /\ Run(n, ready, status, finishing)
                          /\ age' = [age EXCEPT ![n] = 0]
  BY DEF IdleDispatch
<1>2. /\ phase = "idle" /\ finishing' = FALSE
      /\ UNCHANGED <<priority, approxBurst, totalBurst, remainingBurst, inP, irqVars>>
  BY DEF IdleDispatch
<1>3. /\ ready \in Lists /\ Ordered(ready)
      /\ status \in [Thread -> Status] /\ finishing \in BOOLEAN
      /\ age \in [Thread -> 0 .. AgeCap] /\ 0 \in 0 .. AgeCap
  BY ConstantTypes DEF Inv, TypeOK, ListsOrdered
<1>4. n \in Queued(ready)
  BY <1>1, <1>3, FindNextQueued
<1>5. \A k \in Levels : \A t \in ready.list[k] :
        status[t] = "READY" /\ Level(priority[t]) = k
  BY DEF Inv, QueuedAtItsLevel
<1>6. \A t \in Thread : /\ status[t] = "READY" => t \in Queued(ready)
                        /\ status[t] # "RUNNING"
  BY <1>2 DEF Inv, NoThreadLost
<1>7. toBeDestroyed = NoThread /\ (finishing => status[current] = "BLOCKED")
  BY <1>2, NoCarcass DEF Inv, CarcassSafe
<1>8. /\ QueuedAtItsLevel' /\ ListsOrdered' /\ NoThreadLost' /\ CarcassSafe'
      /\ ready' \in Lists
      /\ status' \in [Thread -> Status] /\ current' \in Thread
      /\ toBeDestroyed' \in Thread \cup {NoThread} /\ phase' \in Phase
  BY <1>1, <1>2, <1>3, <1>4, <1>5, <1>6, <1>7, RunSound
<1>9. TypeOK'
  <2>1. age' \in [Thread -> 0 .. AgeCap] /\ ran' \in 0 .. BurstCap
    BY <1>1, <1>3, ConstantTypes DEF Run
  <2> QED
    BY <1>2, <1>8, <2>1 DEF Inv, TypeOK, irqVars
<1>10. RemainingIsWhatIsLeft'
  BY <1>2 DEF Inv, RemainingIsWhatIsLeft, Minus
<1> QED
  BY <1>8, <1>9, <1>10 DEF Inv

LEMMA StutterInv ==
  ASSUME Inv, UNCHANGED vars
  PROVE  Inv'
<1>1. UNCHANGED <<status, priority, approxBurst, totalBurst, remainingBurst, age, inP, ready,
                  current, ran, toBeDestroyed, phase, finishing, yieldOnReturn, toTimer>>
  BY DEF vars, threadVars, cpuVars, irqVars
<1>2. TypeOK'
  BY <1>1 DEF Inv, TypeOK
<1>3. QueuedAtItsLevel' /\ ListsOrdered'
  BY <1>1 DEF Inv, QueuedAtItsLevel, ListsOrdered
<1>4. NoThreadLost' /\ CarcassSafe'
  BY <1>1 DEF Inv, NoThreadLost, CarcassSafe
<1>5. RemainingIsWhatIsLeft'
  BY <1>1 DEF Inv, RemainingIsWhatIsLeft, Minus
<1> QED
  BY <1>2, <1>3, <1>4, <1>5 DEF Inv

LEMMA NextInv == Inv /\ [Next]_vars => Inv'
<1> SUFFICES ASSUME Inv, [Next]_vars PROVE Inv'
  OBVIOUS
<1>1. CASE \E t \in Thread, p \in InitialPriority : Exec(t, p)
  BY <1>1, ExecInv
<1>2. CASE \E t \in Thread : Wake(t)
  BY <1>2, AwakenInv DEF Wake
<1>3. CASE \E t \in Thread : DeviceHandler(t)
  BY <1>3, AwakenInv DEF DeviceHandler
<1>4. CASE \E fin \in BOOLEAN : Sleep(fin)
  BY <1>4, SleepInv
<1>5. CASE Resume
  BY <1>5, ResumeInv
<1>6. CASE OneTick
  BY <1>6, OneTickInv
<1>7. CASE TimerHandler
  BY <1>7, TimerHandlerInv
<1>8. CASE ReturnFromHandlers
  BY <1>8, ReturnFromHandlersInv
<1>9. CASE IdleTick
  BY <1>9, IdleTickInv
<1>10. CASE IdleDispatch
  BY <1>10, IdleDispatchInv
<1>11. CASE UNCHANGED vars
  BY <1>11, StutterInv
<1> QED
  BY <1>1, <1>2, <1>3, <1>4, <1>5, <1>6, <1>7, <1>8, <1>9, <1>10, <1>11 DEF Next

-------------------------------------------------------------------------------
(***************************************************************************)
(* For any number of threads, priorities, thresholds and tick lengths.     *)
(***************************************************************************)

\* The inductive invariant of scheduler.cc, thread.cc and alarm.cc.
THEOREM Invariance == Spec => []Inv
<1>1. Init => Inv
  BY InitInv
<1>2. Inv /\ [Next]_vars => Inv'
  BY NextInv
<1> QED
  BY <1>1, <1>2, PTL DEF Spec

\* Priorities stay in 0..149, lists hold threads: every variable keeps its type.
THEOREM TypeCorrectness == Spec => []TypeOK
<1>1. Inv => TypeOK
  BY DEF Inv
<1> QED
  BY <1>1, Invariance, PTL

\* A queued thread is ready, does not run and is on the list of its priority.
THEOREM LevelsAgree == Spec => []QueuedAtItsLevel
<1>1. Inv => QueuedAtItsLevel
  BY DEF Inv
<1> QED
  BY <1>1, Invariance, PTL

\* The ready lists stay disjoint and totally ordered under ageing.
THEOREM ListsStayLists == Spec => []ListsOrdered
<1>1. Inv => ListsOrdered
  BY DEF Inv
<1> QED
  BY <1>1, Invariance, PTL

\* Every ready thread is on a list or is the current thread.
THEOREM NobodyLost == Spec => []NoThreadLost
<1>1. Inv => NoThreadLost
  BY DEF Inv
<1> QED
  BY <1>1, Invariance, PTL

\* The assertions of Scheduler::Run and Thread::~Thread hold.
THEOREM DestroyedOnce == Spec => []CarcassSafe
<1>1. Inv => CarcassSafe
  BY DEF Inv
<1> QED
  BY <1>1, Invariance, PTL

\* remainingBurst, which SJF compares, is what is left of the estimate.
THEOREM BurstAccounting == Spec => []RemainingIsWhatIsLeft
<1>1. Inv => RemainingIsWhatIsLeft
  BY DEF Inv
<1> QED
  BY <1>1, Invariance, PTL

-------------------------------------------------------------------------------
(* The scheduler implements ProcessLifecycle. *)

\* A thread that called Finish.
Finished(t) == status[t] = "DELETED" \/ t = toBeDestroyed \/ (finishing /\ t = current)

OnTheCPU(t) == t = current /\ phase # "idle"

LEMMA FinishedFacts ==
  ASSUME Inv, NEW t \in Thread
  PROVE  /\ Finished(t) => ~ OnTheCPU(t) /\ status[t] \in {"BLOCKED", "DELETED"}
         /\ OnTheCPU(t) => status[t] \in {"RUNNING", "READY"}
  BY ThreadAssumption DEF Inv, CarcassSafe, NoThreadLost, TypeOK, Finished, OnTheCPU

\* The cases of proc exclude each other.
LEMMA ProcOf ==
  ASSUME Inv, NEW t \in Thread
  PROVE  proc[t] = IF status[t] = "NULL" THEN "new"
                   ELSE IF Finished(t) THEN "terminated"
                   ELSE IF OnTheCPU(t) THEN "running"
                   ELSE IF status[t] = "READY" THEN "ready" ELSE "waiting"
  BY FinishedFacts DEF proc, Finished, OnTheCPU

\* The lists hold the threads that are ready.
LEMMA ReadyIffQueued ==
  ASSUME Inv, NEW t \in Thread
  PROVE  proc[t] = "ready" <=> t \in Queued(ready)
<1>1. t \in Queued(ready) => status[t] = "READY" /\ (t = current => phase = "idle")
  BY QueuedIff DEF Inv, TypeOK, QueuedAtItsLevel
<1>2. status[t] = "READY" => ~ Finished(t)
  BY FinishedFacts
<1>3. status[t] = "READY" => t \in Queued(ready) \/ OnTheCPU(t)
  BY DEF Inv, NoThreadLost, OnTheCPU
<1> QED
  BY <1>1, <1>2, <1>3, ProcOf DEF OnTheCPU

LEMMA RunningIsCurrent ==
  ASSUME Inv PROVE Lifecycle!Running = IF phase = "idle" THEN {} ELSE {current}
<1>1. \A t \in Thread : proc[t] = "running" <=> OnTheCPU(t)
  <2> SUFFICES ASSUME NEW t \in Thread PROVE proc[t] = "running" <=> OnTheCPU(t)
    OBVIOUS
  <2> QED
    BY ProcOf, FinishedFacts
<1>2. current \in Thread
  BY DEF Inv, TypeOK
<1> QED
  BY <1>1, <1>2 DEF Lifecycle!Running, OnTheCPU

LEMMA InitRefines == Init => Lifecycle!Init
  BY ThreadAssumption DEF Init, Lifecycle!Init, proc

\* proc, where the invariant holds.
Life(t) ==
  IF status[t] = "NULL" THEN "new"
  ELSE IF Finished(t) THEN "terminated"
  ELSE IF OnTheCPU(t) THEN "running"
  ELSE IF status[t] = "READY" THEN "ready" ELSE "waiting"

LEMMA ProcBefore == Inv => \A t \in Thread : proc[t] = Life(t)
  BY ProcOf DEF Life

LEMMA ProcAfter == Inv' => \A t \in Thread : proc[t]' = Life(t)'
<1>1. Inv' => (\A t \in Thread : proc[t] = Life(t))'
  BY ProcBefore, PTL
<1> QED
  BY <1>1

LEMMA ProcIsAFunction ==
  /\ proc = [t \in Thread |-> proc[t]] /\ proc' = [t \in Thread |-> proc'[t]]
<1> DEFINE f(t) == CASE status[t] = "NULL" -> "new"
                     [] status[t] = "DELETED" \/ t = toBeDestroyed \/ (finishing /\ t = current)
                          -> "terminated"
                     [] t = current /\ phase # "idle" -> "running"
                     [] status[t] = "READY" /\ (t # current \/ phase = "idle") -> "ready"
                     [] OTHER -> "waiting"
<1>1. proc = [t \in Thread |-> f(t)] /\ proc' = [t \in Thread |-> f(t)']
  BY DEF proc
<1> HIDE DEF f
<1> QED
  BY <1>1

\* A step that changes nobody's life.
LEMMA LifeGoesOn ==
  ASSUME Inv, Inv', \A t \in Thread : Life(t)' = Life(t) PROVE proc' = proc
<1>1. \A t \in Thread : proc'[t] = proc[t]
  BY ProcBefore, ProcAfter
<1> QED
  BY <1>1, ProcIsAFunction

\* A step that changes the life of t, or of t and of n.
LEMMA LifeChanges ==
  ASSUME Inv, Inv', NEW t \in Thread, NEW s, Life(t)' = s,
         \A u \in Thread \ {t} : Life(u)' = Life(u)
  PROVE  proc' = [proc EXCEPT ![t] = s]
<1>1. \A u \in Thread : proc'[u] = IF u = t THEN s ELSE proc[u]
  BY ProcBefore, ProcAfter
<1> QED
  BY <1>1, ProcIsAFunction

LEMMA LivesChange ==
  ASSUME Inv, Inv', NEW t \in Thread, NEW n \in Thread, NEW s, NEW r, t # n,
         Life(t)' = s, Life(n)' = r, \A u \in Thread \ {t, n} : Life(u)' = Life(u)
  PROVE  proc' = [proc EXCEPT ![t] = s, ![n] = r]
<1>1. \A u \in Thread : proc'[u] = IF u = n THEN r ELSE IF u = t THEN s ELSE proc[u]
  BY ProcBefore, ProcAfter
<1> QED
  BY <1>1, ProcIsAFunction

LEMMA CurrentType ==
  Inv => current \in Thread /\ status \in [Thread -> Status]
BY DEF Inv, TypeOK

LEMMA ExecRefines ==
  ASSUME Inv, Inv', NEW t \in Thread, NEW p \in InitialPriority, Exec(t, p)
  PROVE  Lifecycle!Admit(t)
<1>1. /\ phase = "run" /\ status[t] = "NULL" /\ status' = [status EXCEPT ![t] = "READY"]
      /\ phase' = "enable" /\ UNCHANGED <<current, toBeDestroyed, finishing>>
  BY DEF Exec
<1>2. proc[t] = "new" /\ ~ Finished(t) /\ ~ OnTheCPU(t)
  BY <1>1, ProcBefore, FinishedFacts DEF Life
<1>3. Life(t)' = "ready"
  BY <1>1, <1>2, CurrentType DEF Life, Finished, OnTheCPU
<1>4. \A u \in Thread \ {t} : Life(u)' = Life(u)
  BY <1>1, CurrentType DEF Life, Finished, OnTheCPU
<1>5. proc' = [proc EXCEPT ![t] = "ready"]
  BY <1>3, <1>4, LifeChanges
<1>6. Lifecycle!Running # {}
  BY <1>1, RunningIsCurrent
<1> QED
  BY <1>2, <1>5, <1>6 DEF Lifecycle!Admit

LEMMA AwakenRefines ==
  ASSUME Inv, Inv', NEW t \in Thread, Awaken(t),
         \/ phase' = phase
         \/ phase = "run" /\ phase' = "enable"
  PROVE  Lifecycle!Wakeup(t)
<1>1. /\ status[t] = "BLOCKED" /\ t # toBeDestroyed /\ ~(finishing /\ t = current)
      /\ status' = [status EXCEPT ![t] = "READY"]
      /\ UNCHANGED <<current, toBeDestroyed, finishing>>
  BY DEF Awaken, Waiting
<1>2. ~ Finished(t) /\ ~ OnTheCPU(t)
  BY <1>1, FinishedFacts DEF Finished
<1>3. proc[t] = "waiting"
  BY <1>1, <1>2, ProcBefore DEF Life
<1>4. Life(t)' = "ready"
  BY <1>1, <1>2, CurrentType DEF Life, Finished, OnTheCPU
<1>5. \A u \in Thread \ {t} : Life(u)' = Life(u)
  BY <1>1, CurrentType DEF Life, Finished, OnTheCPU
<1> QED
  BY <1>3, <1>4, <1>5, LifeChanges DEF Lifecycle!Wakeup

LEMMA SleepRefines ==
  ASSUME Inv, Inv', NEW fin \in BOOLEAN, Sleep(fin)
  PROVE  \E t \in Thread, s \in {"waiting", "terminated"} :
           Lifecycle!Stall(t, s) \/ \E n \in Thread : Lifecycle!Handover(t, n, s)
<1> DEFINE s == IF fin THEN "terminated" ELSE "waiting"
<1>1. /\ phase \in {"run", "again"} /\ current \in Thread /\ status \in [Thread -> Status]
      /\ toBeDestroyed = NoThread /\ finishing = FALSE
  BY NoCarcass, CurrentType DEF Sleep, Inv, CarcassSafe, TypeOK
<1>2. proc[current] = "running"
  BY <1>1, ProcBefore, FinishedFacts DEF Life, OnTheCPU
<1>3. ASSUME NEW n \in Thread, FindNextToRun(ready, remainingBurst', n),
             Run(n, ready, [status EXCEPT ![current] = "BLOCKED"], fin),
             finishing' = finishing
      PROVE  Lifecycle!Handover(current, n, s)
  <2>1. n \in Queued(ready) /\ n # current
    BY <1>1, <1>3, FindNextQueued, QueuedFacts DEF Inv, TypeOK
  <2>2. proc[n] = "ready"
    BY <2>1, ReadyIffQueued
  <2>3. /\ status' = [status EXCEPT ![current] = "BLOCKED", ![n] = "RUNNING"]
        /\ current' = n /\ phase' = "switch"
        /\ toBeDestroyed' = IF fin THEN current ELSE NoThread
    BY <1>1, <1>3 DEF Run
  <2>4. \A u \in Thread : u = current => Life(u)' = s
    BY <1>1, <1>3, <2>1, <2>3, ThreadAssumption DEF Life, Finished, OnTheCPU
  <2>5. Life(n)' = "running"
    BY <1>1, <1>3, <2>1, <2>3, ThreadAssumption DEF Life, Finished, OnTheCPU
  <2>6. \A u \in Thread \ {current, n} : Life(u)' = Life(u)
    BY <1>1, <1>3, <2>1, <2>3, ThreadAssumption DEF Life, Finished, OnTheCPU
  <2>7. proc' = [proc EXCEPT ![current] = s, ![n] = "running"]
    <3> HIDE DEF s
    <3>1. PICK c \in Thread : c = current
      BY <1>1
    <3> QED
      BY <2>1, <2>4, <2>5, <2>6, <3>1, LivesChange
  <2> QED
    BY <1>2, <2>2, <2>7 DEF Lifecycle!Handover
<1>4. ASSUME Queued(ready) = {}, phase' = "idle", finishing' = fin,
             status' = [status EXCEPT ![current] = "BLOCKED"],
             UNCHANGED <<current, toBeDestroyed>>
      PROVE  Lifecycle!Stall(current, s)
  <2>1. Lifecycle!Ready = {}
    BY <1>4, ReadyIffQueued DEF Lifecycle!Ready
  <2>2. \A u \in Thread : u = current => Life(u)' = s
    BY <1>1, <1>4, ThreadAssumption DEF Life, Finished, OnTheCPU
  <2>3. \A u \in Thread \ {current} : Life(u)' = Life(u)
    BY <1>1, <1>4, ThreadAssumption DEF Life, Finished, OnTheCPU
  <2>4. proc' = [proc EXCEPT ![current] = s]
    <3> HIDE DEF s
    <3>1. PICK c \in Thread : c = current
      BY <1>1
    <3> QED
      BY <2>2, <2>3, <3>1, LifeChanges
  <2> QED
    BY <1>2, <2>1, <2>4 DEF Lifecycle!Stall
<1>5. s \in {"waiting", "terminated"}
  OBVIOUS
<1> HIDE DEF s
<1> QED
  BY <1>1, <1>3, <1>4, <1>5 DEF Sleep

LEMMA YieldRefines ==
  ASSUME Inv, Inv', phase = "handlers", Yield
  PROVE  \/ proc' = proc
         \/ \E t, n \in Thread : Lifecycle!Handover(t, n, "ready")
<1> DEFINE q == ReadyToRun(ready, current)
           st == [status EXCEPT ![current] = "READY"]
<1>1. /\ current \in Thread /\ status \in [Thread -> Status]
      /\ toBeDestroyed = NoThread /\ finishing = FALSE /\ finishing' = finishing
  BY NoCarcass, CurrentType DEF Yield, Inv, CarcassSafe, TypeOK
<1>2. PICK n \in Thread :
        /\ FindNextToRun(q, remainingBurst', n)
        /\ IF n = current
           THEN status' = st /\ phase' = "enable" /\ UNCHANGED <<current, toBeDestroyed>>
           ELSE Run(n, q, st, FALSE)
  BY DEF Yield
<1>3. status[current] \in {"RUNNING", "READY"}
  BY DEF Inv, NoThreadLost
<1>4. CASE n = current
  <2>1. status' = st /\ phase' = "enable" /\ UNCHANGED <<current, toBeDestroyed>>
    BY <1>2, <1>4
  <2>2. \A t \in Thread : Life(t)' = Life(t)
    BY <1>1, <1>3, <2>1, ThreadAssumption DEF Life, Finished, OnTheCPU
  <2> QED
    BY <2>2, LifeGoesOn
<1>5. CASE n # current
  <2>1. n \in Queued(ready)
    <3>1. Level(priority[current]) \in Levels
      BY <1>1, LevelType, ConstantTypes DEF Inv, TypeOK
    <3>2. /\ ready \in Lists /\ Ordered(ready)
          /\ \A t \in Queued(ready) : t # current
      BY QueuedFacts DEF Inv, TypeOK, ListsOrdered
    <3>3. /\ q \in Lists
          /\ q.list[Level(priority[current])] = ready.list[Level(priority[current])] \cup {current}
          /\ \A j \in Levels : j # Level(priority[current]) => q.list[j] = ready.list[j]
      BY <1>1, <3>1, <3>2, AppendedSound DEF ReadyToRun
    <3> HIDE DEF q
    <3>4. n \in Queued(q)
      BY <1>2, <3>3, FindNextQueued
    <3>5. PICK k \in Levels : n \in q.list[k]
      BY <3>3, <3>4, QueuedIff
    <3>6. n \in ready.list[k]
      BY <1>5, <3>3, <3>5
    <3> QED
      BY <3>2, <3>5, <3>6, QueuedIff
  <2>2. proc[n] = "ready" /\ proc[current] = "running"
    BY <1>1, <1>3, <2>1, ReadyIffQueued, ProcBefore, FinishedFacts DEF Life, OnTheCPU
  <2>3. /\ status' = [st EXCEPT ![n] = "RUNNING"]
        /\ current' = n /\ phase' = "switch" /\ toBeDestroyed' = NoThread
    BY <1>1, <1>2, <1>5 DEF Run
  <2>4. \A u \in Thread : u = current => Life(u)' = "ready"
    BY <1>1, <1>5, <2>3, ThreadAssumption DEF Life, Finished, OnTheCPU
  <2>5. Life(n)' = "running"
    BY <1>1, <2>3, ThreadAssumption DEF Life, Finished, OnTheCPU
  <2>6. \A u \in Thread \ {current, n} : Life(u)' = Life(u)
    BY <1>1, <2>3, ThreadAssumption DEF Life, Finished, OnTheCPU
  <2>7. PICK c \in Thread : c = current
    BY <1>1
  <2>8. proc' = [proc EXCEPT ![c] = "ready", ![n] = "running"]
    BY <1>5, <2>4, <2>5, <2>6, <2>7, LivesChange
  <2> QED
    BY <2>2, <2>7, <2>8 DEF Lifecycle!Handover
<1> QED
  BY <1>4, <1>5

LEMMA IdleDispatchRefines ==
  ASSUME Inv, Inv', IdleDispatch PROVE \E n \in Thread : Lifecycle!Dispatch(n)
<1>1. PICK n \in Thread : /\ FindNextToRun(ready, remainingBurst, n)
                         /\ Run(n, ready, status, finishing)
  BY DEF IdleDispatch
<1>2. /\ phase = "idle" /\ toBeDestroyed = NoThread /\ finishing' = FALSE
      /\ current \in Thread /\ status \in [Thread -> Status]
      /\ finishing => status[current] = "BLOCKED"
  BY NoCarcass, CurrentType DEF IdleDispatch, Inv, CarcassSafe
<1>3. n \in Queued(ready) /\ status[n] = "READY"
  BY <1>1, FindNextQueued, QueuedFacts DEF Inv, TypeOK
<1>4. proc[n] = "ready"
  BY <1>3, ReadyIffQueued
<1>5. /\ status' = [status EXCEPT ![n] = "RUNNING"]
      /\ current' = n /\ phase' = "switch"
      /\ toBeDestroyed' = IF finishing THEN current ELSE NoThread
  BY <1>1, <1>2 DEF Run
<1>6. Life(n)' = "running"
  BY <1>2, <1>3, <1>5, ThreadAssumption DEF Life, Finished, OnTheCPU
<1>7. \A u \in Thread \ {n} : Life(u)' = Life(u)
  BY <1>2, <1>5, ThreadAssumption DEF Life, Finished, OnTheCPU
<1>8. Lifecycle!Running = {}
  BY <1>2, RunningIsCurrent
<1> QED
  BY <1>4, <1>6, <1>7, <1>8, LifeChanges DEF Lifecycle!Dispatch

LEMMA QuietRefines ==
  ASSUME Inv, Inv',
         \/ Resume \/ OneTick \/ TimerHandler \/ IdleTick
         \/ ReturnFromHandlers /\ ~ yieldOnReturn
         \/ UNCHANGED vars
  PROVE  proc' = proc
<1>1. CASE Resume
  <2>1. /\ phase = "switch" /\ phase' \in {"enable", "again"} /\ UNCHANGED <<current, finishing>>
        /\ status' = [t \in Thread |-> IF t = toBeDestroyed THEN "DELETED" ELSE status[t]]
        /\ toBeDestroyed' = NoThread
    BY <1>1 DEF Resume, CheckToBeDestroyed
  <2>2. toBeDestroyed # NoThread => status[toBeDestroyed] = "BLOCKED" /\ toBeDestroyed # current
    BY DEF Inv, CarcassSafe
  <2>3. \A t \in Thread : Life(t)' = Life(t)
    BY <2>1, <2>2, ThreadAssumption DEF Life, Finished, OnTheCPU
  <2> QED
    BY <2>3, LifeGoesOn
<1>2. CASE \/ OneTick \/ TimerHandler \/ IdleTick
           \/ ReturnFromHandlers /\ ~ yieldOnReturn
           \/ UNCHANGED vars
  <2>1. /\ UNCHANGED <<status, current, finishing, toBeDestroyed>>
        /\ phase = "idle" <=> phase' = "idle"
    BY <1>2 DEF OneTick, TimerHandler, IdleTick, ReturnFromHandlers, vars, threadVars, cpuVars
  <2>2. \A t \in Thread : Life(t)' = Life(t)
    BY <2>1 DEF Life, Finished, OnTheCPU
  <2> QED
    BY <2>2, LifeGoesOn
<1> QED
  BY <1>1, <1>2

LEMMA NextRefines ==
  ASSUME Inv, Inv', [Next]_vars PROVE [Lifecycle!Next]_proc
<1>1. ASSUME NEW t \in Thread, NEW p \in InitialPriority, Exec(t, p) PROVE Lifecycle!Next
  BY <1>1, ExecRefines DEF Lifecycle!Next
<1>2. ASSUME NEW t \in Thread, Wake(t) \/ DeviceHandler(t) PROVE Lifecycle!Next
  <2>1. /\ Awaken(t)
        /\ \/ phase' = phase
           \/ phase = "run" /\ phase' = "enable"
    BY <1>2 DEF Wake, DeviceHandler
  <2>2. Lifecycle!Wakeup(t)
    BY <2>1, AwakenRefines
  <2> QED
    BY <2>2 DEF Lifecycle!Next
<1>3. ASSUME NEW fin \in BOOLEAN, Sleep(fin) PROVE Lifecycle!Next
  BY <1>3, SleepRefines DEF Lifecycle!Next
<1>4. CASE ReturnFromHandlers /\ yieldOnReturn
  BY <1>4, YieldRefines DEF ReturnFromHandlers, Lifecycle!Next
<1>5. CASE IdleDispatch
  BY <1>5, IdleDispatchRefines DEF Lifecycle!Next
<1>6. CASE \/ Resume \/ OneTick \/ TimerHandler \/ IdleTick
           \/ ReturnFromHandlers /\ ~ yieldOnReturn
           \/ UNCHANGED vars
  BY <1>6, QuietRefines
<1> QED
  BY <1>1, <1>2, <1>3, <1>4, <1>5, <1>6 DEF Next

\* Whatever the policy, the ages and the interrupts, a thread lives as
\* ProcessLifecycle says: it leaves the CPU to a thread that is ready or, if
\* there is none, to nobody, and does not come back once it is finished.
THEOREM SchedulerImplementsLifecycle == Spec => LifecycleSpec
<1>1. Init => Lifecycle!Init
  BY InitRefines
<1>2. Inv /\ Inv' /\ [Next]_vars => [Lifecycle!Next]_proc
  BY NextRefines
<1> QED
  BY <1>1, <1>2, Invariance, PTL DEF Spec, LifecycleSpec, Lifecycle!Spec

-------------------------------------------------------------------------------
(***************************************************************************)
(* The two invariants that need SchedulerHistory's variables.              *)
(***************************************************************************)
Busy == phase \in {"run", "enable", "handlers"}

\* What the accounting knows of t: all of it is in totalBurst when t is off the
\* CPU, and the current slice has to be added when t is on it.
BurstInv ==
  /\ executed \in [Thread -> 0 .. BurstCap]
  /\ phase = "switch" => ran = 0
  /\ \A t \in Thread :
       executed[t] <= IF Busy /\ t = current THEN BurstNow ELSE totalBurst[t]

\* Where the CPU is with respect to the timer: kernel and user code run only
\* while its interrupt is still to come, and a yield is decided by its handler.
SliceInv ==
  /\ toTimer <= TimerTicks
  /\ phase \in {"run", "enable", "switch", "again"} => toTimer # 0
  /\ yieldOnReturn => phase = "handlers"

\* An inversion started within this slice, unless a yield is already decided.
InversionInv ==
  /\ inverted \in Nat
  /\ ~Inversion => inverted = 0
  /\ Inversion /\ toTimer # 0 /\ ~yieldOnReturn => inverted + toTimer <= TimerTicks
  /\ InversionBounded

\* A step of the history is one of the scheduler.
LEMMA HStepIsAStep == [HNext]_<<vars, historyVars>> => [Next]_vars
BY DEF HNext

\* So what holds of the scheduler holds with the history.
LEMMA HSpecIsSpec == HSpec => Spec
<1>1. HInit => Init
  BY DEF HInit
<1> QED
  BY <1>1, HStepIsAStep, PTL DEF HSpec, Spec

\* Only OneTick takes time from the thread on the CPU.
LEMMA ElapsedIs ==
  ASSUME Inv, Next
  PROVE  Elapsed = IF OneTick THEN (IF phase = "run" THEN UserTick ELSE SystemTick)
                              ELSE 0
<1>1. CASE OneTick
  BY <1>1 DEF OneTick, Elapsed
<1>2. CASE /\ ~OneTick
           /\ \/ \E t \in Thread : \/ \E p \in InitialPriority : Exec(t, p)
                                   \/ Wake(t)
                                   \/ DeviceHandler(t)
              \/ \E fin \in BOOLEAN : Sleep(fin)
              \/ Resume
  BY <1>2 DEF Elapsed, Exec, Wake, DeviceHandler, Sleep, Run, Resume
<1>3. CASE ~OneTick /\ (TimerHandler \/ IdleTick)
  BY <1>3 DEF Elapsed, TimerHandler, IdleTick, cpuVars
<1>4. CASE ~OneTick /\ (ReturnFromHandlers \/ IdleDispatch)
  BY <1>4 DEF Elapsed, ReturnFromHandlers, IdleDispatch
<1> QED
  BY <1>1, <1>2, <1>3, <1>4 DEF Next

\* Steps that leave the accounting and the CPU alone.
LEMMA BurstQuiet ==
  ASSUME Inv, BurstInv, executed' = executed,
         UNCHANGED <<totalBurst, current, ran>>,
         Busy' <=> Busy, phase' # "switch" \/ phase = "switch"
  PROVE  BurstInv'
BY DEF BurstInv, BurstNow, MinOf

LEMMA BurstTick ==
  ASSUME Inv, BurstInv, OneTick, HNext
  PROVE  BurstInv'
<1> DEFINE d == IF phase = "run" THEN UserTick ELSE SystemTick
<1>1. /\ executed \in [Thread -> 0 .. BurstCap] /\ current \in Thread
      /\ totalBurst \in [Thread -> 0 .. BurstCap] /\ ran \in 0 .. BurstCap
      /\ d \in Nat /\ BurstCap \in Nat
  BY ConstantTypes DEF BurstInv, Inv, TypeOK
<1>2. /\ phase \in {"run", "enable"} /\ phase' = "handlers"
      /\ totalBurst' = totalBurst /\ current' = current
      /\ ran' = MinOf(BurstCap, ran + d)
  BY DEF OneTick
<1>3. executed' = [executed EXCEPT ![current] = MinOf(BurstCap, @ + d)]
  BY <1>2 DEF HNext, Elapsed
<1> HIDE DEF d
<1>4. executed[current] <= MinOf(BurstCap, totalBurst[current] + ran)
  BY <1>1, <1>2 DEF BurstInv, Busy, BurstNow
<1>5. /\ MinOf(BurstCap, executed[current] + d) \in 0 .. BurstCap
      /\ MinOf(BurstCap, executed[current] + d)
           <= MinOf(BurstCap, totalBurst[current] + MinOf(BurstCap, ran + d))
  BY <1>1, <1>4 DEF MinOf
<1>6. ASSUME NEW t \in Thread
      PROVE  executed'[t] <= IF t = current THEN BurstNow' ELSE totalBurst[t]
  <2>1. CASE t = current
    <3>1. BurstNow' = MinOf(BurstCap, totalBurst[current] + MinOf(BurstCap, ran + d))
      BY <1>2 DEF BurstNow, MinOf
    <3> QED
      BY <2>1, <3>1, <1>1, <1>3, <1>5
  <2>2. CASE t # current
    BY <2>2, <1>1, <1>3 DEF BurstInv
  <2> QED
    BY <2>1, <2>2
<1>7. executed' \in [Thread -> 0 .. BurstCap]
  BY <1>1, <1>3, <1>5
<1>8. Busy'
  BY <1>2 DEF Busy
<1> QED
  BY <1>2, <1>6, <1>7, <1>8 DEF BurstInv

LEMMA BurstSleep ==
  ASSUME Inv, BurstInv, NEW fin \in BOOLEAN, Sleep(fin), HNext
  PROVE  BurstInv'
<1>1. /\ executed \in [Thread -> 0 .. BurstCap] /\ current \in Thread
      /\ totalBurst \in [Thread -> 0 .. BurstCap] /\ BurstCap \in Nat
  BY ConstantTypes DEF BurstInv, Inv, TypeOK
<1>2. /\ phase \in {"run", "again"} /\ phase' \in {"idle", "switch"}
      /\ totalBurst' = [totalBurst EXCEPT ![current] = 0]
      /\ phase' = "switch" => ran' = 0
  BY DEF Sleep, BurstToWaiting, Run
<1>3. executed' = [executed EXCEPT ![current] = 0]
  BY <1>2 DEF HNext
<1>4. ASSUME NEW t \in Thread PROVE executed'[t] <= totalBurst'[t]
  BY <1>1, <1>2, <1>3 DEF BurstInv
<1>5. executed' \in [Thread -> 0 .. BurstCap] /\ ~Busy'
  BY <1>1, <1>2, <1>3 DEF Busy
<1> QED
  BY <1>2, <1>4, <1>5 DEF BurstInv

LEMMA BurstYield ==
  ASSUME Inv, BurstInv, phase = "handlers", Yield, executed' = executed
  PROVE  BurstInv'
<1>1. /\ executed \in [Thread -> 0 .. BurstCap] /\ current \in Thread
      /\ totalBurst \in [Thread -> 0 .. BurstCap] /\ ran \in 0 .. BurstCap
      /\ BurstCap \in Nat
  BY ConstantTypes DEF BurstInv, Inv, TypeOK
<1>2. totalBurst' = [totalBurst EXCEPT ![current] = BurstNow]
  BY DEF Yield, BurstToReady
<1>3. BurstNow \in 0 .. BurstCap /\ executed[current] <= BurstNow
  BY <1>1 DEF BurstNow, MinOf, BurstInv, Busy
<1>4. ASSUME NEW t \in Thread PROVE executed'[t] <= totalBurst'[t]
  BY <1>1, <1>2, <1>3 DEF BurstInv
<1>5. CASE phase' = "enable" /\ current' = current /\ ran' = ran
  <2>1. executed'[current] <= BurstNow'
    BY <1>1, <1>2, <1>3, <1>5 DEF BurstNow, MinOf
  <2> QED
    BY <2>1, <1>1, <1>4, <1>5 DEF BurstInv
<1>6. CASE phase' = "switch" /\ ran' = 0
  BY <1>1, <1>4, <1>6 DEF BurstInv, Busy
<1> QED
  BY <1>5, <1>6 DEF Yield, Run

LEMMA BurstDispatch ==
  ASSUME Inv, BurstInv, executed' = executed, totalBurst' = totalBurst,
         \/ Resume
         \/ IdleDispatch
  PROVE  BurstInv'
<1>1. /\ executed \in [Thread -> 0 .. BurstCap]
      /\ totalBurst \in [Thread -> 0 .. BurstCap] /\ BurstCap \in Nat
  BY ConstantTypes DEF BurstInv, Inv, TypeOK
<1>2. /\ ~Busy /\ phase' # "handlers"
      /\ phase' = "switch" \/ (phase' \in {"enable", "again"} /\ current' = current)
      /\ ran' = 0
  BY DEF Resume, IdleDispatch, Run, Busy
<1>3. \A t \in Thread : executed[t] <= totalBurst[t]
  BY <1>2 DEF BurstInv
<1>4. ASSUME NEW t \in Thread, t = current'
      PROVE  executed[t] <= BurstNow'
  BY <1>1, <1>2, <1>3, <1>4 DEF BurstNow, MinOf
<1> QED
  BY <1>1, <1>2, <1>3, <1>4 DEF BurstInv

LEMMA BurstInvNext ==
  ASSUME Inv, BurstInv, [HNext]_<<vars, historyVars>>
  PROVE  BurstInv'
<1>1. /\ executed \in [Thread -> 0 .. BurstCap] /\ current \in Thread
      /\ BurstCap \in Nat
  BY ConstantTypes DEF BurstInv, Inv, TypeOK
<1>2. ASSUME HNext, ~OneTick, phase \in {"run", "again"} => phase' \notin {"idle", "switch"}
      PROVE  executed' = executed
  <2>1. Elapsed = 0 /\ MinOf(BurstCap, executed[current] + 0) = executed[current]
    BY <1>1, <1>2, ElapsedIs DEF HNext, MinOf
  <2>2. executed' = [executed EXCEPT ![current] = MinOf(BurstCap, @ + Elapsed)]
    BY <1>2 DEF HNext
  <2> QED
    BY <2>1, <2>2, <1>1
<1>3. CASE HNext /\ OneTick
  BY <1>3, BurstTick
<1>4. CASE HNext /\ ~OneTick /\ \E t \in Thread : \/ \E p \in InitialPriority : Exec(t, p)
                                                  \/ Wake(t)
                                                  \/ DeviceHandler(t)
  <2>1. /\ UNCHANGED <<totalBurst, current, ran>>
        /\ Busy' <=> Busy
        /\ phase' # "switch" /\ (phase \in {"run", "again"} => phase' = "enable")
    BY <1>4 DEF Exec, Wake, DeviceHandler, Awaken, Busy
  <2> QED
    BY <2>1, <1>2, <1>4, BurstQuiet
<1>5. CASE HNext /\ \E fin \in BOOLEAN : Sleep(fin)
  BY <1>5, BurstSleep
<1>6. CASE HNext /\ ~OneTick /\ (Resume \/ IdleDispatch)
  <2>1. totalBurst' = totalBurst /\ phase \notin {"run", "again"}
    BY <1>6 DEF Resume, IdleDispatch
  <2> QED
    BY <2>1, <1>2, <1>6, BurstDispatch
<1>7. CASE HNext /\ ~OneTick /\ (TimerHandler \/ IdleTick)
  <2>1. UNCHANGED <<totalBurst, current, ran, phase>> /\ phase \in {"handlers", "idle"}
    BY <1>7 DEF TimerHandler, IdleTick, cpuVars
  <2> QED
    BY <2>1, <1>2, <1>7, BurstQuiet DEF Busy
<1>8. CASE HNext /\ ~OneTick /\ ReturnFromHandlers
  <2>1. phase = "handlers"
    BY <1>8 DEF ReturnFromHandlers
  <2>2. CASE Yield
    BY <2>1, <2>2, <1>2, <1>8, BurstYield
  <2>3. CASE ~Yield
    <3>1. UNCHANGED <<totalBurst, current, ran>> /\ phase' = "run"
      BY <2>3, <1>8 DEF ReturnFromHandlers, threadVars
    <3> QED
      BY <2>1, <3>1, <1>2, <1>8, BurstQuiet DEF Busy
  <2> QED
    BY <2>2, <2>3
<1>9. CASE UNCHANGED <<vars, historyVars>>
  BY <1>9, BurstQuiet DEF vars, threadVars, cpuVars, historyVars, Busy
<1> QED
  BY <1>3, <1>4, <1>5, <1>6, <1>7, <1>8, <1>9 DEF HNext, Next

\* At every step the accounting of Thread::UpdateBurstTime covers what the
\* thread executed, whatever mix of ticks, yields and sleeps led here.
THEOREM BurstsAreCovered == HSpec => []BurstNeverUndercounted
<1>1. HInit => BurstInv
  <2>1. ASSUME HInit PROVE BurstInv
    BY <2>1, ConstantTypes DEF HInit, Init, BurstInv, BurstNow, MinOf, Busy
  <2> QED
    BY <2>1
<1>2. Inv /\ BurstInv /\ [HNext]_<<vars, historyVars>> => BurstInv'
  BY BurstInvNext
<1>3. Inv /\ BurstInv => BurstNeverUndercounted
  <2>1. ASSUME Inv, BurstInv PROVE BurstNeverUndercounted
    <3>1. current \in Thread
      BY <2>1 DEF Inv, TypeOK
    <3>2. \A t \in Queued(ready) : t \in Thread /\ (t = current => phase = "idle")
      BY <2>1, QueuedFacts
    <3> QED
      BY <2>1, <3>1, <3>2 DEF BurstInv, BurstNeverUndercounted, Busy
  <2> QED
    BY <2>1
<1> QED
  BY <1>1, <1>2, <1>3, HSpecIsSpec, Invariance, PTL DEF HSpec

-------------------------------------------------------------------------------
(* How long a better queue waits, when the time slices are fixed. *)

LEMMA SliceInvNext ==
  ASSUME Inv, SliceInv, [HNext]_<<vars, historyVars>>, ~RandomSlice
  PROVE  SliceInv'
<1>1. toTimer \in Nat /\ TimerTicks \in Nat \ {0} /\ UserTick \in Nat /\ SystemTick \in Nat
  BY ConstantTypes DEF Inv, TypeOK
<1>2. CASE \E t \in Thread : \/ \E p \in InitialPriority : Exec(t, p)
                             \/ Wake(t)
                             \/ DeviceHandler(t)
  BY <1>2 DEF Exec, Wake, DeviceHandler, Awaken, irqVars, SliceInv
<1>3. CASE Resume \/ \E fin \in BOOLEAN : Sleep(fin)
  BY <1>3 DEF Sleep, Run, Resume, irqVars, SliceInv
<1>4. CASE OneTick
  <2>1. Minus(toTimer, UserTick) <= toTimer /\ Minus(toTimer, SystemTick) <= toTimer
        /\ Minus(toTimer, UserTick) \in Nat /\ Minus(toTimer, SystemTick) \in Nat
    BY <1>1, MinusType
  <2> QED
    BY <2>1, <1>1, <1>4 DEF OneTick, AdvanceClock, SliceInv
<1>5. CASE TimerHandler
  BY <1>1, <1>5 DEF TimerHandler, Slice, cpuVars, SliceInv
<1>6. CASE ReturnFromHandlers
  BY <1>6 DEF ReturnFromHandlers, Yield, Run, SliceInv
<1>7. CASE IdleTick
  <2>1. Minus(toTimer, 1) <= toTimer /\ Minus(toTimer, 1) \in Nat
    BY <1>1, MinusType
  <2> QED
    BY <2>1, <1>1, <1>7 DEF IdleTick, AdvanceClock, cpuVars, SliceInv
<1>8. CASE IdleDispatch
  BY <1>8 DEF IdleDispatch, Run, irqVars, SliceInv
<1>9. CASE UNCHANGED <<vars, historyVars>>
  BY <1>9 DEF vars, threadVars, cpuVars, irqVars, SliceInv
<1> QED
  BY <1>2, <1>3, <1>4, <1>5, <1>6, <1>7, <1>8, <1>9 DEF HNext, Next

\* A step that takes no time and does not bring the timer's interrupt closer.
LEMMA InversionQuiet ==
  ASSUME Inv, SliceInv, InversionInv, SliceInv', toTimer' = toTimer, toTimer \in Nat,
         inverted' = IF Inversion' THEN inverted ELSE 0,
         yieldOnReturn => yieldOnReturn' \/ ~Inversion'
  PROVE  InversionInv'
<1>1. TimerTicks \in Nat \ {0} /\ SystemTick \in Nat
  BY ConstantTypes
<1>2. CASE ~Inversion'
  BY <1>1, <1>2 DEF InversionInv, InversionBounded
<1>3. CASE Inversion'
  <2>1. inverted' = inverted /\ InversionBounded'
    BY <1>3 DEF InversionInv, InversionBounded
  <2>2. ASSUME toTimer' # 0, ~yieldOnReturn' PROVE inverted' + toTimer' <= TimerTicks
    <3>1. CASE Inversion
      BY <2>1, <2>2, <3>1, <1>3 DEF InversionInv
    <3>2. CASE ~Inversion
      BY <2>1, <3>2, <1>1 DEF InversionInv, SliceInv
    <3> QED
      BY <3>1, <3>2
  <2> QED
    BY <1>3, <2>1, <2>2 DEF InversionInv
<1> QED
  BY <1>2, <1>3

LEMMA InversionTick ==
  ASSUME Inv, SliceInv, InversionInv, OneTick, HNext, UserTick <= SystemTick
  PROVE  InversionInv'
<1> DEFINE d == IF phase = "run" THEN UserTick ELSE SystemTick
<1>1. /\ TimerTicks \in Nat \ {0} /\ SystemTick \in Nat /\ d \in Nat /\ d <= SystemTick
      /\ toTimer \in Nat /\ inverted \in Nat
  BY ConstantTypes DEF Inv, TypeOK, InversionInv
<1>2. /\ phase \in {"run", "enable"} /\ phase' = "handlers"
      /\ toTimer' = Minus(toTimer, d)
      /\ UNCHANGED <<ready, priority, current, yieldOnReturn>>
  BY DEF OneTick, AdvanceClock
<1>3. inverted' = IF Inversion' THEN inverted + d ELSE 0
  BY <1>2 DEF HNext, Elapsed
<1>4. Inversion' <=> Inversion
  BY <1>2 DEF Inversion, Level
<1> HIDE DEF d
<1>5. toTimer # 0 /\ ~yieldOnReturn
  BY <1>2 DEF SliceInv
<1>6. CASE Inversion
  <2>1. inverted' = inverted + d /\ inverted + toTimer <= TimerTicks
    BY <1>3, <1>4, <1>5, <1>6 DEF InversionInv
  <2>2. inverted' \in Nat /\ inverted' < TimerTicks + SystemTick
    BY <2>1, <1>1, <1>5
  <2>3. toTimer' # 0 => inverted' + toTimer' <= TimerTicks
    BY <2>1, <1>1, <1>2 DEF Minus
  <2> QED
    BY <2>2, <2>3, <1>4, <1>6 DEF InversionInv, InversionBounded
<1>7. CASE ~Inversion
  BY <1>1, <1>3, <1>4, <1>7 DEF InversionInv, InversionBounded
<1> QED
  BY <1>6, <1>7

\* Alarm::CallBack: whoever keeps a better queue waiting is told to yield.
LEMMA TheTimerEndsInversions ==
  ASSUME Inv, Inv', TimerHandler, Inversion'
  PROVE  yieldOnReturn'
<1>1. /\ phase = "handlers" /\ current' = current /\ ready' = AgedLists
      /\ current \in Thread /\ priority \in [Thread -> 0 .. MaxPriority]
  BY DEF TimerHandler, cpuVars, Inversion, UpdateAging, Inv, TypeOK
<1>2. current \notin Queued(ready)
  BY <1>1, QueuedFacts
<1>3. priority'[current'] = priority[current]
  BY <1>1, <1>2 DEF TimerHandler, UpdateAging
<1>4. PICK t \in Queued(ready') : Level(priority'[t]) < Level(priority[current])
  BY <1>3 DEF Inversion, Level
<1>5. PICK k \in Levels : t \in ready'.list[k]
  BY <1>4, QueuedIff DEF Inv, TypeOK
<1>6. Level(priority'[t]) = k
  BY <1>5 DEF Inv, QueuedAtItsLevel, Level
<1>7. Level(priority[current]) = 2 => k = 1
  BY <1>4, <1>6 DEF Levels
<1>8. MustYield
  <2>1. Level(priority[current]) \in {1, 2, 3}
    BY DEF Level
  <2> QED
    BY <2>1, <1>1, <1>5, <1>7 DEF MustYield
<1> QED
  BY <1>1, <1>8 DEF TimerHandler

LEMMA InversionTimer ==
  ASSUME Inv, Inv', SliceInv', InversionInv, TimerHandler,
         inverted' = IF Inversion' THEN inverted ELSE 0
  PROVE  InversionInv'
<1>1. TimerTicks \in Nat \ {0} /\ SystemTick \in Nat
  BY ConstantTypes
<1>2. CASE Inversion'
  BY <1>2, TheTimerEndsInversions DEF InversionInv, InversionBounded
<1>3. CASE ~Inversion'
  BY <1>1, <1>3 DEF InversionInv, InversionBounded
<1> QED
  BY <1>2, <1>3

\* Thread::Yield: a thread that finds itself again had the best queue.
LEMMA AYieldEndsInversions ==
  ASSUME Inv, Inv', phase = "handlers", Yield
  PROVE  ~Inversion'
<1>1. CASE phase' = "switch"
  BY <1>1 DEF Inversion
<1>2. CASE phase' # "switch"
  <2> DEFINE k == Level(priority[current])
  <2>1. /\ ready \in Lists /\ Ordered(ready) /\ current \in Thread /\ k \in Levels
        /\ ready' \in Lists
    BY LevelType, ConstantTypes DEF Inv, TypeOK, ListsOrdered
  <2>2. \A j \in Levels : current \notin ready.list[j]
    BY <2>1, QueuedFacts, QueuedIff
  <2> DEFINE q == ReadyToRun(ready, current)
  <2>3. /\ q \in Lists
        /\ q.list[k] = ready.list[k] \cup {current}
        /\ \A j \in Levels : j # k => q.list[j] = ready.list[j]
    BY <2>1, <2>2, AppendedSound, QueuedIff DEF ReadyToRun
  <2>4. /\ FindNextToRun(q, remainingBurst', current)
        /\ ready' = Removed(q, current)
        /\ current' = current /\ priority' = priority
    BY <1>2 DEF Yield, Run
  <2>5. \A j \in Levels : current \in q.list[j] => j = k
    BY <2>1, <2>2, <2>3
  <2> HIDE DEF q
  <2>6. \A j \in Levels : j < k => q.list[j] = {}
    BY <2>4, <2>5 DEF FindNextToRun, Levels
  <2>7. \A j \in Levels : ready'.list[j] \subseteq q.list[j]
    BY <2>4 DEF Removed
  <2>8. ASSUME NEW t \in Queued(ready') PROVE ~(Level(priority'[t]) < k)
    <3>1. PICK j \in Levels : t \in ready'.list[j]
      BY <2>1, QueuedIff
    <3>2. Level(priority'[t]) = j
      BY <3>1 DEF Inv, QueuedAtItsLevel, Level
    <3> QED
      BY <3>1, <3>2, <2>6, <2>7
  <2>9. Level(priority[current])' = k
    BY <2>4 DEF Level
  <2> QED
    BY <2>8, <2>9 DEF Inversion, Level
<1> QED
  BY <1>1, <1>2

LEMMA InversionInvNext ==
  ASSUME Inv, Inv', SliceInv, InversionInv, [HNext]_<<vars, historyVars>>,
         ~RandomSlice, UserTick <= SystemTick
  PROVE  InversionInv'
<1>1. toTimer \in Nat /\ inverted \in Nat
  BY ConstantTypes DEF Inv, TypeOK, InversionInv
<1>2. SliceInv'
  BY SliceInvNext
<1>3. ASSUME HNext, ~OneTick PROVE inverted' = IF Inversion' THEN inverted ELSE 0
  BY <1>1, <1>3, ElapsedIs DEF HNext
<1>4. CASE HNext /\ OneTick
  BY <1>4, InversionTick
<1>5. CASE HNext /\ ~OneTick /\ TimerHandler
  BY <1>2, <1>3, <1>5, InversionTimer
<1>6. CASE HNext /\ ~OneTick /\ \E t \in Thread : \/ \E p \in InitialPriority : Exec(t, p)
                                                  \/ Wake(t)
                                                  \/ DeviceHandler(t)
  <2>1. toTimer' = toTimer /\ yieldOnReturn' = yieldOnReturn
    BY <1>6 DEF Exec, Wake, DeviceHandler, Awaken, irqVars
  <2> QED
    BY <2>1, <1>1, <1>2, <1>3, <1>6, InversionQuiet
<1>7. CASE HNext /\ ~OneTick /\ (Resume \/ IdleDispatch \/ \E fin \in BOOLEAN : Sleep(fin))
  <2>1. toTimer' = toTimer /\ yieldOnReturn' = yieldOnReturn
    BY <1>7 DEF Resume, IdleDispatch, Sleep, irqVars
  <2> QED
    BY <2>1, <1>1, <1>2, <1>3, <1>7, InversionQuiet
<1>8. CASE HNext /\ ~OneTick /\ ReturnFromHandlers
  <2>1. /\ phase = "handlers" /\ toTimer' = toTimer
        /\ yieldOnReturn => Yield
    BY <1>8 DEF ReturnFromHandlers
  <2>2. yieldOnReturn => ~Inversion'
    BY <2>1, AYieldEndsInversions
  <2> QED
    BY <2>1, <2>2, <1>1, <1>2, <1>3, <1>8, InversionQuiet
<1>9. CASE HNext /\ ~OneTick /\ IdleTick
  <2>1. phase' = "idle"
    BY <1>9 DEF IdleTick, cpuVars
  <2>2. ~Inversion' /\ inverted' = 0
    BY <2>1, <1>3, <1>9 DEF Inversion
  <2> QED
    BY <2>2, ConstantTypes DEF InversionInv, InversionBounded
<1>10. CASE UNCHANGED <<vars, historyVars>>
  <2>1. UNCHANGED <<phase, ready, priority, current, toTimer, yieldOnReturn, inverted>>
    BY <1>10 DEF vars, threadVars, cpuVars, irqVars, historyVars
  <2> QED
    BY <2>1 DEF InversionInv, InversionBounded, Inversion, Level
<1> QED
  BY <1>4, <1>5, <1>6, <1>7, <1>8, <1>9, <1>10 DEF HNext, Next

\* With fixed slices the timer's handler ends every inversion of the levels
\* within one slice and the tick that overshoots it, for any tick lengths.
THEOREM InversionsEndWithTheSlice ==
  ASSUME ~RandomSlice, UserTick <= SystemTick
  PROVE  HSpec => []InversionBounded
<1>1. HInit => SliceInv /\ InversionInv
  <2>1. ASSUME HInit PROVE SliceInv /\ InversionInv
    <3>1. toTimer = TimerTicks /\ inverted = 0 /\ ~Inversion
      BY <2>1 DEF HInit, Init, Slice, Inversion, Queued, Levels
    <3> QED
      BY <2>1, <3>1, ConstantTypes
         DEF HInit, Init, SliceInv, InversionInv, InversionBounded
  <2> QED
    BY <2>1
<1>2. Inv /\ Inv' /\ SliceInv /\ InversionInv /\ [HNext]_<<vars, historyVars>>
        => SliceInv' /\ InversionInv'
  BY SliceInvNext, InversionInvNext
<1>3. InversionInv => InversionBounded
  BY DEF InversionInv
<1> QED
  BY <1>1, <1>2, <1>3, HSpecIsSpec, Invariance, PTL DEF HSpec
===============================================================================
