---------------------------- MODULE PostOfficeProofs ----------------------------
(***************************************************************************)
(* Theorems about SynchDevice, for any set of devices and of threads, and  *)
(* about PostOffice, for any number of senders, receivers, boxes and       *)
(* mails.  The senders are threads that call a synchronized device, so     *)
(* what holds of the device holds of them; the worker, the receivers and   *)
(* the mailboxes between them have an invariant of their own.              *)
(***************************************************************************)
EXTENDS PostOffice, FiniteSetTheorems, FunctionTheorems, SequenceTheorems, TLAPS

-------------------------------------------------------------------------------
(* Synchronized devices *)

Waiting(t, d) == pc[t] = "wait" /\ dev[t] = d

Distinct(q) == \A i, j \in DOMAIN q : q[i] = q[j] => i = j

(***************************************************************************)
(* The inductive invariant.  The value of a lock says whether somebody is  *)
(* inside; the semaphore of a device is determined by who waits and by     *)
(* whether the device is busy; the queue of a lock holds threads that want *)
(* it, each once.                                                          *)
(***************************************************************************)
LockInv ==
  /\ \A d \in Device : lock[d].value \in {0, 1}
  /\ \A d \in Device, t \in Caller : Inside(t, d) => lock[d].value = 0
  /\ \A d \in Device, t, u \in Caller : Inside(t, d) /\ Inside(u, d) => t = u
  /\ \A t \in Caller : pc[t] \in {"wait", "release"} => lock[dev[t]].holder = t

\* The semaphore of a device, in the three states it can be in.
Quiet    == [value |-> 0, queue |-> <<>>]
Slept(t) == [value |-> 0, queue |-> <<t>>]
Rung     == [value |-> 1, queue |-> <<>>]

DoneInv ==
  \A d \in Device :
    /\ \A t \in Caller : Waiting(t, d) => done[d] = IF busy[d] THEN Slept(t) ELSE Rung
    /\ (\A t \in Caller : ~Waiting(t, d)) => ~busy[d] /\ done[d] = Quiet

QueueInv ==
  \A d \in Device :
    /\ Distinct(lock[d].queue)
    /\ \A t \in Caller : Asleep(lock[d], t) => pc[t] = "acquire" /\ dev[t] = d
    /\ lock[d].value # 0 /\ lock[d].queue # <<>> =>
         \E t \in Caller : pc[t] = "acquire" /\ dev[t] = d /\ ~Asleep(lock[d], t)

DeviceInv == DeviceTypeOK /\ LockInv /\ DoneInv /\ QueueInv

-------------------------------------------------------------------------------
(* P and V *)

\* P on a lock: the value is consumed, or the caller joins the queue.
LEMMA PLock ==
  ASSUME NEW l \in Locks, NEW t \in Caller
  PROVE  /\ P(l, t) \in Locks
         /\ P(l, t).holder = l.holder
         /\ Passes(l) => P(l, t).value = l.value - 1 /\ P(l, t).queue = l.queue
         /\ ~Passes(l) => P(l, t).value = 0 /\ P(l, t).queue = Append(l.queue, t)
<1>1. /\ l = [value |-> l.value, queue |-> l.queue, holder |-> l.holder]
      /\ l.value \in Nat /\ l.queue \in Seq(Caller) /\ l.holder \in Caller \cup {Nobody}
  BY DEF Locks
<1>2. CASE Passes(l)
  <2>1. P(l, t) = [value |-> l.value - 1, queue |-> l.queue, holder |-> l.holder]
    BY <1>1, <1>2 DEF P
  <2>2. l.value - 1 \in Nat
    BY <1>1, <1>2 DEF Passes
  <2> QED  BY <1>1, <1>2, <2>1, <2>2 DEF Locks
<1>3. CASE ~Passes(l)
  <2>1. P(l, t) = [value |-> 0, queue |-> Append(l.queue, t), holder |-> l.holder]
    BY <1>1, <1>3 DEF P, Passes
  <2>2. Append(l.queue, t) \in Seq(Caller)
    BY <1>1
  <2> QED  BY <1>1, <1>3, <2>1, <2>2 DEF Locks
<1> QED  BY <1>2, <1>3

\* Release of a lock.
LEMMA ReleaseLock ==
  ASSUME NEW l \in Locks
  PROVE  /\ Release(l) \in Locks
         /\ Release(l).value = l.value + 1
         /\ Release(l).queue = IF l.queue = <<>> THEN <<>> ELSE Tail(l.queue)
<1>1. /\ l = [value |-> l.value, queue |-> l.queue, holder |-> l.holder]
      /\ l.value \in Nat /\ l.queue \in Seq(Caller)
  BY DEF Locks
<1>2. Release(l) = [value  |-> l.value + 1,
                    queue  |-> IF l.queue = <<>> THEN <<>> ELSE Tail(l.queue),
                    holder |-> Nobody]
  <2>1. HeldBy(l, Nobody) = [value |-> l.value, queue |-> l.queue, holder |-> Nobody]
    BY <1>1 DEF HeldBy
  <2>2. ASSUME NEW s, s = [value |-> l.value, queue |-> l.queue, holder |-> Nobody]
        PROVE  FrontWoken(s) = [value  |-> l.value,
                                queue  |-> IF l.queue = <<>> THEN <<>> ELSE Tail(l.queue),
                                holder |-> Nobody]
    <3>1. CASE l.queue = <<>>
      BY <2>2, <3>1 DEF FrontWoken
    <3>2. CASE l.queue # <<>>
      BY <2>2, <3>2 DEF FrontWoken
    <3> QED  BY <3>1, <3>2
  <2>3. ASSUME NEW s, NEW q, s = [value |-> l.value, queue |-> q, holder |-> Nobody]
        PROVE  [s EXCEPT !.value = s.value + 1] =
                 [value |-> l.value + 1, queue |-> q, holder |-> Nobody]
    BY <2>3
  <2> QED  BY <2>1, <2>2, <2>3 DEF Release, V
<1>3. l.queue # <<>> => Tail(l.queue) \in Seq(Caller)
  BY <1>1
<1> QED  BY <1>1, <1>2, <1>3 DEF Locks

\* Who sleeps after t joined a queue it was not in.
LEMMA Joined ==
  ASSUME NEW s, NEW r, NEW t \in Caller, s.queue \in Seq(Caller),
         r.queue = Append(s.queue, t), Distinct(s.queue), ~Asleep(s, t)
  PROVE  /\ Distinct(r.queue)
         /\ \A u \in Caller : Asleep(r, u) <=> Asleep(s, u) \/ u = t
BY DEF Distinct, Asleep

\* Who sleeps after the first of a queue was woken.
LEMMA WokenUp ==
  ASSUME NEW s, NEW r, s.queue \in Seq(Caller), s.queue # <<>>,
         r.queue = Tail(s.queue), Distinct(s.queue)
  PROVE  /\ Distinct(r.queue)
         /\ \A u \in Caller : Asleep(r, u) => Asleep(s, u)
         /\ Head(s.queue) \in Caller
         /\ Asleep(s, Head(s.queue)) /\ ~Asleep(r, Head(s.queue))
<1>1. /\ Len(s.queue) \in Nat \ {0}
      /\ r.queue \in Seq(Caller) /\ Len(r.queue) = Len(s.queue) - 1
      /\ \A i \in 1 .. Len(s.queue) - 1 : r.queue[i] = s.queue[i + 1]
      /\ Head(s.queue) = s.queue[1] /\ s.queue[1] \in Caller
  OBVIOUS
<1>2. DOMAIN s.queue = 1 .. Len(s.queue) /\ DOMAIN r.queue = 1 .. Len(s.queue) - 1
  BY <1>1
<1>3. \A i \in DOMAIN r.queue : i + 1 \in DOMAIN s.queue /\ r.queue[i] = s.queue[i + 1]
  BY <1>1, <1>2
<1>4. Distinct(r.queue)
  <2> SUFFICES ASSUME NEW i \in DOMAIN r.queue, NEW j \in DOMAIN r.queue,
                      r.queue[i] = r.queue[j]
               PROVE  i = j
    BY DEF Distinct
  <2>1. i + 1 = j + 1
    BY <1>3 DEF Distinct
  <2> QED  BY <1>1, <1>2, <2>1
<1>5. \A u \in Caller : Asleep(r, u) => Asleep(s, u)
  BY <1>3 DEF Asleep
<1>6. Asleep(s, Head(s.queue))
  BY <1>1, <1>2 DEF Asleep
<1>7. ~Asleep(r, Head(s.queue))
  <2> SUFFICES ASSUME NEW i \in DOMAIN r.queue, r.queue[i] = s.queue[1]
               PROVE  FALSE
    BY <1>1 DEF Asleep
  <2>1. i + 1 = 1
    BY <1>1, <1>2, <1>3 DEF Distinct
  <2> QED  BY <1>1, <1>2, <2>1
<1> QED  BY <1>1, <1>4, <1>5, <1>6, <1>7

LEMMA DoneSemaphore ==
  ASSUME NEW t \in Caller
  PROVE  /\ ~Passes(Quiet) /\ P(Quiet, t) = Slept(t) /\ ~Asleep(Quiet, t)
         /\ Passes(Rung) /\ P(Rung, t) = Quiet /\ ~Asleep(Rung, t)
         /\ V(Slept(t)) = Rung /\ Asleep(Slept(t), t)
         /\ {Quiet, Slept(t), Rung} \subseteq Semaphores
<1>1. ~Passes(Quiet) /\ Passes(Rung) /\ Passes(Quiet) = (0 # 0)
  BY DEF Passes, Quiet, Rung
<1>2. Append(<<>>, t) = <<t>> /\ Tail(<<t>>) = <<>> /\ <<t>> # <<>>
  OBVIOUS
<1>3. P(Quiet, t) = Slept(t)
  BY <1>1, <1>2 DEF P, Quiet, Slept
<1>4. P(Rung, t) = Quiet
  BY <1>1 DEF P, Quiet, Rung
<1>5. FrontWoken(Slept(t)) = Quiet
  BY <1>2 DEF FrontWoken, Slept, Quiet
<1>6. V(Slept(t)) = Rung
  <2>1. ASSUME NEW s, s = Quiet
        PROVE  [s EXCEPT !.value = s.value + 1] = Rung
    BY <2>1 DEF Quiet, Rung
  <2> QED  BY <1>5, <2>1 DEF V
<1>7. ~Asleep(Quiet, t) /\ ~Asleep(Rung, t) /\ Asleep(Slept(t), t)
  BY DEF Asleep, Quiet, Rung, Slept
<1>8. {Quiet, Slept(t), Rung} \subseteq Semaphores
  <2>1. <<>> \in Seq(Caller) /\ <<t>> \in Seq(Caller)
    OBVIOUS
  <2> QED  BY <2>1 DEF Semaphores, Quiet, Slept, Rung
<1> QED  BY <1>1, <1>3, <1>4, <1>6, <1>7, <1>8

-------------------------------------------------------------------------------
(* The steps *)

\* Call and Acquire: t tries to get the lock of e.
LEMMA LockingKeepsInv ==
  ASSUME DeviceInv, NEW t \in Caller, NEW e \in Device,
         \/ pc[t] = "out"
         \/ pc[t] = "acquire" /\ dev[t] = e /\ ~Asleep(lock[e], t),
         lock' = [lock EXCEPT ![e] = P(lock[e], t)],
         pc' = [pc EXCEPT ![t] = IF Passes(lock[e]) THEN "request" ELSE "acquire"],
         dev' = [dev EXCEPT ![t] = e],
         UNCHANGED <<done, busy>>
  PROVE  DeviceInv'
<1> USE DEF DeviceInv, DeviceTypeOK, PC
<1>1. /\ lock[e] \in Locks /\ P(lock[e], t) \in Locks
      /\ P(lock[e], t).holder = lock[e].holder
      /\ Passes(lock[e]) => P(lock[e], t).value = lock[e].value - 1
                            /\ P(lock[e], t).queue = lock[e].queue
      /\ ~Passes(lock[e]) => P(lock[e], t).value = 0
                             /\ P(lock[e], t).queue = Append(lock[e].queue, t)
  BY PLock
<1>2. lock[e].value \in {0, 1} /\ (Passes(lock[e]) <=> lock[e].value = 1)
  BY DEF LockInv, Passes
<1>3. /\ lock'[e] = P(lock[e], t) /\ lock'[e].value = 0
      /\ lock'[e].holder = lock[e].holder
      /\ \A d \in Device \ {e} : lock'[d] = lock[d]
  BY <1>1, <1>2
<1>4. /\ \A u \in Caller \ {t} : pc'[u] = pc[u] /\ dev'[u] = dev[u]
      /\ pc'[t] \in {"request", "acquire"} /\ dev'[t] = e
      /\ pc'[t] = "request" => Passes(lock[e])
  OBVIOUS
<1>5. DeviceTypeOK'
  BY <1>1, <1>4
<1>6. \A d \in Device, u \in Caller : Inside(u, d)' =>
        \/ u # t /\ Inside(u, d)
        \/ u = t /\ d = e /\ Passes(lock[e])
  BY <1>4 DEF Inside
<1>7. LockInv'
  <2>1. \A d \in Device : lock'[d].value \in {0, 1}
    BY <1>3 DEF LockInv
  <2>2. \A d \in Device, u \in Caller : Inside(u, d)' => lock'[d].value = 0
    BY <1>3, <1>6 DEF LockInv
  <2>3. \A d \in Device, u, v \in Caller : Inside(u, d)' /\ Inside(v, d)' => u = v
    BY <1>2, <1>6 DEF LockInv
  <2>4. \A u \in Caller : pc'[u] \in {"wait", "release"} => lock'[dev'[u]].holder = u
    <3> SUFFICES ASSUME NEW u \in Caller, pc'[u] \in {"wait", "release"}
                 PROVE  lock'[dev'[u]].holder = u
      OBVIOUS
    <3>1. u # t /\ pc[u] \in {"wait", "release"} /\ dev'[u] = dev[u]
      BY <1>4
    <3>2. lock[dev[u]].holder = u /\ dev[u] \in Device
      BY <3>1 DEF LockInv
    <3> QED  BY <1>3, <3>1, <3>2
  <2> QED  BY <2>1, <2>2, <2>3, <2>4 DEF LockInv
<1>8. DoneInv'
  <2>1. \A d \in Device, u \in Caller : Waiting(u, d)' <=> Waiting(u, d)
    BY <1>4 DEF Waiting
  <2> QED  BY <2>1 DEF DoneInv, Quiet, Slept, Rung
<1>9. QueueInv'
  <2> SUFFICES ASSUME NEW d \in Device
               PROVE  /\ Distinct(lock'[d].queue)
                      /\ \A u \in Caller : Asleep(lock'[d], u) =>
                           pc'[u] = "acquire" /\ dev'[u] = d
                      /\ lock'[d].value # 0 /\ lock'[d].queue # <<>> =>
                           \E u \in Caller : pc'[u] = "acquire" /\ dev'[u] = d
                                              /\ ~Asleep(lock'[d], u)
    BY DEF QueueInv, Asleep, Distinct
  <2>1. /\ Distinct(lock[d].queue) /\ ~Asleep(lock[e], t)
        /\ \A u \in Caller : Asleep(lock[d], u) => pc[u] = "acquire" /\ dev[u] = d
        /\ lock[d].value # 0 /\ lock[d].queue # <<>> =>
             \E u \in Caller : pc[u] = "acquire" /\ dev[u] = d /\ ~Asleep(lock[d], u)
    BY DEF QueueInv
  <2>2. CASE d # e
    BY <1>3, <1>4, <2>1, <2>2
  <2>3. CASE d = e /\ Passes(lock[e])
    BY <1>1, <1>3, <1>4, <2>1, <2>3 DEF Asleep
  <2>4. CASE d = e /\ ~Passes(lock[e])
    <3>1. lock[e].queue \in Seq(Caller)
      BY <1>1 DEF Locks
    <3>2. /\ lock'[e].queue = Append(lock[e].queue, t)
          /\ Distinct(lock[e].queue) /\ ~Asleep(lock[e], t)
      BY <1>1, <1>3, <2>1, <2>4
    <3>3. ASSUME NEW r, r = lock'[e]
          PROVE  /\ Distinct(r.queue)
                 /\ \A u \in Caller : Asleep(r, u) <=> Asleep(lock[e], u) \/ u = t
      <4>1. r.queue = Append(lock[e].queue, t)
        BY <3>2, <3>3
      <4>2. ASSUME NEW s, s = lock[e]
            PROVE  /\ Distinct(r.queue)
                   /\ \A u \in Caller : Asleep(r, u) <=> Asleep(s, u) \/ u = t
        <5>1. /\ s.queue \in Seq(Caller) /\ r.queue = Append(s.queue, t)
              /\ Distinct(s.queue) /\ ~Asleep(s, t)
          BY <3>1, <3>2, <4>1, <4>2
        <5> QED  BY <5>1, Joined, Zenon
      <4> QED  BY <4>2
    <3> QED  BY <1>3, <1>4, <2>1, <2>4, <3>3
  <2> QED  BY <2>2, <2>3, <2>4
<1> QED  BY <1>5, <1>7, <1>8, <1>9

\* What is known of a thread inside: nobody else is, and the semaphore is in one
\* of its three states.
LEMMA WhoIsInside ==
  ASSUME DeviceInv, NEW t \in Caller, pc[t] \in {"request", "wait", "release"}
  PROVE  /\ dev[t] \in Device /\ lock[dev[t]] \in Locks /\ lock[dev[t]].value = 0
         /\ \A u \in Caller \ {t} : ~Inside(u, dev[t]) /\ ~Waiting(u, dev[t])
         /\ pc[t] # "wait" => ~busy[dev[t]] /\ done[dev[t]] = Quiet
         /\ pc[t] = "wait" => done[dev[t]] = IF busy[dev[t]] THEN Slept(t) ELSE Rung
<1>1. /\ dev[t] \in Device /\ lock[dev[t]] \in Locks /\ Inside(t, dev[t])
  BY DEF DeviceInv, DeviceTypeOK, Inside
<1>2. /\ lock[dev[t]].value = 0
      /\ \A u \in Caller : Inside(u, dev[t]) => u = t
  BY <1>1 DEF DeviceInv, LockInv
<1>3. \A u \in Caller : Waiting(u, dev[t]) => Inside(u, dev[t])
  BY DEF Waiting, Inside
<1>4. pc[t] # "wait" => \A u \in Caller : ~Waiting(u, dev[t])
  BY <1>2, <1>3 DEF Waiting
<1>5. pc[t] = "wait" => Waiting(t, dev[t])
  BY DEF Waiting
<1> QED  BY <1>1, <1>2, <1>3, <1>4, <1>5 DEF DeviceInv, DoneInv

\* The lock of t's device may change its holder to t, the rest of QueueInv is
\* about fields that stay, while t is and remains past the P of the lock.
LEMMA InsideKeepsQueueInv ==
  ASSUME DeviceInv, NEW t \in Caller, NEW p \in {"wait", "release"},
         pc[t] \in {"request", "wait"},
         pc' = [pc EXCEPT ![t] = p], UNCHANGED dev,
         \A d \in Device : lock'[d].value = lock[d].value /\ lock'[d].queue = lock[d].queue
  PROVE  QueueInv'
<1>1. /\ \A u \in Caller : pc'[u] = "acquire" <=> pc[u] = "acquire"
      /\ \A u \in Caller, d \in Device : Asleep(lock'[d], u) <=> Asleep(lock[d], u)
  BY DEF DeviceInv, DeviceTypeOK, Asleep
<1>2. \A d \in Device : Distinct(lock'[d].queue) <=> Distinct(lock[d].queue)
  OBVIOUS
<1> SUFFICES ASSUME NEW d \in Device
             PROVE  /\ Distinct(lock'[d].queue)
                    /\ \A u \in Caller : Asleep(lock'[d], u) =>
                         pc'[u] = "acquire" /\ dev'[u] = d
                    /\ lock'[d].value # 0 /\ lock'[d].queue # <<>> =>
                         \E u \in Caller : pc'[u] = "acquire" /\ dev'[u] = d
                                            /\ ~Asleep(lock'[d], u)
  BY DEF QueueInv, Asleep, Distinct
<1> QED  BY <1>1, <1>2 DEF DeviceInv, QueueInv

LEMMA RequestKeepsInv ==
  ASSUME DeviceInv, NEW t \in Caller, Request(t)
  PROVE  DeviceInv'
<1> PICK e \in Device : e = dev[t]
  BY DEF DeviceInv, DeviceTypeOK
<1>1. /\ pc[t] = "request" /\ UNCHANGED dev
      /\ lock' = [lock EXCEPT ![e] = HeldBy(lock[e], t)]
      /\ busy' = [busy EXCEPT ![e] = TRUE]
      /\ done' = [done EXCEPT ![e] = P(done[e], t)]
      /\ pc' = [pc EXCEPT ![t] = IF Passes(done[e]) THEN "release" ELSE "wait"]
  BY DEF Request, AwaitDone
<1>2. /\ e \in Device /\ lock[e] \in Locks /\ lock[e].value = 0
      /\ \A u \in Caller \ {t} : ~Inside(u, e) /\ ~Waiting(u, e)
      /\ ~busy[e] /\ done[e] = Quiet
  BY <1>1, WhoIsInside
<1>3. /\ ~Passes(Quiet) /\ P(Quiet, t) = Slept(t) /\ Slept(t) \in Semaphores
  BY DoneSemaphore
<1>4. HeldBy(lock[e], t) =
        [value |-> lock[e].value, queue |-> lock[e].queue, holder |-> t]
  BY <1>2 DEF HeldBy, Locks
<1>5. /\ lock[e].value \in Nat /\ lock[e].queue \in Seq(Caller)
  BY <1>2 DEF Locks
<1>6. HeldBy(lock[e], t) \in Locks
  BY <1>4, <1>5 DEF Locks
<1>7. /\ lock \in [Device -> Locks] /\ done \in [Device -> Semaphores]
      /\ busy \in [Device -> BOOLEAN] /\ pc \in [Caller -> PC]
      /\ dev \in [Caller -> Device]
  BY DEF DeviceInv, DeviceTypeOK
<1>8. /\ pc' = [pc EXCEPT ![t] = "wait"]
      /\ done' = [done EXCEPT ![e] = Slept(t)]
  BY <1>1, <1>2, <1>3
<1>9. /\ \A d \in Device \ {e} : lock'[d] = lock[d] /\ done'[d] = done[d] /\ busy'[d] = busy[d]
      /\ lock'[e] = HeldBy(lock[e], t) /\ done'[e] = Slept(t) /\ busy'[e]
      /\ \A u \in Caller \ {t} : pc'[u] = pc[u]
      /\ pc'[t] = "wait" /\ dev' = dev /\ dev[t] = e
  BY <1>1, <1>2, <1>7, <1>8
<1>10. \A d \in Device : lock'[d].value = lock[d].value /\ lock'[d].queue = lock[d].queue
  BY <1>4, <1>9
<1>11. DeviceTypeOK'
  BY <1>1, <1>2, <1>3, <1>6, <1>7, <1>8 DEF DeviceTypeOK, PC
<1>12. LockInv'
  <2>1. \A d \in Device, u \in Caller : Inside(u, d)' => Inside(u, d)
    BY <1>1, <1>9 DEF Inside
  <2>2. \A u \in Caller : pc'[u] \in {"wait", "release"} => lock'[dev'[u]].holder = u
    <3> SUFFICES ASSUME NEW u \in Caller, pc'[u] \in {"wait", "release"}
                 PROVE  lock'[dev'[u]].holder = u
      OBVIOUS
    <3>1. CASE u = t
      BY <1>4, <1>9, <3>1
    <3>2. CASE u # t
      <4>1. pc[u] \in {"wait", "release"} /\ dev[u] \in Device
        BY <1>7, <1>9, <3>2
      <4>2. dev[u] # e
        BY <1>2, <3>2, <4>1 DEF Inside
      <4> QED  BY <1>9, <4>1, <4>2 DEF DeviceInv, LockInv
    <3> QED  BY <3>1, <3>2
  <2> QED  BY <1>10, <2>1, <2>2 DEF DeviceInv, LockInv
<1>13. DoneInv'
  <2>1. \A d \in Device \ {e}, u \in Caller : Waiting(u, d)' <=> Waiting(u, d)
    BY <1>1, <1>9 DEF Waiting
  <2>2. Waiting(t, e)' /\ \A u \in Caller \ {t} : ~Waiting(u, e)'
    <3>1. Waiting(t, e)'
      BY <1>9 DEF Waiting
    <3>2. \A u \in Caller \ {t} : pc'[u] = pc[u] /\ dev'[u] = dev[u]
      BY <1>9
    <3> QED  BY <1>2, <3>1, <3>2 DEF Waiting
  <2> SUFFICES ASSUME NEW d \in Device
               PROVE  /\ \A u \in Caller : Waiting(u, d)' =>
                           done'[d] = IF busy'[d] THEN Slept(u) ELSE Rung
                      /\ (\A u \in Caller : ~Waiting(u, d)') => ~busy'[d] /\ done'[d] = Quiet
    BY DEF DoneInv, Quiet, Slept, Rung
  <2>3. CASE d # e
    BY <1>9, <2>1, <2>3 DEF DeviceInv, DoneInv
  <2>4. CASE d = e
    BY <1>9, <2>2, <2>4
  <2> QED  BY <2>3, <2>4
<1>14. QueueInv'
  BY <1>1, <1>8, <1>10, InsideKeepsQueueInv
<1> QED  BY <1>11, <1>12, <1>13, <1>14 DEF DeviceInv

LEMMA ResumeKeepsInv ==
  ASSUME DeviceInv, NEW t \in Caller, Resume(t)
  PROVE  DeviceInv'
<1> PICK e \in Device : e = dev[t]
  BY DEF DeviceInv, DeviceTypeOK
<1>1. /\ pc[t] = "wait" /\ ~Asleep(done[e], t) /\ UNCHANGED <<lock, busy, dev>>
      /\ done' = [done EXCEPT ![e] = P(done[e], t)]
      /\ pc' = [pc EXCEPT ![t] = IF Passes(done[e]) THEN "release" ELSE "wait"]
  BY DEF Resume, AwaitDone
<1>2. /\ \A u \in Caller \ {t} : ~Inside(u, e) /\ ~Waiting(u, e)
      /\ done[e] = IF busy[e] THEN Slept(t) ELSE Rung
  BY <1>1, WhoIsInside
<1>3. /\ Asleep(Slept(t), t) /\ Passes(Rung) /\ P(Rung, t) = Quiet
      /\ Quiet \in Semaphores
  BY DoneSemaphore
<1>4. ~busy[e] /\ done[e] = Rung
  BY <1>1, <1>2, <1>3
<1>5. /\ pc' = [pc EXCEPT ![t] = "release"]
      /\ done' = [done EXCEPT ![e] = Quiet]
  BY <1>1, <1>3, <1>4
<1>6. /\ lock \in [Device -> Locks] /\ done \in [Device -> Semaphores]
      /\ busy \in [Device -> BOOLEAN] /\ pc \in [Caller -> PC]
      /\ dev \in [Caller -> Device]
  BY DEF DeviceInv, DeviceTypeOK
<1>7. /\ \A d \in Device \ {e} : done'[d] = done[d]
      /\ done'[e] = Quiet /\ ~busy'[e]
      /\ \A u \in Caller \ {t} : pc'[u] = pc[u]
      /\ pc'[t] = "release" /\ dev' = dev /\ lock' = lock /\ busy' = busy
  BY <1>1, <1>4, <1>5, <1>6
<1>8. DeviceTypeOK'
  BY <1>1, <1>3, <1>5, <1>6 DEF DeviceTypeOK, PC
<1>9. LockInv'
  <2>1. \A d \in Device, u \in Caller : Inside(u, d)' => Inside(u, d)
    BY <1>1, <1>7 DEF Inside
  <2>2. \A u \in Caller : pc'[u] \in {"wait", "release"} => pc[u] \in {"wait", "release"}
    BY <1>1, <1>7
  <2> QED  BY <1>7, <2>1, <2>2 DEF DeviceInv, LockInv
<1>10. DoneInv'
  <2>1. \A d \in Device \ {e}, u \in Caller : Waiting(u, d)' <=> Waiting(u, d)
    BY <1>1, <1>7 DEF Waiting
  <2>2. \A u \in Caller : ~Waiting(u, e)'
    BY <1>2, <1>7 DEF Waiting
  <2> SUFFICES ASSUME NEW d \in Device
               PROVE  /\ \A u \in Caller : Waiting(u, d)' =>
                           done'[d] = IF busy'[d] THEN Slept(u) ELSE Rung
                      /\ (\A u \in Caller : ~Waiting(u, d)') => ~busy'[d] /\ done'[d] = Quiet
    BY DEF DoneInv, Quiet, Slept, Rung
  <2>3. CASE d # e
    BY <1>7, <2>1, <2>3 DEF DeviceInv, DoneInv
  <2>4. CASE d = e
    BY <1>7, <2>2, <2>4
  <2> QED  BY <2>3, <2>4
<1>11. QueueInv'
  BY <1>1, <1>5, InsideKeepsQueueInv
<1> QED  BY <1>8, <1>9, <1>10, <1>11 DEF DeviceInv

LEMMA ReturnKeepsInv ==
  ASSUME DeviceInv, NEW t \in Caller, Return(t)
  PROVE  DeviceInv'
<1> PICK e \in Device : e = dev[t]
  BY DEF DeviceInv, DeviceTypeOK
<1>1. /\ pc[t] = "release" /\ UNCHANGED <<done, busy, dev>>
      /\ lock' = [lock EXCEPT ![e] = Release(lock[e])]
      /\ pc' = [pc EXCEPT ![t] = "out"]
  BY DEF Return
<1>2. /\ lock[e] \in Locks /\ lock[e].value = 0
      /\ \A u \in Caller \ {t} : ~Inside(u, e) /\ ~Waiting(u, e)
  BY <1>1, WhoIsInside
<1>3. /\ Release(lock[e]) \in Locks
      /\ Release(lock[e]).value = lock[e].value + 1
      /\ Release(lock[e]).queue = IF lock[e].queue = <<>> THEN <<>> ELSE Tail(lock[e].queue)
  BY <1>2, ReleaseLock
<1>4. /\ lock \in [Device -> Locks] /\ done \in [Device -> Semaphores]
      /\ busy \in [Device -> BOOLEAN] /\ pc \in [Caller -> PC]
      /\ dev \in [Caller -> Device]
  BY DEF DeviceInv, DeviceTypeOK
<1>5. /\ \A d \in Device \ {e} : lock'[d] = lock[d]
      /\ lock'[e] = Release(lock[e]) /\ lock'[e].value = 1
      /\ \A u \in Caller \ {t} : pc'[u] = pc[u]
      /\ pc'[t] = "out" /\ dev' = dev /\ done' = done /\ busy' = busy
  BY <1>1, <1>2, <1>3, <1>4
<1>6. DeviceTypeOK'
  BY <1>1, <1>3, <1>4 DEF DeviceTypeOK, PC
<1>7. LockInv'
  <2>1. \A d \in Device, u \in Caller : Inside(u, d)' => Inside(u, d) /\ d # e
    BY <1>2, <1>5 DEF Inside
  <2>2. \A u \in Caller : pc'[u] \in {"wait", "release"} =>
          pc[u] \in {"wait", "release"} /\ dev[u] # e /\ dev[u] \in Device
    BY <1>2, <1>4, <1>5 DEF Inside
  <2>3. \A d \in Device : lock'[d].value \in {0, 1}
    BY <1>5 DEF DeviceInv, LockInv
  <2>4. \A u \in Caller : pc'[u] \in {"wait", "release"} => lock'[dev'[u]].holder = u
    BY <1>5, <2>2 DEF DeviceInv, LockInv
  <2> QED  BY <1>5, <2>1, <2>3, <2>4 DEF DeviceInv, LockInv
<1>8. DoneInv'
  <2>1. \A d \in Device, u \in Caller : Waiting(u, d)' <=> Waiting(u, d)
    BY <1>1, <1>5 DEF Waiting
  <2> QED  BY <1>5, <2>1 DEF DeviceInv, DoneInv, Quiet, Slept, Rung
<1>9. QueueInv'
  <2> SUFFICES ASSUME NEW d \in Device
               PROVE  /\ Distinct(lock'[d].queue)
                      /\ \A u \in Caller : Asleep(lock'[d], u) =>
                           pc'[u] = "acquire" /\ dev'[u] = d
                      /\ lock'[d].value # 0 /\ lock'[d].queue # <<>> =>
                           \E u \in Caller : pc'[u] = "acquire" /\ dev'[u] = d
                                              /\ ~Asleep(lock'[d], u)
    BY DEF QueueInv, Asleep, Distinct
  <2>1. /\ Distinct(lock[d].queue)
        /\ \A u \in Caller : Asleep(lock[d], u) => pc[u] = "acquire" /\ dev[u] = d
        /\ lock[d].value # 0 /\ lock[d].queue # <<>> =>
             \E u \in Caller : pc[u] = "acquire" /\ dev[u] = d /\ ~Asleep(lock[d], u)
    BY DEF DeviceInv, QueueInv
  <2>2. \A u \in Caller : pc[u] = "acquire" => pc'[u] = "acquire"
    BY <1>1, <1>5
  <2>3. CASE d # e
    BY <1>5, <2>1, <2>2, <2>3
  <2>4. CASE d = e /\ lock[e].queue = <<>>
    <3>1. lock'[e].queue = <<>>
      BY <1>3, <1>5, <2>4
    <3> QED  BY <2>4, <3>1 DEF Distinct, Asleep
  <2>5. CASE d = e /\ lock[e].queue # <<>>
    <3>1. lock[e].queue \in Seq(Caller) /\ lock'[e].queue = Tail(lock[e].queue)
      BY <1>2, <1>3, <1>5, <2>5 DEF Locks
    <3>2. ASSUME NEW r, r = lock'[e]
          PROVE  /\ Distinct(r.queue)
                 /\ \A u \in Caller : Asleep(r, u) => Asleep(lock[e], u)
                 /\ Head(lock[e].queue) \in Caller
                 /\ Asleep(lock[e], Head(lock[e].queue)) /\ ~Asleep(r, Head(lock[e].queue))
      <4>1. r.queue = Tail(lock[e].queue)
        BY <3>1, <3>2
      <4> QED  BY <2>1, <2>5, <3>1, <4>1, WokenUp
    <3>3. LET h == Head(lock[e].queue)
          IN  h \in Caller /\ pc'[h] = "acquire" /\ dev'[h] = d /\ ~Asleep(lock'[e], h)
      BY <1>5, <2>1, <2>2, <2>5, <3>2
    <3> QED  BY <1>5, <2>1, <2>2, <2>5, <3>2, <3>3
  <2> QED  BY <2>3, <2>4, <2>5
<1> QED  BY <1>6, <1>7, <1>8, <1>9 DEF DeviceInv

LEMMA CallBackKeepsInv ==
  ASSUME DeviceInv, NEW e \in Device, CallBack(e)
  PROVE  DeviceInv'
<1>1. /\ busy[e] /\ UNCHANGED <<lock, pc, dev>>
      /\ busy' = [busy EXCEPT ![e] = FALSE]
      /\ done' = [done EXCEPT ![e] = V(done[e])]
  BY DEF CallBack
<1>2. PICK t \in Caller : Waiting(t, e)
  BY <1>1 DEF DeviceInv, DoneInv
<1>3. done[e] = Slept(t)
  BY <1>1, <1>2 DEF DeviceInv, DoneInv
<1>4. V(Slept(t)) = Rung /\ Rung \in Semaphores
  BY DoneSemaphore
<1>5. /\ lock \in [Device -> Locks] /\ done \in [Device -> Semaphores]
      /\ busy \in [Device -> BOOLEAN] /\ pc \in [Caller -> PC]
      /\ dev \in [Caller -> Device]
  BY DEF DeviceInv, DeviceTypeOK
<1>6. /\ \A d \in Device \ {e} : done'[d] = done[d] /\ busy'[d] = busy[d]
      /\ done'[e] = Rung /\ ~busy'[e]
      /\ pc' = pc /\ dev' = dev /\ lock' = lock
  BY <1>1, <1>3, <1>4, <1>5
<1>7. DeviceTypeOK'
  BY <1>1, <1>3, <1>4, <1>5 DEF DeviceTypeOK
<1>8. LockInv'
  BY <1>6 DEF DeviceInv, LockInv, Inside
<1>9. DoneInv'
  <2>1. \A d \in Device, u \in Caller : Waiting(u, d)' <=> Waiting(u, d)
    BY <1>6 DEF Waiting
  <2> SUFFICES ASSUME NEW d \in Device
               PROVE  /\ \A u \in Caller : Waiting(u, d)' =>
                           done'[d] = IF busy'[d] THEN Slept(u) ELSE Rung
                      /\ (\A u \in Caller : ~Waiting(u, d)') => ~busy'[d] /\ done'[d] = Quiet
    BY DEF DoneInv, Quiet, Slept, Rung
  <2>2. CASE d # e
    BY <1>6, <2>1, <2>2 DEF DeviceInv, DoneInv
  <2>3. CASE d = e
    BY <1>2, <1>6, <2>1, <2>3
  <2> QED  BY <2>2, <2>3
<1>10. QueueInv'
  BY <1>6 DEF DeviceInv, QueueInv, Distinct, Asleep
<1> QED  BY <1>7, <1>8, <1>9, <1>10 DEF DeviceInv

LEMMA InitInv == DeviceInit => DeviceInv
<1> SUFFICES ASSUME DeviceInit
             PROVE  DeviceInv
  OBVIOUS
<1>1. /\ \A d \in Device : /\ lock[d] = [value |-> 1, queue |-> <<>>, holder |-> Nobody]
                            /\ done[d] = Quiet /\ ~busy[d]
      /\ \A t \in Caller : pc[t] = "out"
  BY DEF DeviceInit, NewLock, NewSemaphore, Quiet
<1>2. /\ <<>> \in Seq(Caller)
      /\ NewLock \in Locks /\ NewSemaphore(0) \in Semaphores
  <2>1. <<>> \in Seq(Caller)
    OBVIOUS
  <2> QED  BY <2>1 DEF NewLock, NewSemaphore, Locks, Semaphores
<1>3. DeviceTypeOK
  BY <1>2 DEF DeviceInit, DeviceTypeOK, PC
<1>4. LockInv
  BY <1>1 DEF LockInv, Inside
<1>5. DoneInv
  BY <1>1 DEF DoneInv, Waiting
<1>6. QueueInv
  BY <1>1 DEF QueueInv, Distinct, Asleep
<1> QED  BY <1>3, <1>4, <1>5, <1>6 DEF DeviceInv

LEMMA NextKeepsInv == DeviceInv /\ [DeviceNext]_deviceVars => DeviceInv'
<1> SUFFICES ASSUME DeviceInv, [DeviceNext]_deviceVars
             PROVE  DeviceInv'
  OBVIOUS
<1>1. ASSUME NEW t \in Caller, NEW d \in Device, Call(t, d)
      PROVE  DeviceInv'
  BY <1>1, LockingKeepsInv DEF Call
<1>2. ASSUME NEW t \in Caller, Acquire(t)
      PROVE  DeviceInv'
  <2> PICK e \in Device : e = dev[t]
    BY DEF DeviceInv, DeviceTypeOK
  <2>1. dev' = [dev EXCEPT ![t] = e]
    BY <1>2 DEF Acquire, DeviceInv, DeviceTypeOK
  <2> QED  BY <1>2, <2>1, LockingKeepsInv DEF Acquire
<1>3. ASSUME NEW t \in Caller, Request(t) \/ Resume(t) \/ Return(t)
      PROVE  DeviceInv'
  BY <1>3, RequestKeepsInv, ResumeKeepsInv, ReturnKeepsInv
<1>4. ASSUME NEW d \in Device, CallBack(d)
      PROVE  DeviceInv'
  BY <1>4, CallBackKeepsInv
<1>5. CASE UNCHANGED deviceVars
  BY <1>5 DEF deviceVars, DeviceInv, DeviceTypeOK, LockInv, DoneInv, QueueInv,
              Inside, Waiting, Distinct, Asleep, Quiet, Slept, Rung
<1> QED  BY <1>1, <1>2, <1>3, <1>4, <1>5 DEF DeviceNext

\* The inductive invariant holds in every state (filesys/synchdisk.cc,
\* userprog/synchconsole.cc, network/post.cc over threads/synch.cc).
THEOREM InvHolds == DeviceSpec => []DeviceInv
BY InitInv, NextKeepsInv, PTL DEF DeviceSpec

\* The locks, semaphores and devices keep their types.
THEOREM DeviceTypesHold == DeviceSpec => []DeviceTypeOK
<1>1. DeviceInv => DeviceTypeOK
  BY DEF DeviceInv
<1> QED  BY <1>1, InvHolds, PTL

LEMMA InvImpliesOneRequest == DeviceInv => OneRequestAtATime
<1> SUFFICES ASSUME DeviceInv, NEW t \in Caller
             PROVE  /\ pc[t] = "request" => ~busy[dev[t]]
                    /\ pc[t] = "release" => lock[dev[t]].holder = t
                    /\ \A u \in Caller, d \in Device : Inside(t, d) /\ Inside(u, d) => t = u
  BY DEF OneRequestAtATime
<1>1. pc[t] = "request" => ~busy[dev[t]]
  BY WhoIsInside
<1> QED  BY <1>1 DEF DeviceInv, LockInv

\* No request reaches a busy device, and one thread at a time is between
\* lock->Acquire and lock->Release (the assertions of disk.cc:117 and :137,
\* console.cc:176 and synch.cc:200 hold), for any devices and threads.
THEOREM DevicesServeOneRequest == DeviceSpec => []OneRequestAtATime
BY InvHolds, InvImpliesOneRequest, PTL

LEMMA InvImpliesAnswered == DeviceInv => CallBackAnswersItsRequest
<1> SUFFICES ASSUME DeviceInv
             PROVE  CallBackAnswersItsRequest
  OBVIOUS
<1>1. Quiet.value = 0 /\ \A t \in Caller : Slept(t).value = 0
  BY DEF Quiet, Slept
<1>2. ASSUME NEW t \in Caller, pc[t] = "release"
      PROVE  ~busy[dev[t]] /\ done[dev[t]].value = 0
  BY <1>1, <1>2, WhoIsInside
<1>3. ASSUME NEW d \in Device, busy[d] \/ ~\E t \in Caller : Inside(t, d)
      PROVE  done[d].value = 0
  <2>1. CASE \E t \in Caller : Waiting(t, d)
    <3>1. busy[d]
      BY <1>3, <2>1 DEF Waiting, Inside
    <3> QED  BY <1>1, <2>1, <3>1 DEF DeviceInv, DoneInv
  <2>2. CASE ~\E t \in Caller : Waiting(t, d)
    BY <1>1, <2>2 DEF DeviceInv, DoneInv
  <2> QED  BY <2>1, <2>2
<1> QED  BY <1>2, <1>3 DEF CallBackAnswersItsRequest

\* A call returns on the callback of its own request, and no signal of the
\* semaphore is left over for the next one (SynchDisk::ReadSector and the like).
THEOREM CallBacksAreNotMixedUp == DeviceSpec => []CallBackAnswersItsRequest
BY InvHolds, InvImpliesAnswered, PTL

LEMMA InvImpliesNoSleeperForgotten == DeviceInv => NoSleeperForgotten
<1> SUFFICES ASSUME DeviceInv, NEW d \in Device
             PROVE  /\ lock[d].value # 0 /\ lock[d].queue # <<>> =>
                         \E t \in Caller : pc[t] = "acquire" /\ dev[t] = d
                                            /\ ~Asleep(lock[d], t)
                    /\ done[d].queue # <<>> => busy[d] /\ done[d].value = 0
  BY DEF NoSleeperForgotten
<1>1. done[d].queue # <<>> => busy[d] /\ done[d].value = 0
  <2>1. /\ Quiet.queue = <<>> /\ Rung.queue = <<>>
        /\ \A t \in Caller : Slept(t).value = 0
    BY DEF Quiet, Rung, Slept
  <2>2. CASE \E t \in Caller : Waiting(t, d)
    BY <2>1, <2>2 DEF DeviceInv, DoneInv
  <2>3. CASE ~\E t \in Caller : Waiting(t, d)
    BY <2>1, <2>3 DEF DeviceInv, DoneInv
  <2> QED  BY <2>2, <2>3
<1> QED  BY <1>1 DEF DeviceInv, QueueInv

\* While threads sleep for a free lock one of them is on its way to it, and
\* nobody sleeps for a callback that has come (Semaphore::P and V, synch.cc).
THEOREM SleepersAreWoken == DeviceSpec => []NoSleeperForgotten
BY InvHolds, InvImpliesNoSleeperForgotten, PTL

-------------------------------------------------------------------------------
(* The senders are callers of a device *)

LEMMA OutputInit == Init => DeviceInit
BY DEF Init

LEMMA OutputStep == [Next]_vars => [DeviceNext]_deviceVars
<1> SUFFICES ASSUME [Next]_vars
             PROVE  DeviceNext \/ UNCHANGED deviceVars
  OBVIOUS
<1>1. ASSUME NEW t \in Caller, Send(t)
      PROVE  DeviceNext
  BY <1>1, PostAssumption DEF Send, DeviceNext
<1>2. ASSUME NEW t \in Caller, SenderStep(t)
      PROVE  DeviceNext
  BY <1>2 DEF SenderStep, Transmit, LockAndWait, DeviceNext
<1>3. ASSUME NEW d \in Device, DeviceInterrupt(d)
      PROVE  DeviceNext
  BY <1>3 DEF DeviceInterrupt, DeviceNext
<1>4. CASE NetworkInterrupt
  BY <1>4 DEF NetworkInterrupt, outputVars
<1>5. CASE WorkerStep
  BY <1>5 DEF WorkerStep, AwaitMessage, TakePacket, WorkerAcquires, AppendLetter,
              WorkerReleases, outputVars
<1>6. ASSUME NEW r \in Receiver, ReceiverStep(r) \/ \E b \in Box : Receive(r, b)
      PROVE  UNCHANGED deviceVars
  BY <1>6 DEF ReceiverStep, ReceiverAcquires, RemoveFront, WaitForMail, AwaitSignal,
              Receive, outputVars
<1>7. CASE UNCHANGED vars
  BY <1>7 DEF vars, outputVars
<1> QED  BY <1>1, <1>2, <1>3, <1>4, <1>5, <1>6, <1>7 DEF Next

\* PostOfficeOutput::Send over NetworkOutput is an instance of the synchronized
\* devices, with any number of senders, receivers, boxes and mails.
THEOREM ImplementsSynchDevice == Spec => DeviceSpec
BY OutputInit, OutputStep, PTL DEF Spec, DeviceSpec

\* In the whole post office: the network is asked to send one packet at a time,
\* Send returns on the callback of its own packet, and no sender is forgotten.
THEOREM SendersAreServed ==
  Spec => [](OneRequestAtATime /\ CallBackAnswersItsRequest /\ NoSleeperForgotten)
BY ImplementsSynchDevice, DevicesServeOneRequest, CallBacksAreNotMixedUp,
   SleepersAreWoken, PTL

-------------------------------------------------------------------------------
(* The input side *)

Reader == Receiver \cup {Worker}

BoxLocks == [value : {0, 1}, queue : Seq(Reader), holder : Reader \cup {Nobody}]

\* A semaphore on which nobody but w sleeps, and whose signals do not add up.
Solo(w) == [value : {0, 1}, queue : {<<>>, <<w>>}]

In(q, x) == \E i \in DOMAIN q : q[i] = x

\* x is past the P of the lock of b's list and has not released it.
Within(x, b) ==
  IF x = Worker THEN wpc \in {"append", "release"} /\ hand.to = b
  ELSE rpc[x] = "test" /\ box[x] = b

\* The receivers in a call on b that wait for no further signal.
Looking(b) ==
  {r \in Receiver : box[r] = b /\ rpc[r] # "out" /\ ~In(waiters[b], r)}

InputTypes ==
  /\ wire \in Seq(Letter) /\ inbox \in Letter \cup {NoMail} /\ hand \in Letter \cup {NoMail}
  /\ available \in Solo(Worker)
  /\ wpc \in {"wait", "receive", "acquire", "append", "release"}
  /\ boxLock \in [Box -> BoxLocks]
  /\ letters \in [Box -> Seq(Mail)]
  /\ waiters \in [Box -> Seq(Receiver)]
  /\ signal \in [Receiver -> UNION {Solo(r) : r \in Receiver}]
  /\ \A r \in Receiver : signal[r] \in Solo(r)
  /\ rpc \in [Receiver -> {"out", "acquire", "test", "sleep"}]
  /\ box \in [Receiver -> Box]
  /\ received \in [Box -> Seq(Mail)]

\* A letter to send is in the sender's hands until the request.
LetterInv ==
  /\ unsent \subseteq Mail
  /\ letter \in [Caller -> Letter \cup {NoMail}]
  /\ \A t \in Caller : pc[t] \in {"acquire", "request"} => letter[t] \in Letter

WorkerInv ==
  /\ WorkerFindsThePacket
  /\ wpc = "receive" => available.value = 0
  /\ wpc \in {"acquire", "append", "release"} => hand \in Letter

MutexInv ==
  \A b \in Box :
    /\ \A x \in Reader : Within(x, b) => boxLock[b].value = 0
    /\ \A x, y \in Reader : Within(x, b) /\ Within(y, b) => x = y

\* Whom a box's condition will signal sleeps for it and was not signalled.
WaitInv ==
  \A b \in Box :
    /\ Distinct(waiters[b])
    /\ \A r \in Receiver : In(waiters[b], r) =>
         rpc[r] = "sleep" /\ box[r] = b /\ signal[r].value = 0

CountInv ==
  \A b \in Box : waiters[b] # <<>> => Len(letters[b]) <= Cardinality(Looking(b))

InputInv == InputTypes /\ WorkerInv /\ MutexInv /\ WaitInv /\ CountInv

-------------------------------------------------------------------------------
(* Queues, semaphores and locks *)

LEMMA JoinQueue ==
  ASSUME NEW S, NEW q \in Seq(S), NEW x \in S
  PROVE  /\ Append(q, x) \in Seq(S) /\ Append(q, x) # <<>>
         /\ \A y : In(Append(q, x), y) <=> In(q, y) \/ y = x
         /\ Distinct(q) /\ ~In(q, x) => Distinct(Append(q, x))
<1>1. /\ Append(q, x) \in Seq(S) /\ DOMAIN q = 1 .. Len(q) /\ Len(q) \in Nat
      /\ Len(Append(q, x)) = Len(q) + 1 /\ DOMAIN Append(q, x) = 1 .. Len(q) + 1
      /\ \A i \in 1 .. Len(q) : Append(q, x)[i] = q[i]
      /\ Append(q, x)[Len(q) + 1] = x
  OBVIOUS
<1>2. Append(q, x) # <<>>
  BY <1>1
<1>3. \A y : In(Append(q, x), y) <=> In(q, y) \/ y = x
  BY <1>1 DEF In
<1>4. Distinct(q) /\ ~In(q, x) => Distinct(Append(q, x))
  BY <1>1 DEF In, Distinct
<1> QED
  BY <1>1, <1>2, <1>3, <1>4

LEMMA LeaveQueue ==
  ASSUME NEW S, NEW q \in Seq(S), q # <<>>
  PROVE  /\ Tail(q) \in Seq(S) /\ Len(Tail(q)) = Len(q) - 1 /\ Len(q) \in Nat \ {0}
         /\ Head(q) \in S /\ In(q, Head(q))
         /\ Distinct(q) => /\ Distinct(Tail(q))
                           /\ \A y : In(Tail(q), y) <=> In(q, y) /\ y # Head(q)
<1>1. /\ Tail(q) \in Seq(S) /\ DOMAIN q = 1 .. Len(q) /\ Len(q) \in Nat \ {0}
      /\ Len(Tail(q)) = Len(q) - 1 /\ DOMAIN Tail(q) = 1 .. Len(q) - 1
      /\ \A i \in 1 .. Len(q) - 1 : Tail(q)[i] = q[i + 1]
      /\ Head(q) = q[1] /\ 1 \in DOMAIN q /\ q[1] \in S
  OBVIOUS
<1>2. In(q, Head(q))
  BY <1>1 DEF In
<1>3. ASSUME Distinct(q) PROVE Distinct(Tail(q))
  BY <1>1, <1>3 DEF Distinct
<1>4. ASSUME Distinct(q), NEW y PROVE In(Tail(q), y) <=> In(q, y) /\ y # Head(q)
  <2>1. ASSUME NEW i \in DOMAIN Tail(q), Tail(q)[i] = y PROVE In(q, y) /\ y # Head(q)
    <3>1. i + 1 \in DOMAIN q /\ q[i + 1] = y /\ i + 1 # 1
      BY <1>1, <2>1
    <3> QED
      BY <1>1, <1>4, <3>1 DEF In, Distinct
  <2>2. ASSUME NEW i \in DOMAIN q, q[i] = y, y # Head(q) PROVE In(Tail(q), y)
    <3>1. i - 1 \in DOMAIN Tail(q) /\ Tail(q)[i - 1] = y
      BY <1>1, <2>2
    <3> QED
      BY <3>1 DEF In
  <2> QED
    BY <2>1, <2>2 DEF In
<1> QED
  BY <1>1, <1>2, <1>3, <1>4

LEMMA SoloSemaphore ==
  ASSUME NEW w, NEW s \in Solo(w)
  PROVE  /\ NewSemaphore(0) \in Solo(w) /\ NewSemaphore(0).value = 0
         /\ s.value = 0 => V(s) \in Solo(w) /\ V(s).value = 1
         /\ ~Asleep(s, w) => P(s, w) \in Solo(w) /\ P(s, w).value = 0
         /\ Passes(s) <=> s.value = 1
<1>1. /\ s = [value |-> s.value, queue |-> s.queue]
      /\ s.value \in {0, 1} /\ s.queue \in {<<>>, <<w>>}
  BY DEF Solo
<1>2. NewSemaphore(0) \in Solo(w) /\ NewSemaphore(0).value = 0
  BY DEF NewSemaphore, Solo
<1>3. Passes(s) <=> s.value = 1
  BY <1>1 DEF Passes
<1>4. ASSUME s.value = 0 PROVE V(s) = [value |-> 1, queue |-> <<>>]
  <2>1. CASE s.queue = <<>>
    BY <1>1, <1>4, <2>1 DEF V, FrontWoken
  <2>2. CASE s.queue = <<w>>
    <3>1. Tail(<<w>>) = <<>> /\ <<w>> # <<>>
      OBVIOUS
    <3>2. FrontWoken(s) = [value |-> 0, queue |-> <<>>]
      BY <1>1, <1>4, <2>2, <3>1 DEF FrontWoken
    <3> QED
      BY <3>2 DEF V
  <2> QED
    BY <1>1, <2>1, <2>2
<1>5. ASSUME ~Asleep(s, w) PROVE P(s, w) \in Solo(w) /\ P(s, w).value = 0
  <2>1. s.queue = <<>>
    <3>1. <<w>>[1] = w /\ 1 \in DOMAIN <<w>>
      OBVIOUS
    <3> QED
      BY <1>1, <1>5, <3>1 DEF Asleep
  <2>2. Append(<<>>, w) = <<w>>
    OBVIOUS
  <2>3. CASE s.value = 1
    <3>1. P(s, w) = [value |-> 0, queue |-> <<>>]
      BY <1>1, <1>3, <2>1, <2>3 DEF P
    <3> QED
      BY <3>1 DEF Solo
  <2>4. CASE s.value = 0
    <3>1. P(s, w) = [value |-> 0, queue |-> <<w>>]
      BY <1>1, <1>3, <2>1, <2>2, <2>4 DEF P
    <3> QED
      BY <3>1 DEF Solo
  <2> QED
    BY <1>1, <2>3, <2>4
<1> QED
  BY <1>2, <1>3, <1>4, <1>5 DEF Solo

LEMMA BoxLock ==
  ASSUME NEW l \in BoxLocks, NEW x \in Reader
  PROVE  /\ P(l, x) \in BoxLocks /\ P(l, x).value = 0
         /\ HeldBy(l, x) \in BoxLocks /\ HeldBy(l, x).value = l.value
         /\ l.value = 0 => Release(l) \in BoxLocks
         /\ Passes(l) <=> l.value = 1
<1>1. /\ l = [value |-> l.value, queue |-> l.queue, holder |-> l.holder]
      /\ l.value \in {0, 1} /\ l.queue \in Seq(Reader) /\ l.holder \in Reader \cup {Nobody}
  BY DEF BoxLocks
<1>2. Passes(l) <=> l.value = 1
  BY <1>1 DEF Passes
<1>3. P(l, x) \in BoxLocks /\ P(l, x).value = 0
  <2>1. CASE l.value = 1
    <3>1. P(l, x) = [value |-> 0, queue |-> l.queue, holder |-> l.holder]
      BY <1>1, <1>2, <2>1 DEF P
    <3> QED
      BY <1>1, <3>1 DEF BoxLocks
  <2>2. CASE l.value = 0
    <3>1. ~Passes(l) /\ Append(l.queue, x) \in Seq(Reader)
      BY <1>1, <1>2, <2>2
    <3>2. P(l, x) = [value |-> l.value, queue |-> Append(l.queue, x), holder |-> l.holder]
      BY <1>1, <3>1 DEF P
    <3> QED
      BY <1>1, <2>2, <3>1, <3>2 DEF BoxLocks
  <2> QED
    BY <1>1, <2>1, <2>2
<1>4. HeldBy(l, x) \in BoxLocks /\ HeldBy(l, x).value = l.value
  <2>1. HeldBy(l, x) = [value |-> l.value, queue |-> l.queue, holder |-> x]
    BY <1>1 DEF HeldBy
  <2> QED
    BY <1>1, <2>1 DEF BoxLocks
<1>5. ASSUME l.value = 0 PROVE Release(l) \in BoxLocks
  <2>1. HeldBy(l, Nobody) = [value |-> 0, queue |-> l.queue, holder |-> Nobody]
    BY <1>1, <1>5 DEF HeldBy
  <2>2. CASE l.queue = <<>>
    <3>1. Release(l) = [value |-> 1, queue |-> l.queue, holder |-> Nobody]
      BY <2>1, <2>2 DEF Release, V, FrontWoken
    <3> QED
      BY <1>1, <3>1 DEF BoxLocks
  <2>3. CASE l.queue # <<>>
    <3> DEFINE f == FrontWoken(HeldBy(l, Nobody))
    <3>1. f = [value |-> 0, queue |-> Tail(l.queue), holder |-> Nobody]
      BY <2>1, <2>3 DEF FrontWoken
    <3>2. Release(l) = [f EXCEPT !.value = f.value + 1]
      BY DEF Release, V
    <3>5. ASSUME NEW g, NEW q, g = [value |-> 0, queue |-> q, holder |-> Nobody]
          PROVE  [g EXCEPT !.value = g.value + 1]
                   = [value |-> 1, queue |-> q, holder |-> Nobody]
      BY <3>5
    <3> HIDE DEF f
    <3>4. Release(l) = [value |-> 1, queue |-> Tail(l.queue), holder |-> Nobody]
      BY <3>1, <3>2, <3>5
    <3>3. Tail(l.queue) \in Seq(Reader)
      BY <1>1, <2>3
    <3> QED
      BY <1>1, <3>3, <3>4 DEF BoxLocks
  <2> QED
    BY <2>2, <2>3
<1> QED
  BY <1>2, <1>3, <1>4, <1>5

-------------------------------------------------------------------------------
(* What a step does to the parts of the invariant *)

LEMMA MutexStays ==
  ASSUME MutexInv, \A b \in Box : boxLock'[b].value = boxLock[b].value,
         \A b \in Box, x \in Reader : Within(x, b)' => Within(x, b)
  PROVE  MutexInv'
BY DEF MutexInv

LEMMA MutexEntered ==
  ASSUME MutexInv, NEW x \in Reader, NEW b \in Box, boxLock[b].value = 1,
         \A c \in Box \ {b} : boxLock'[c].value = boxLock[c].value,
         boxLock'[b].value = 0,
         \A c \in Box, y \in Reader : Within(y, c)' => Within(y, c) \/ (y = x /\ c = b)
  PROVE  MutexInv'
<1>1. \A y \in Reader : ~Within(y, b)
  BY DEF MutexInv
<1> QED
  BY <1>1 DEF MutexInv

LEMMA MutexLeft ==
  ASSUME MutexInv, NEW x \in Reader, NEW b \in Box, Within(x, b),
         \A c \in Box \ {b} : boxLock'[c].value = boxLock[c].value,
         \A c \in Box, y \in Reader : Within(y, c)' => Within(y, c) /\ ~(y = x /\ c = b)
  PROVE  MutexInv'
<1>1. \A y \in Reader : ~Within(y, b)'
  BY DEF MutexInv
<1> QED
  BY <1>1 DEF MutexInv

LEMMA LookingIsFinite ==
  \A b : IsFiniteSet(Looking(b)) /\ Cardinality(Looking(b)) \in Nat
<1> TAKE b
<1>1. Looking(b) \subseteq Receiver /\ IsFiniteSet(Receiver)
  BY PostAssumption DEF Looking
<1> QED
  BY <1>1, FS_Subset, FS_CardinalityType

LEMMA LookingIsFiniteNext ==
  \A b : IsFiniteSet(Looking(b)') /\ Cardinality(Looking(b)') \in Nat
<1> TAKE b
<1>1. Looking(b)' \subseteq Receiver /\ IsFiniteSet(Receiver)
  BY PostAssumption DEF Looking
<1> QED
  BY <1>1, FS_Subset, FS_CardinalityType

\* More receivers look, and no letter was added.
LEMMA CountKept ==
  ASSUME InputTypes, CountInv,
         \A b \in Box : waiters'[b] # <<>> =>
           \/ Len(letters'[b]) = 0
           \/ waiters[b] # <<>> /\ letters'[b] = letters[b] /\ Looking(b) \subseteq Looking(b)'
  PROVE  CountInv'
<1> SUFFICES ASSUME NEW b \in Box, waiters'[b] # <<>>
             PROVE  Len(letters'[b]) <= Cardinality(Looking(b)')
  BY DEF CountInv
<1>1. IsFiniteSet(Looking(b)') /\ Cardinality(Looking(b)') \in Nat
      /\ Cardinality(Looking(b)) \in Nat /\ Len(letters[b]) \in Nat
  BY LookingIsFinite, LookingIsFiniteNext DEF InputTypes
<1>2. CASE Len(letters'[b]) = 0
  BY <1>1, <1>2
<1>3. CASE /\ waiters[b] # <<>> /\ letters'[b] = letters[b]
           /\ Looking(b) \subseteq Looking(b)'
  <2>1. Cardinality(Looking(b)) <= Cardinality(Looking(b)')
    BY <1>1, <1>3, FS_Subset
  <2>2. Len(letters[b]) <= Cardinality(Looking(b))
    BY <1>3 DEF CountInv
  <2> QED
    BY <1>1, <1>3, <2>1, <2>2
<1> QED
  BY <1>2, <1>3

\* Senders only put letters on the wire.
LEMMA OnlyWire ==
  ASSUME InputInv, wire' \in Seq(Letter),
         UNCHANGED <<inbox, available, hand, wpc, boxVars, receiveVars>>
  PROVE  InputInv'
<1>1. UNCHANGED <<boxLock, letters, waiters, signal, rpc, box, received>>
  BY DEF boxVars, receiveVars
<1>2. InputTypes'
  BY <1>1 DEF InputInv, InputTypes
<1>3. WorkerInv'
  BY DEF InputInv, WorkerInv, WorkerFindsThePacket
<1>4. MutexInv'
  BY <1>1 DEF InputInv, MutexInv, Within
<1>5. WaitInv'
  BY <1>1 DEF InputInv, WaitInv
<1>6. CountInv'
  BY <1>1 DEF InputInv, CountInv, Looking
<1> QED
  BY <1>2, <1>3, <1>4, <1>5, <1>6 DEF InputInv

LEMMA LetterNext == DeviceTypeOK /\ LetterInv /\ [Next]_vars => LetterInv'
<1> SUFFICES ASSUME DeviceTypeOK, LetterInv, [Next]_vars PROVE LetterInv'
  OBVIOUS
<1>0. pc \in [Caller -> PC] /\ letter \in [Caller -> Letter \cup {NoMail}]
  BY DEF DeviceTypeOK, LetterInv
<1>1. ASSUME NEW t \in Caller, Send(t) PROVE LetterInv'
  <2>1. PICK m \in unsent, b \in Box :
          /\ Call(t, Network)
          /\ letter' = [letter EXCEPT ![t] = [id |-> m, to |-> b]]
          /\ unsent' = unsent \ {m}
    BY <1>1 DEF Send
  <2>2. [id |-> m, to |-> b] \in Letter
    BY DEF LetterInv, Letter
  <2>3. \A u \in Caller \ {t} : pc'[u] = pc[u]
    BY <1>0, <2>1 DEF Call
  <2> QED
    BY <1>0, <2>1, <2>2, <2>3 DEF LetterInv
<1>2. ASSUME NEW t \in Caller, Transmit(t) PROVE LetterInv'
  <2>1. /\ letter' = [letter EXCEPT ![t] = NoMail] /\ unsent' = unsent
        /\ pc' = [pc EXCEPT ![t] = IF Passes(done[dev[t]]) THEN "release" ELSE "wait"]
    BY <1>2 DEF Transmit, Request, AwaitDone
  <2> QED
    BY <1>0, <2>1 DEF LetterInv
<1>3. ASSUME NEW t \in Caller, LockAndWait(t) PROVE LetterInv'
  <2>1. letter' = letter /\ unsent' = unsent
    BY <1>3 DEF LockAndWait
  <2>2. \A u \in Caller : pc'[u] \in {"acquire", "request"} => pc[u] \in {"acquire", "request"}
    BY <1>0, <1>3 DEF LockAndWait, Acquire, Resume, Return, AwaitDone
  <2> QED
    BY <2>1, <2>2 DEF LetterInv
<1>4. CASE pc' = pc /\ letter' = letter /\ unsent' = unsent
  BY <1>4 DEF LetterInv
<1>5. \/ \E t \in Caller : Send(t) \/ SenderStep(t)
      \/ pc' = pc /\ letter' = letter /\ unsent' = unsent
  BY DEF Next, DeviceInterrupt, CallBack, NetworkInterrupt, WorkerStep, AwaitMessage,
         TakePacket, WorkerAcquires, AppendLetter, WorkerReleases, ReceiverStep,
         ReceiverAcquires, RemoveFront, WaitForMail, AwaitSignal, Receive, vars,
         outputVars, deviceVars
<1> QED
  BY <1>1, <1>2, <1>3, <1>4, <1>5 DEF SenderStep

-------------------------------------------------------------------------------
(* The steps of the handler and of the worker *)

LEMMA NetworkInterruptKeeps == InputInv /\ NetworkInterrupt => InputInv'
<1> SUFFICES ASSUME InputInv, NetworkInterrupt PROVE InputInv'
  OBVIOUS
<1>1. /\ UNCHANGED <<hand, wpc, boxLock, letters, waiters, signal, rpc, box, received>>
      /\ inbox = NoMail /\ wire # <<>> /\ inbox' = Head(wire) /\ wire' = Tail(wire)
      /\ available' = V(available)
  BY DEF NetworkInterrupt, boxVars, receiveVars
<1>2. available.value = 0 /\ wpc # "receive"
  <2>1. available.value \in {0, 1}
    BY DEF InputInv, InputTypes, Solo
  <2> QED
    BY <1>1, <2>1 DEF InputInv, WorkerInv, WorkerFindsThePacket
<1>3. available' \in Solo(Worker) /\ available'.value = 1
  BY <1>1, <1>2, SoloSemaphore DEF InputInv, InputTypes
<1>4. inbox' \in Letter /\ wire' \in Seq(Letter)
  BY <1>1 DEF InputInv, InputTypes
<1>5. InputTypes'
  BY <1>1, <1>3, <1>4 DEF InputInv, InputTypes
<1>6. WorkerInv'
  BY <1>1, <1>2, <1>3, <1>4, PostAssumption
  DEF InputInv, WorkerInv, WorkerFindsThePacket, Letter
<1>7. MutexInv' /\ WaitInv' /\ CountInv'
  BY <1>1 DEF InputInv, MutexInv, Within, WaitInv, CountInv, Looking
<1> QED
  BY <1>5, <1>6, <1>7 DEF InputInv

LEMMA AwaitMessageKeeps == InputInv /\ AwaitMessage => InputInv'
<1> SUFFICES ASSUME InputInv, AwaitMessage PROVE InputInv'
  OBVIOUS
<1>1. /\ UNCHANGED <<hand, wire, inbox, boxLock, letters, waiters, signal, rpc, box, received>>
      /\ wpc = "wait" /\ available' = P(available, Worker)
      /\ wpc' = IF Passes(available) THEN "receive" ELSE "wait"
      /\ ~Asleep(available, Worker)
  BY DEF AwaitMessage, boxVars, receiveVars
<1>2. /\ available' \in Solo(Worker) /\ available'.value = 0
      /\ Passes(available) <=> available.value = 1
  BY <1>1, SoloSemaphore DEF InputInv, InputTypes
<1>3. InputTypes'
  BY <1>1, <1>2 DEF InputInv, InputTypes
<1>4. WorkerInv'
  BY <1>1, <1>2 DEF InputInv, WorkerInv, WorkerFindsThePacket
<1>5. MutexInv' /\ WaitInv' /\ CountInv'
  BY <1>1 DEF InputInv, MutexInv, Within, WaitInv, CountInv, Looking
<1> QED
  BY <1>3, <1>4, <1>5 DEF InputInv

\* The P of the lock of b's list.
LEMMA AcquireBoxLock ==
  ASSUME boxLock \in [Box -> BoxLocks], NEW b \in Box, NEW x \in Reader,
         boxLock' = [boxLock EXCEPT ![b] = P(boxLock[b], x)]
  PROVE  /\ boxLock' \in [Box -> BoxLocks]
         /\ boxLock'[b].value = 0
         /\ \A c \in Box \ {b} : boxLock'[c].value = boxLock[c].value
         /\ Passes(boxLock[b]) <=> boxLock[b].value = 1
BY BoxLock

LEMMA WorkerLocks ==
  ASSUME InputInv, NEW b \in Box, hand' \in Letter, hand'.to = b,
         wpc \in {"receive", "acquire"},
         boxLock' = [boxLock EXCEPT ![b] = P(boxLock[b], Worker)],
         wpc' = IF Passes(boxLock[b]) THEN "append" ELSE "acquire",
         wire' = wire, available' = available, available.value = 0 \/ wpc = "acquire",
         wpc = "receive" => inbox' = NoMail, wpc = "acquire" => inbox' = inbox,
         UNCHANGED <<letters, waiters, signal, rpc, box, received>>
  PROVE  InputInv'
<1>1. /\ boxLock' \in [Box -> BoxLocks] /\ boxLock'[b].value = 0
      /\ \A c \in Box \ {b} : boxLock'[c].value = boxLock[c].value
      /\ Passes(boxLock[b]) <=> boxLock[b].value = 1
  BY AcquireBoxLock DEF InputInv, InputTypes, Reader
<1>2. InputTypes'
  BY <1>1 DEF InputInv, InputTypes
<1>3. WorkerInv'
  BY DEF InputInv, WorkerInv, WorkerFindsThePacket
<1>4. MutexInv'
  <2>1. CASE Passes(boxLock[b])
    <3>1. \A c \in Box, y \in Reader : Within(y, c)' => Within(y, c) \/ (y = Worker /\ c = b)
      BY DEF Within
    <3> QED
      BY <1>1, <2>1, <3>1, MutexEntered DEF InputInv, Reader
  <2>2. CASE ~Passes(boxLock[b])
    <3>1. \A c \in Box, y \in Reader : Within(y, c)' => Within(y, c)
      BY <2>2 DEF Within
    <3>2. boxLock[b].value = 0
      BY <1>1, <2>2 DEF InputInv, InputTypes, BoxLocks
    <3>3. \A c \in Box : boxLock'[c].value = boxLock[c].value
      BY <1>1, <3>2
    <3> QED
      BY <3>1, <3>3, MutexStays DEF InputInv
  <2> QED
    BY <2>1, <2>2
<1>5. WaitInv' /\ CountInv'
  BY DEF InputInv, WaitInv, CountInv, Looking
<1> QED
  BY <1>2, <1>3, <1>4, <1>5 DEF InputInv

LEMMA TakePacketKeeps == InputInv /\ TakePacket => InputInv'
<1> SUFFICES ASSUME InputInv, TakePacket PROVE InputInv'
  OBVIOUS
<1>1. wpc = "receive" /\ inbox # NoMail /\ available.value = 0
  BY DEF InputInv, WorkerInv, WorkerFindsThePacket, TakePacket
<1>2. hand' = inbox /\ hand' \in Letter /\ hand'.to \in Box
  BY <1>1 DEF InputInv, InputTypes, TakePacket, Letter
<1> QED
  BY <1>1, <1>2, WorkerLocks DEF TakePacket, AcquireBox, receiveVars

LEMMA WorkerAcquiresKeeps == InputInv /\ WorkerAcquires => InputInv'
<1> SUFFICES ASSUME InputInv, WorkerAcquires PROVE InputInv'
  OBVIOUS
<1>1. wpc = "acquire" /\ hand \in Letter /\ hand.to \in Box /\ hand' = hand
  BY DEF InputInv, WorkerInv, WorkerAcquires, Letter
<1> QED
  BY <1>1, WorkerLocks DEF WorkerAcquires, AcquireBox, receiveVars, inputVars

LEMMA WorkerReleasesKeeps == InputInv /\ WorkerReleases => InputInv'
<1> SUFFICES ASSUME InputInv, WorkerReleases PROVE InputInv'
  OBVIOUS
<1> DEFINE b == hand.to
<1>1. /\ wpc = "release" /\ b \in Box /\ wpc' = "wait"
      /\ boxLock' = [boxLock EXCEPT ![b] = Release(boxLock[b])]
      /\ UNCHANGED <<hand, wire, inbox, available, letters, waiters, signal, rpc, box, received>>
  BY DEF InputInv, WorkerInv, WorkerReleases, Letter, inputVars, receiveVars
<1>2. Within(Worker, b) /\ Worker \in Reader
  BY <1>1 DEF Within, Reader
<1>3. boxLock[b].value = 0
  BY <1>1, <1>2 DEF InputInv, MutexInv
<1>4. boxLock' \in [Box -> BoxLocks]
  BY <1>1, <1>2, <1>3, BoxLock DEF InputInv, InputTypes
<1>5. InputTypes'
  BY <1>1, <1>4 DEF InputInv, InputTypes
<1>6. WorkerInv'
  BY <1>1 DEF InputInv, WorkerInv, WorkerFindsThePacket
<1>7. MutexInv'
  <2>1. \A c \in Box, y \in Reader :
          Within(y, c)' => Within(y, c) /\ ~(y = Worker /\ c = b)
    BY <1>1 DEF Within
  <2>2. \A c \in Box \ {b} : boxLock'[c].value = boxLock[c].value
    BY <1>1 DEF InputInv, InputTypes
  <2> QED
    BY <1>1, <1>2, <2>1, <2>2, MutexLeft DEF InputInv
<1>8. WaitInv' /\ CountInv'
  BY <1>1 DEF InputInv, WaitInv, CountInv, Looking
<1> QED
  BY <1>5, <1>6, <1>7, <1>8 DEF InputInv

LEMMA AppendLetterKeeps == InputInv /\ AppendLetter => InputInv'
<1> SUFFICES ASSUME InputInv, AppendLetter PROVE InputInv'
  OBVIOUS
<1>0. PICK b \in Box : b = hand.to
  BY DEF InputInv, WorkerInv, AppendLetter, Letter
<1>1. /\ wpc = "append" /\ hand.id \in Mail /\ hand' = hand
      /\ letters' = [letters EXCEPT ![b] = Append(letters[b], hand.id)]
      /\ UNCHANGED <<wire, inbox, available, rpc, box, received>>
  BY <1>0 DEF InputInv, WorkerInv, AppendLetter, Letter, inputVars, receiveVars
<1>2. Within(Worker, b) /\ Worker \in Reader
  BY <1>0, <1>1 DEF Within, Reader
<1>3. boxLock[b].value = 0 /\ boxLock \in [Box -> BoxLocks] /\ waiters \in [Box -> Seq(Receiver)]
  BY <1>1, <1>2 DEF InputInv, MutexInv, InputTypes
<1>4. letters' \in [Box -> Seq(Mail)] /\ Len(letters'[b]) = Len(letters[b]) + 1
      /\ \A c \in Box \ {b} : letters'[c] = letters[c]
  BY <1>1 DEF InputInv, InputTypes
<1>5. CASE waiters[b] = <<>>
  <2>1. /\ boxLock' = [boxLock EXCEPT ![b] = Release(boxLock[b])]
        /\ wpc' = "wait" /\ UNCHANGED <<waiters, signal>>
    BY <1>0, <1>5 DEF AppendLetter
  <2>2. boxLock' \in [Box -> BoxLocks]
    BY <1>1, <1>2, <1>3, <2>1, BoxLock
  <2>3. InputTypes'
    BY <1>1, <1>4, <2>1, <2>2 DEF InputInv, InputTypes
  <2>4. WorkerInv'
    BY <1>1, <2>1 DEF InputInv, WorkerInv, WorkerFindsThePacket
  <2>5. MutexInv'
    <3>1. \A c \in Box, y \in Reader :
            Within(y, c)' => Within(y, c) /\ ~(y = Worker /\ c = b)
      BY <1>0, <1>1, <2>1 DEF Within
    <3>2. \A c \in Box \ {b} : boxLock'[c].value = boxLock[c].value
      BY <1>3, <2>1
    <3> QED
      BY <1>1, <1>2, <3>1, <3>2, MutexLeft DEF InputInv
  <2>6. WaitInv'
    BY <1>1, <2>1 DEF InputInv, WaitInv
  <2>7. CountInv'
    <3>1. \A c : Looking(c)' = Looking(c)
      BY <1>1, <2>1 DEF Looking
    <3> QED
      BY <1>4, <1>5, <2>1, <3>1 DEF InputInv, CountInv
  <2> QED
    BY <2>3, <2>4, <2>5, <2>6, <2>7 DEF InputInv
<1>6. CASE waiters[b] # <<>>
  <2>0. PICK r \in Receiver : r = Head(waiters[b])
    BY <1>3, <1>6, LeaveQueue
  <2>1. /\ boxLock' = [boxLock EXCEPT ![b] = HeldBy(boxLock[b], Worker)]
        /\ waiters' = [waiters EXCEPT ![b] = Tail(waiters[b])]
        /\ signal' = [signal EXCEPT ![r] = V(signal[r])]
        /\ wpc' = "release"
    BY <1>0, <1>6, <2>0 DEF AppendLetter
  <2>2. /\ Tail(waiters[b]) \in Seq(Receiver) /\ In(waiters[b], r)
        /\ Distinct(Tail(waiters[b]))
        /\ \A y : In(Tail(waiters[b]), y) <=> In(waiters[b], y) /\ y # r
    BY <1>1, <1>3, <1>6, <2>0, LeaveQueue DEF InputInv, WaitInv
  <2>3. rpc[r] = "sleep" /\ box[r] = b /\ signal[r].value = 0
    BY <1>1, <2>2 DEF InputInv, WaitInv
  <2>4. boxLock' \in [Box -> BoxLocks] /\ \A c \in Box : boxLock'[c].value = boxLock[c].value
    <3>1. HeldBy(boxLock[b], Worker) \in BoxLocks
          /\ HeldBy(boxLock[b], Worker).value = boxLock[b].value
      BY <1>1, <1>2, <1>3, BoxLock
    <3> QED
      BY <1>1, <1>3, <2>1, <3>1
  <2>5. /\ signal' \in [Receiver -> UNION {Solo(x) : x \in Receiver}]
        /\ \A x \in Receiver : signal'[x] \in Solo(x)
        /\ \A x \in Receiver \ {r} : signal'[x] = signal[x]
    <3>1. V(signal[r]) \in Solo(r)
      BY <2>2, <2>3, SoloSemaphore DEF InputInv, InputTypes
    <3> QED
      BY <2>1, <2>2, <3>1 DEF InputInv, InputTypes
  <2>6. /\ waiters' \in [Box -> Seq(Receiver)]
        /\ waiters'[b] = Tail(waiters[b])
        /\ \A c \in Box \ {b} : waiters'[c] = waiters[c]
    BY <1>1, <1>3, <2>1, <2>2
  <2>7. InputTypes'
    BY <1>1, <1>4, <2>1, <2>4, <2>5, <2>6 DEF InputInv, InputTypes
  <2>8. WorkerInv'
    BY <1>1, <2>1 DEF InputInv, WorkerInv, WorkerFindsThePacket
  <2>9. MutexInv'
    <3>1. \A c \in Box, y \in Reader : Within(y, c)' => Within(y, c)
      BY <1>0, <1>1, <2>1 DEF Within
    <3> QED
      BY <2>4, <3>1, MutexStays DEF InputInv
  <2>10. WaitInv'
    <3> SUFFICES ASSUME NEW c \in Box
                 PROVE  /\ Distinct(waiters'[c])
                        /\ \A x \in Receiver : In(waiters'[c], x) =>
                             rpc'[x] = "sleep" /\ box'[x] = c /\ signal'[x].value = 0
      BY DEF WaitInv
    <3>1. /\ Distinct(waiters'[c])
          /\ \A x : In(waiters'[c], x) => In(waiters[c], x) /\ ~(c = b /\ x = r)
      <4>1. CASE c = b
        BY <2>2, <2>6, <4>1
      <4>2. CASE c # b
        BY <2>6, <4>2 DEF InputInv, WaitInv
      <4> QED
        BY <4>1, <4>2
    <3>2. ASSUME NEW x \in Receiver, In(waiters'[c], x)
          PROVE  rpc'[x] = "sleep" /\ box'[x] = c /\ signal'[x].value = 0
      <4>1. rpc[x] = "sleep" /\ box[x] = c /\ signal[x].value = 0
        BY <3>1, <3>2 DEF InputInv, WaitInv
      <4>2. x # r
        BY <2>3, <3>1, <3>2, <4>1
      <4> QED
        BY <1>1, <2>5, <4>1, <4>2
    <3> QED
      BY <3>1, <3>2
  <2>11. CountInv'
    <3> SUFFICES ASSUME NEW c \in Box, waiters'[c] # <<>>
                 PROVE  Len(letters'[c]) <= Cardinality(Looking(c)')
      BY DEF CountInv
    <3>1. CASE c = b
      <4>1. Looking(b)' = Looking(b) \cup {r} /\ r \notin Looking(b)
        BY <1>1, <2>2, <2>3, <2>6 DEF Looking
      <4>2. Cardinality(Looking(b)') = Cardinality(Looking(b)) + 1
        BY <4>1, LookingIsFinite, FS_AddElement
      <4>3. Len(letters[b]) <= Cardinality(Looking(b)) /\ Len(letters[b]) \in Nat
        BY <1>1, <1>6 DEF InputInv, CountInv, InputTypes
      <4> QED
        BY <1>4, <3>1, <4>2, <4>3, LookingIsFinite
    <3>2. CASE c # b
      <4>1. Looking(c)' = Looking(c)
        BY <1>1, <2>6, <3>2 DEF Looking
      <4> QED
        BY <1>4, <2>6, <3>2, <4>1 DEF InputInv, CountInv
    <3> QED
      BY <3>1, <3>2
  <2> QED
    BY <2>7, <2>8, <2>9, <2>10, <2>11 DEF InputInv
<1> QED
  BY <1>5, <1>6

-------------------------------------------------------------------------------
(* The steps of the receivers *)

\* What the receivers' steps leave alone.
LEMMA WorkerStays ==
  ASSUME InputInv, UNCHANGED <<wire, inbox, available, hand, wpc>>
  PROVE  WorkerInv'
BY DEF InputInv, WorkerInv, WorkerFindsThePacket

LEMMA ReceiverLocks ==
  ASSUME InputInv, NEW r \in Receiver, NEW b \in Box,
         rpc[r] \in {"out", "acquire"}, rpc[r] = "acquire" => box[r] = b,
         boxLock' = [boxLock EXCEPT ![b] = P(boxLock[b], r)],
         rpc' = [rpc EXCEPT ![r] = IF Passes(boxLock[b]) THEN "test" ELSE "acquire"],
         box' = [box EXCEPT ![r] = b],
         UNCHANGED <<wire, inbox, available, hand, wpc, letters, waiters, signal, received>>
  PROVE  InputInv'
<1>0. /\ rpc \in [Receiver -> {"out", "acquire", "test", "sleep"}]
      /\ box \in [Receiver -> Box] /\ r \in Reader /\ r # Worker
  BY PostAssumption DEF InputInv, InputTypes, Reader
<1>1. /\ boxLock' \in [Box -> BoxLocks] /\ boxLock'[b].value = 0
      /\ \A c \in Box \ {b} : boxLock'[c].value = boxLock[c].value
      /\ Passes(boxLock[b]) <=> boxLock[b].value = 1
  BY <1>0, AcquireBoxLock DEF InputInv, InputTypes
<1>2. /\ rpc'[r] = IF Passes(boxLock[b]) THEN "test" ELSE "acquire"
      /\ box'[r] = b
      /\ \A x \in Receiver \ {r} : rpc'[x] = rpc[x] /\ box'[x] = box[x]
  BY <1>0
<1>3. InputTypes'
  BY <1>0, <1>1 DEF InputInv, InputTypes
<1>4. MutexInv'
  <2>1. CASE Passes(boxLock[b])
    <3>1. \A c \in Box, y \in Reader : Within(y, c)' => Within(y, c) \/ (y = r /\ c = b)
      BY <1>0, <1>2 DEF Within, Reader
    <3> QED
      BY <1>0, <1>1, <2>1, <3>1, MutexEntered DEF InputInv
  <2>2. CASE ~Passes(boxLock[b])
    <3>1. \A c \in Box, y \in Reader : Within(y, c)' => Within(y, c)
      BY <1>0, <1>2, <2>2 DEF Within, Reader
    <3>2. boxLock[b].value = 0
      BY <1>1, <2>2 DEF InputInv, InputTypes, BoxLocks
    <3>3. \A c \in Box : boxLock'[c].value = boxLock[c].value
      BY <1>1, <3>2
    <3> QED
      BY <3>1, <3>3, MutexStays DEF InputInv
  <2> QED
    BY <2>1, <2>2
<1>5. WaitInv'
  BY <1>2 DEF InputInv, WaitInv
<1>6. CountInv'
  <2>1. \A c \in Box : Looking(c) \subseteq Looking(c)'
    BY <1>2 DEF Looking
  <2> QED
    BY <2>1, CountKept DEF InputInv
<1> QED
  BY <1>3, <1>4, <1>5, <1>6, WorkerStays DEF InputInv

LEMMA ReceiveKeeps ==
  ASSUME InputInv, NEW r \in Receiver, NEW b \in Box, Receive(r, b)
  PROVE  InputInv'
BY ReceiverLocks DEF Receive, AcquireBox, inputVars

LEMMA ReceiverAcquiresKeeps ==
  ASSUME InputInv, NEW r \in Receiver, ReceiverAcquires(r)
  PROVE  InputInv'
<1>1. box[r] \in Box /\ box' = [box EXCEPT ![r] = box[r]]
  BY DEF ReceiverAcquires, InputInv, InputTypes
<1> QED
  BY <1>1, ReceiverLocks DEF ReceiverAcquires, AcquireBox, inputVars

\* r leaves the critical section of its box.
LEMMA ReceiverUnlocks ==
  ASSUME InputInv, NEW r \in Receiver, NEW b \in Box, rpc[r] = "test", box[r] = b,
         boxLock' = [boxLock EXCEPT ![b] = Release(boxLock[b])],
         NEW next \in {"out", "sleep"}, rpc' = [rpc EXCEPT ![r] = next],
         UNCHANGED <<hand, wpc, box>>
  PROVE  /\ boxLock' \in [Box -> BoxLocks] /\ MutexInv'
         /\ rpc' \in [Receiver -> {"out", "acquire", "test", "sleep"}]
         /\ rpc'[r] = next /\ \A x \in Receiver \ {r} : rpc'[x] = rpc[x]
         /\ \A c \in Box : ~In(waiters[c], r)
<1>0. /\ rpc \in [Receiver -> {"out", "acquire", "test", "sleep"}]
      /\ boxLock \in [Box -> BoxLocks] /\ r \in Reader /\ r # Worker
  BY PostAssumption DEF InputInv, InputTypes, Reader
<1>1. /\ rpc' \in [Receiver -> {"out", "acquire", "test", "sleep"}]
      /\ rpc'[r] = next /\ \A x \in Receiver \ {r} : rpc'[x] = rpc[x]
  BY <1>0
<1>2. Within(r, b)
  BY <1>0 DEF Within
<1>3. boxLock[b].value = 0
  BY <1>0, <1>2 DEF InputInv, MutexInv
<1>4. boxLock' \in [Box -> BoxLocks]
  BY <1>0, <1>3, BoxLock
<1>5. \A c \in Box, y \in Reader : Within(y, c)' => Within(y, c) /\ ~(y = r /\ c = b)
  BY <1>0, <1>1 DEF Within, Reader
<1>6. \A c \in Box \ {b} : boxLock'[c].value = boxLock[c].value
  BY <1>0
<1>7. MutexInv'
  BY <1>0, <1>2, <1>5, <1>6, MutexLeft DEF InputInv
<1>8. \A c \in Box : ~In(waiters[c], r)
  BY DEF InputInv, WaitInv
<1> QED
  BY <1>1, <1>4, <1>7, <1>8

LEMMA RemoveFrontKeeps ==
  ASSUME InputInv, NEW r \in Receiver, RemoveFront(r)
  PROVE  InputInv'
<1>0. PICK b \in Box : b = box[r]
  BY DEF InputInv, InputTypes
<1>1. /\ rpc[r] = "test" /\ letters[b] # <<>>
      /\ received' = [received EXCEPT ![b] = Append(received[b], Head(letters[b]))]
      /\ letters' = [letters EXCEPT ![b] = Tail(letters[b])]
      /\ boxLock' = [boxLock EXCEPT ![b] = Release(boxLock[b])]
      /\ rpc' = [rpc EXCEPT ![r] = "out"]
      /\ UNCHANGED <<wire, inbox, available, hand, wpc, waiters, signal, box>>
  BY <1>0 DEF RemoveFront, inputVars
<1>2. /\ boxLock' \in [Box -> BoxLocks] /\ MutexInv'
      /\ rpc' \in [Receiver -> {"out", "acquire", "test", "sleep"}]
      /\ rpc'[r] = "out" /\ \A x \in Receiver \ {r} : rpc'[x] = rpc[x]
      /\ \A c \in Box : ~In(waiters[c], r)
  BY <1>0, <1>1, ReceiverUnlocks
<1>3. /\ letters \in [Box -> Seq(Mail)] /\ received \in [Box -> Seq(Mail)]
      /\ Tail(letters[b]) \in Seq(Mail) /\ Len(Tail(letters[b])) = Len(letters[b]) - 1
      /\ Len(letters[b]) \in Nat \ {0} /\ Head(letters[b]) \in Mail
  BY <1>1, LeaveQueue DEF InputInv, InputTypes
<1>4. letters' \in [Box -> Seq(Mail)] /\ received' \in [Box -> Seq(Mail)]
  <2>1. Append(received[b], Head(letters[b])) \in Seq(Mail)
    BY <1>3
  <2> QED
    BY <1>1, <1>3, <2>1
<1>5. InputTypes'
  BY <1>1, <1>2, <1>4 DEF InputInv, InputTypes
<1>6. WaitInv'
  BY <1>1, <1>2 DEF InputInv, WaitInv
<1>7. CountInv'
  <2> SUFFICES ASSUME NEW c \in Box, waiters'[c] # <<>>
               PROVE  Len(letters'[c]) <= Cardinality(Looking(c)')
    BY DEF CountInv
  <2>1. CASE c = b
    <3>1. Looking(b)' = Looking(b) \ {r} /\ r \in Looking(b)
      BY <1>0, <1>1, <1>2 DEF Looking
    <3>2. Cardinality(Looking(b)') = Cardinality(Looking(b)) - 1
      BY <3>1, LookingIsFinite, FS_RemoveElement
    <3>3. Len(letters[b]) <= Cardinality(Looking(b))
      BY <1>1, <2>1 DEF InputInv, CountInv
    <3> QED
      BY <1>1, <1>3, <2>1, <3>2, <3>3, LookingIsFinite
  <2>2. CASE c # b
    <3>1. Looking(c)' = Looking(c)
      BY <1>0, <1>1, <1>2, <2>2 DEF Looking
    <3> QED
      BY <1>1, <1>3, <2>2, <3>1 DEF InputInv, CountInv
  <2> QED
    BY <2>1, <2>2
<1> QED
  BY <1>1, <1>2, <1>5, <1>6, <1>7, WorkerStays DEF InputInv

LEMMA WaitForMailKeeps ==
  ASSUME InputInv, NEW r \in Receiver, WaitForMail(r)
  PROVE  InputInv'
<1>0. PICK b \in Box : b = box[r]
  BY DEF InputInv, InputTypes
<1>1. /\ rpc[r] = "test" /\ letters[b] = <<>>
      /\ waiters' = [waiters EXCEPT ![b] = Append(waiters[b], r)]
      /\ signal' = [signal EXCEPT ![r] = NewSemaphore(0)]
      /\ boxLock' = [boxLock EXCEPT ![b] = Release(boxLock[b])]
      /\ rpc' = [rpc EXCEPT ![r] = "sleep"]
      /\ UNCHANGED <<wire, inbox, available, hand, wpc, letters, box, received>>
  BY <1>0 DEF WaitForMail, inputVars
<1>2. /\ boxLock' \in [Box -> BoxLocks] /\ MutexInv'
      /\ rpc' \in [Receiver -> {"out", "acquire", "test", "sleep"}]
      /\ rpc'[r] = "sleep" /\ \A x \in Receiver \ {r} : rpc'[x] = rpc[x]
      /\ \A c \in Box : ~In(waiters[c], r)
  BY <1>0, <1>1, ReceiverUnlocks
<1>3. /\ waiters \in [Box -> Seq(Receiver)] /\ Append(waiters[b], r) \in Seq(Receiver)
      /\ \A y : In(Append(waiters[b], r), y) <=> In(waiters[b], y) \/ y = r
      /\ Distinct(Append(waiters[b], r))
  <2>1. /\ waiters \in [Box -> Seq(Receiver)] /\ waiters[b] \in Seq(Receiver)
        /\ Distinct(waiters[b]) /\ ~In(waiters[b], r)
    BY <1>2 DEF InputInv, InputTypes, WaitInv
  <2> QED
    BY <2>1, JoinQueue
<1>4. /\ waiters' \in [Box -> Seq(Receiver)] /\ waiters'[b] = Append(waiters[b], r)
      /\ \A c \in Box \ {b} : waiters'[c] = waiters[c]
  BY <1>1, <1>3
<1>5. /\ signal' \in [Receiver -> UNION {Solo(x) : x \in Receiver}]
      /\ \A x \in Receiver : signal'[x] \in Solo(x)
      /\ signal'[r].value = 0
      /\ \A x \in Receiver \ {r} : signal'[x] = signal[x]
  <2>1. NewSemaphore(0) \in Solo(r) /\ NewSemaphore(0).value = 0
    BY SoloSemaphore DEF InputInv, InputTypes
  <2> QED
    BY <1>1, <2>1 DEF InputInv, InputTypes
<1>6. InputTypes'
  BY <1>1, <1>2, <1>4, <1>5 DEF InputInv, InputTypes
<1>7. WaitInv'
  <2> SUFFICES ASSUME NEW c \in Box
               PROVE  /\ Distinct(waiters'[c])
                      /\ \A x \in Receiver : In(waiters'[c], x) =>
                           rpc'[x] = "sleep" /\ box'[x] = c /\ signal'[x].value = 0
    BY DEF WaitInv
  <2>1. /\ Distinct(waiters'[c])
        /\ \A x : In(waiters'[c], x) => In(waiters[c], x) \/ (c = b /\ x = r)
    <3>1. CASE c = b
      BY <1>3, <1>4, <3>1
    <3>2. CASE c # b
      BY <1>4, <3>2 DEF InputInv, WaitInv
    <3> QED
      BY <3>1, <3>2
  <2>2. ASSUME NEW x \in Receiver, In(waiters'[c], x)
        PROVE  rpc'[x] = "sleep" /\ box'[x] = c /\ signal'[x].value = 0
    <3>1. CASE x = r
      <4>1. c = b
        BY <1>2, <2>1, <2>2, <3>1
      <4> QED
        BY <1>0, <1>1, <1>2, <1>5, <3>1, <4>1
    <3>2. CASE x # r
      <4>1. rpc[x] = "sleep" /\ box[x] = c /\ signal[x].value = 0
        BY <2>1, <2>2, <3>2 DEF InputInv, WaitInv
      <4> QED
        BY <1>1, <1>2, <1>5, <3>2, <4>1
    <3> QED
      BY <3>1, <3>2
  <2> QED
    BY <2>1, <2>2
<1>8. CountInv'
  <2>1. \A c \in Box \ {b} : Looking(c) \subseteq Looking(c)'
    BY <1>0, <1>1, <1>2, <1>4 DEF Looking
  <2>2. Len(letters'[b]) = 0
    BY <1>1
  <2> QED
    BY <1>1, <1>4, <2>1, <2>2, CountKept DEF InputInv
<1> QED
  BY <1>1, <1>2, <1>6, <1>7, <1>8, WorkerStays DEF InputInv

LEMMA AwaitSignalKeeps ==
  ASSUME InputInv, NEW r \in Receiver, AwaitSignal(r)
  PROVE  InputInv'
<1>1. /\ rpc[r] = "sleep" /\ ~Asleep(signal[r], r)
      /\ signal' = [signal EXCEPT ![r] = P(signal[r], r)]
      /\ rpc' = [rpc EXCEPT ![r] = IF Passes(signal[r]) THEN "acquire" ELSE "sleep"]
      /\ UNCHANGED <<wire, inbox, available, hand, wpc, boxLock, letters, waiters, box,
                     received>>
  BY DEF AwaitSignal, inputVars
<1>2. P(signal[r], r) \in Solo(r) /\ P(signal[r], r).value = 0
      /\ (Passes(signal[r]) <=> signal[r].value = 1)
  BY <1>1, SoloSemaphore DEF InputInv, InputTypes
<1>3. /\ signal' \in [Receiver -> UNION {Solo(x) : x \in Receiver}]
      /\ \A x \in Receiver : signal'[x] \in Solo(x)
      /\ signal'[r].value = 0 /\ \A x \in Receiver \ {r} : signal'[x] = signal[x]
  BY <1>1, <1>2 DEF InputInv, InputTypes
<1>4. /\ rpc' \in [Receiver -> {"out", "acquire", "test", "sleep"}]
      /\ rpc'[r] = IF Passes(signal[r]) THEN "acquire" ELSE "sleep"
      /\ \A x \in Receiver \ {r} : rpc'[x] = rpc[x]
  BY <1>1 DEF InputInv, InputTypes
<1>5. InputTypes'
  BY <1>1, <1>3, <1>4 DEF InputInv, InputTypes
<1>6. MutexInv'
  <2>1. \A c \in Box, y \in Reader : Within(y, c)' => Within(y, c)
    BY <1>1, <1>4 DEF Within, Reader
  <2> QED
    BY <1>1, <2>1, MutexStays DEF InputInv
<1>7. WaitInv'
  <2>1. ASSUME NEW c \in Box, In(waiters[c], r)
        PROVE  rpc'[r] = "sleep"
    BY <1>2, <1>4, <2>1 DEF InputInv, WaitInv
  <2> QED
    BY <1>1, <1>3, <1>4, <2>1 DEF InputInv, WaitInv
<1>8. CountInv'
  <2>1. \A c \in Box : Looking(c) \subseteq Looking(c)'
    BY <1>1, <1>4 DEF Looking
  <2> QED
    BY <1>1, <2>1, CountKept DEF InputInv
<1> QED
  BY <1>1, <1>5, <1>6, <1>7, <1>8, WorkerStays DEF InputInv

-------------------------------------------------------------------------------
LEMMA InputInit == Init => InputInv /\ LetterInv
<1> SUFFICES ASSUME Init PROVE InputInv /\ LetterInv
  OBVIOUS
<1>1. NewSemaphore(0) = [value |-> 0, queue |-> <<>>]
  BY DEF NewSemaphore
<1>2. NewLock \in BoxLocks
  <2>1. <<>> \in Seq(Reader)
    OBVIOUS
  <2> QED
    BY <2>1 DEF NewLock, BoxLocks
<1>3. InputTypes
  BY <1>1, <1>2 DEF Init, InputTypes, Solo
<1>4. WorkerInv
  BY <1>1 DEF Init, WorkerInv, WorkerFindsThePacket
<1>5. MutexInv
  BY PostAssumption DEF Init, MutexInv, Within, Reader
<1>6. WaitInv /\ CountInv
  BY DEF Init, WaitInv, CountInv, In, Distinct
<1>7. LetterInv
  BY DEF Init, LetterInv, DeviceInit
<1> QED
  BY <1>3, <1>4, <1>5, <1>6, <1>7 DEF InputInv

LEMMA InputNext == DeviceTypeOK /\ LetterInv /\ InputInv /\ [Next]_vars => InputInv'
<1> SUFFICES ASSUME DeviceTypeOK, LetterInv, InputInv, [Next]_vars PROVE InputInv'
  OBVIOUS
<1>0. wire \in Seq(Letter)
  BY DEF InputInv, InputTypes
<1>1. ASSUME NEW t \in Caller, Send(t) PROVE InputInv'
  BY <1>0, <1>1, OnlyWire DEF Send, inputVars
<1>2. ASSUME NEW t \in Caller, Transmit(t) PROVE InputInv'
  <2>1. letter[t] \in Letter
    BY <1>2 DEF Transmit, Request, LetterInv
  <2>2. wire' \in Seq(Letter)
    BY <1>0, <1>2, <2>1 DEF Transmit
  <2> QED
    BY <1>2, <2>2, OnlyWire DEF Transmit
<1>3. ASSUME NEW t \in Caller, LockAndWait(t) PROVE InputInv'
  BY <1>0, <1>3, OnlyWire DEF LockAndWait, inputVars
<1>4. ASSUME NEW d \in Device, DeviceInterrupt(d) PROVE InputInv'
  BY <1>0, <1>4, OnlyWire DEF DeviceInterrupt, inputVars
<1>5. CASE WorkerStep
  BY <1>5, AwaitMessageKeeps, TakePacketKeeps, WorkerAcquiresKeeps, AppendLetterKeeps,
     WorkerReleasesKeeps DEF WorkerStep
<1>6. ASSUME NEW r \in Receiver, ReceiverStep(r) PROVE InputInv'
  BY <1>6, ReceiverAcquiresKeeps, RemoveFrontKeeps, WaitForMailKeeps, AwaitSignalKeeps
  DEF ReceiverStep
<1>7. CASE UNCHANGED vars
  BY <1>0, <1>7, OnlyWire DEF vars, inputVars
<1> QED
  BY <1>1, <1>2, <1>3, <1>4, <1>5, <1>6, <1>7, NetworkInterruptKeeps, ReceiveKeeps
  DEF Next, SenderStep

LEMMA InputAlways == Spec => [](DeviceTypeOK /\ LetterInv /\ InputInv)
<1>1. Spec => []DeviceTypeOK
  BY ImplementsSynchDevice, DeviceTypesHold, PTL
<1> QED
  BY <1>1, InputInit, InputNext, LetterNext, PTL DEF Spec

(* The type invariant of PostOffice: its semaphores take no value above 1. *)
THEOREM PostTypesHold == Spec => []TypeOK
<1>1. ASSUME DeviceTypeOK, LetterInv, InputInv PROVE TypeOK
  <2>1. /\ wire \in Seq(Letter) /\ {inbox, hand} \subseteq Letter \cup {NoMail}
        /\ wpc \in {"wait", "receive", "acquire", "append", "release"}
        /\ letters \in [Box -> Seq(Mail)] /\ waiters \in [Box -> Seq(Receiver)]
        /\ rpc \in [Receiver -> {"out", "acquire", "test", "sleep"}]
        /\ box \in [Receiver -> Box] /\ received \in [Box -> Seq(Mail)]
    BY <1>1 DEF InputInv, InputTypes
  <2>2. available \in [value : {0, 1}, queue : {<<>>, <<Worker>>}]
    BY <1>1 DEF InputInv, InputTypes, Solo
  <2>3. \A b \in Box : /\ boxLock[b].value \in {0, 1}
                       /\ boxLock[b].queue \in Seq(Receiver \cup {Worker})
                       /\ boxLock[b].holder \in Receiver \cup {Worker, Nobody}
    <3> SUFFICES ASSUME NEW b \in Box
                 PROVE  /\ boxLock[b].value \in {0, 1}
                        /\ boxLock[b].queue \in Seq(Receiver \cup {Worker})
                        /\ boxLock[b].holder \in Receiver \cup {Worker, Nobody}
      OBVIOUS
    <3>1. boxLock[b] \in BoxLocks
      BY <1>1 DEF InputInv, InputTypes
    <3> QED
      BY <3>1 DEF BoxLocks, Reader
  <2>4. \A r \in Receiver : signal[r].value \in {0, 1} /\ signal[r].queue \in {<<>>, <<r>>}
    BY <1>1 DEF InputInv, InputTypes, Solo
  <2> QED
    BY <1>1, <2>1, <2>2, <2>3, <2>4 DEF LetterInv, TypeOK
<1> QED
  BY <1>1, InputAlways, PTL

(***************************************************************************)
(* NetworkInput::Receive never finds its buffer empty, and the worker is   *)
(* told of every packet, with any number of senders and receivers.         *)
(***************************************************************************)
THEOREM TheWorkerFindsItsPacket == Spec => []WorkerFindsThePacket
<1>1. InputInv => WorkerFindsThePacket
  BY DEF InputInv, WorkerInv
<1> QED
  BY <1>1, InputAlways, PTL

(***************************************************************************)
(* Condition::Signal and Condition::Wait of the mailboxes lose no signal,  *)
(* whatever happens between the Release and the P of a Wait.               *)
(***************************************************************************)
THEOREM SignalsAreNotLost == Spec => []NoLostSignal
<1>1. ASSUME InputInv PROVE NoLostSignal
  <2> SUFFICES ASSUME NEW b \in Box, waiters[b] # <<>>, boxLock[b].value = 1
               PROVE  Len(letters[b]) <=
                        Cardinality({r \in Receiver :
                          /\ box[r] = b /\ rpc[r] \in {"acquire", "sleep"}
                          /\ ~\E i \in DOMAIN waiters[b] : waiters[b][i] = r})
    BY DEF NoLostSignal
  <2>1. \A r \in Receiver : ~(rpc[r] = "test" /\ box[r] = b)
    <3>1. \A r \in Receiver : r \in Reader /\ r # Worker
      BY PostAssumption DEF Reader
    <3>2. \A r \in Receiver : ~Within(r, b)
      BY <1>1, <3>1 DEF InputInv, MutexInv
    <3> QED
      BY <3>1, <3>2 DEF Within
  <2>2. Looking(b) = {r \in Receiver :
                        /\ box[r] = b /\ rpc[r] \in {"acquire", "sleep"}
                        /\ ~\E i \in DOMAIN waiters[b] : waiters[b][i] = r}
    BY <1>1, <2>1 DEF InputInv, InputTypes, Looking, In
  <2>3. Len(letters[b]) <= Cardinality(Looking(b))
    BY <1>1 DEF InputInv, CountInv
  <2> QED
    BY <2>2, <2>3
<1> QED
  BY <1>1, InputAlways, PTL

-------------------------------------------------------------------------------
(* The numbers of a finite set, counted from the smallest *)

UpTo(A, i) == {j \in A : j <= i}

LEMMA RankType ==
  ASSUME NEW A \in SUBSET Nat, IsFiniteSet(A), NEW i \in A
  PROVE  IsFiniteSet(UpTo(A, i)) /\ Cardinality(UpTo(A, i)) \in 1 .. Cardinality(A)
<1>1. UpTo(A, i) \in SUBSET A /\ UpTo(A, i) # {}
  BY DEF UpTo
<1>2. /\ IsFiniteSet(UpTo(A, i)) /\ Cardinality(UpTo(A, i)) <= Cardinality(A)
      /\ Cardinality(UpTo(A, i)) \in Nat /\ Cardinality(A) \in Nat
      /\ Cardinality(UpTo(A, i)) # 0
  BY <1>1, FS_Subset, FS_CardinalityType, FS_EmptySet
<1> QED
  BY <1>2

LEMMA RankGrows ==
  ASSUME NEW A \in SUBSET Nat, IsFiniteSet(A), NEW i \in A, NEW j \in A, i < j
  PROVE  Cardinality(UpTo(A, i)) < Cardinality(UpTo(A, j))
<1>0. (\A k \in A : k <= i => k <= j) /\ j <= j /\ ~(j <= i)
  <2>1. i \in Nat /\ j \in Nat /\ \A k \in A : k \in Nat
    OBVIOUS
  <2> QED
    BY <2>1
<1>1. UpTo(A, i) \in SUBSET UpTo(A, j) /\ j \in UpTo(A, j) /\ j \notin UpTo(A, i)
  BY <1>0 DEF UpTo
<1>2. /\ IsFiniteSet(UpTo(A, j)) /\ Cardinality(UpTo(A, j)) \in Nat
      /\ Cardinality(UpTo(A, i)) \in Nat
  BY RankType
<1>3. /\ Cardinality(UpTo(A, i)) <= Cardinality(UpTo(A, j))
      /\ Cardinality(UpTo(A, i)) # Cardinality(UpTo(A, j))
  BY <1>1, <1>2, FS_Subset
<1> QED
  BY <1>2, <1>3

LEMMA RankOnto ==
  ASSUME NEW A \in SUBSET Nat, IsFiniteSet(A), NEW n \in 1 .. Cardinality(A)
  PROVE  \E i \in A : Cardinality(UpTo(A, i)) = n
<1> DEFINE T == 1 .. Cardinality(A)
           f == [i \in A |-> Cardinality(UpTo(A, i))]
<1>1. Cardinality(A) \in Nat /\ IsFiniteSet(T) /\ Cardinality(T) = Cardinality(A)
  <2>1. Cardinality(A) \in Nat
    BY FS_CardinalityType
  <2> QED
    BY <2>1, FS_Interval
<1>2. f \in [A -> T]
  BY RankType
<1>3. \A i, j \in A : f[i] = f[j] => i = j
  <2> SUFFICES ASSUME NEW i \in A, NEW j \in A, i # j PROVE f[i] # f[j]
    OBVIOUS
  <2>1. f[i] \in Nat /\ f[j] \in Nat
    BY <1>1, <1>2
  <2>2. i < j \/ j < i
    OBVIOUS
  <2>3. f[i] < f[j] \/ f[j] < f[i]
    BY <2>2, RankGrows
  <2> QED
    BY <2>1, <2>3
<1> HIDE DEF f
<1>4. f \in Injection(A, T)
  BY <1>2, <1>3, Fun_IsInj
<1>5. f \in Surjection(A, T)
  BY <1>1, <1>4, FS_Injection
<1>6. \A t \in T : \E i \in A : f[i] = t
  BY <1>5 DEF Surjection
<1> QED
  BY <1>6 DEF f

LEMMA NthIs ==
  ASSUME NEW A \in SUBSET Nat, IsFiniteSet(A)
  PROVE  /\ \A n \in 1 .. Cardinality(A) :
              Nth(A, n) \in A /\ Cardinality(UpTo(A, Nth(A, n))) = n
         /\ \A i \in A : Nth(A, Cardinality(UpTo(A, i))) = i
<1>1. \A n \in 1 .. Cardinality(A) :
        Nth(A, n) \in A /\ Cardinality(UpTo(A, Nth(A, n))) = n
  BY RankOnto DEF Nth, UpTo
<1>2. ASSUME NEW i \in A PROVE Nth(A, Cardinality(UpTo(A, i))) = i
  <2> DEFINE k == Nth(A, Cardinality(UpTo(A, i)))
  <2>1. k \in A /\ Cardinality(UpTo(A, k)) = Cardinality(UpTo(A, i))
    BY <1>1, RankType
  <2>2. k \in Nat /\ i \in Nat
    BY <2>1
  <2>3. Cardinality(UpTo(A, k)) \in Nat /\ Cardinality(UpTo(A, i)) \in Nat
    BY <2>1, RankType
  <2> HIDE DEF k
  <2>4. ~(k < i) /\ ~(i < k)
    BY <2>1, <2>3, RankGrows
  <2> QED
    BY <2>2, <2>4 DEF k
<1> QED
  BY <1>1, <1>2

\* A number above all others is the last.
LEMMA NthAdded ==
  ASSUME NEW A \in SUBSET Nat, IsFiniteSet(A), NEW m \in Nat, \A i \in A : i < m
  PROVE  /\ IsFiniteSet(A \cup {m}) /\ Cardinality(A \cup {m}) = Cardinality(A) + 1
         /\ \A n \in 1 .. Cardinality(A) : Nth(A \cup {m}, n) = Nth(A, n)
         /\ Nth(A \cup {m}, Cardinality(A) + 1) = m
<1> DEFINE B == A \cup {m}
<1>1. m \notin A /\ B \in SUBSET Nat
  OBVIOUS
<1>2. IsFiniteSet(B) /\ Cardinality(B) = Cardinality(A) + 1 /\ Cardinality(A) \in Nat
  BY <1>1, FS_AddElement, FS_CardinalityType
<1>3. UpTo(B, m) = B /\ \A i \in A : UpTo(B, i) = UpTo(A, i)
  <2>1. \A i \in A : i \in Nat /\ i < m /\ ~(m <= i) /\ i <= m
    OBVIOUS
  <2>2. m <= m
    OBVIOUS
  <2> QED
    BY <2>1, <2>2 DEF UpTo
<1>4. Nth(B, Cardinality(A) + 1) = m
  <2>1. m \in B /\ Cardinality(UpTo(B, m)) = Cardinality(A) + 1
    BY <1>2, <1>3
  <2> HIDE DEF B
  <2> QED
    BY <1>1, <1>2, <2>1, NthIs
<1>5. ASSUME NEW n \in 1 .. Cardinality(A) PROVE Nth(B, n) = Nth(A, n)
  <2>1. Nth(A, n) \in A /\ Cardinality(UpTo(A, Nth(A, n))) = n
    BY NthIs
  <2>2. Nth(A, n) \in B /\ Cardinality(UpTo(B, Nth(A, n))) = n
    BY <1>3, <2>1
  <2> HIDE DEF B
  <2> QED
    BY <1>1, <1>2, <2>2, NthIs
<1> QED
  BY <1>2, <1>4, <1>5

\* All numbers move up, and perhaps 1 is added below them.
LEMMA NthMoved ==
  ASSUME NEW A \in SUBSET (Nat \ {0}), IsFiniteSet(A), NEW C \in SUBSET {1}
  PROVE  LET B == C \cup {i + 1 : i \in A}
         IN  /\ IsFiniteSet(B)
             /\ Cardinality(B) = Cardinality(A) + Cardinality(C)
             /\ \A n \in 1 .. Cardinality(A) : Nth(B, n + Cardinality(C)) = Nth(A, n) + 1
             /\ C # {} => Nth(B, 1) = 1
<1> DEFINE Up(S) == {i + 1 : i \in S}
           B == C \cup Up(A)
           c == Cardinality(C)
<1>1. ASSUME NEW S \in SUBSET (Nat \ {0}), IsFiniteSet(S)
      PROVE  /\ IsFiniteSet(C \cup Up(S)) /\ Cardinality(S) \in Nat /\ c \in Nat
             /\ Cardinality(C \cup Up(S)) = Cardinality(S) + c
             /\ C # {} => c = 1
  <2>1. IsFiniteSet(Up(S)) /\ Cardinality(Up(S)) = Cardinality(S) /\ Cardinality(S) \in Nat
    <3> DEFINE f == [i \in S |-> i + 1]
    <3>1. f \in [S -> Up(S)] /\ \A a, b \in S : f[a] = f[b] => a = b
      OBVIOUS
    <3>2. \A t \in Up(S) : \E s \in S : f[s] = t
      OBVIOUS
    <3>3. f \in Bijection(S, Up(S))
      <4> HIDE DEF f
      <4> QED
        BY <3>1, <3>2, Fun_IsBij
    <3>4. ExistsBijection(S, Up(S))
      BY <3>3 DEF ExistsBijection
    <3> HIDE DEF Up
    <3> QED
      BY <1>1, <3>4, FS_Bijection, FS_CardinalityType
  <2>2. CASE C = {}
    <3>1. c = 0 /\ C \cup Up(S) = Up(S)
      BY <2>2, FS_EmptySet
    <3> QED
      BY <2>1, <2>2, <3>1
  <2>3. CASE C = {1}
    <3>1. c = 1
      BY <2>3, FS_Singleton
    <3>2. 1 \notin Up(S)
      OBVIOUS
    <3>3. C \cup Up(S) = Up(S) \cup {1}
      BY <2>3
    <3> HIDE DEF Up, c
    <3> QED
      BY <2>1, <3>1, <3>2, <3>3, FS_AddElement
  <2> QED
    BY <2>2, <2>3
<1>2. /\ B \in SUBSET Nat /\ IsFiniteSet(B) /\ Cardinality(B) = Cardinality(A) + c
      /\ c \in Nat /\ Cardinality(A) \in Nat /\ (C # {} => c = 1)
  <2>1. B \in SUBSET Nat
    <3>1. \A k \in C : k \in Nat
      OBVIOUS
    <3>2. \A k \in A : k + 1 \in Nat
      OBVIOUS
    <3> QED
      BY <3>1, <3>2
  <2> HIDE DEF c, Up
  <2> QED
    BY <1>1, <2>1
<1>3. ASSUME NEW n \in 1 .. Cardinality(A) PROVE Nth(B, n + c) = Nth(A, n) + 1
  <2> DEFINE i == Nth(A, n)
  <2>1. i \in A /\ Cardinality(UpTo(A, i)) = n
    BY NthIs
  <2>2. UpTo(B, i + 1) = C \cup Up(UpTo(A, i))
    <3> HIDE DEF i
    <3>0. i \in Nat /\ \A k \in A : k \in Nat
      BY <2>1
    <3>1. \A k \in A : k <= i <=> k + 1 <= i + 1
      BY <3>0
    <3>2. \A k \in C : k <= i + 1
      <4>1. \A k \in C : k = 1
        OBVIOUS
      <4> QED
        BY <3>0, <4>1
    <3> QED
      BY <3>1, <3>2 DEF UpTo
  <2>3. UpTo(A, i) \in SUBSET (Nat \ {0}) /\ IsFiniteSet(UpTo(A, i))
    BY <2>1, RankType DEF UpTo
  <2>4. Cardinality(UpTo(B, i + 1)) = n + c
    BY <1>1, <2>1, <2>2, <2>3
  <2>5. i + 1 \in B
    BY <2>1
  <2> HIDE DEF B, i, c
  <2>6. Nth(B, n + c) = i + 1
    BY <1>2, <2>4, <2>5, NthIs
  <2> QED
    BY <2>6 DEF i
<1>4. ASSUME C # {} PROVE Nth(B, 1) = 1
  <2>1. C = {1} /\ 1 \in B
    BY <1>4
  <2>2. UpTo(B, 1) = {1}
    BY <2>1 DEF UpTo
  <2>3. Cardinality(UpTo(B, 1)) = 1
    BY <2>2, FS_Singleton
  <2> HIDE DEF B
  <2> QED
    BY <1>2, <2>1, <2>3, NthIs
<1> QED
  BY <1>2, <1>3, <1>4

-------------------------------------------------------------------------------
(* The mails to a box among some packets *)

At(b, p) == {i \in DOMAIN p : p[i].to = b}

LEMMA MailsToAre ==
  ASSUME NEW p \in Seq(Letter), NEW b
  PROVE  /\ At(b, p) \in SUBSET (Nat \ {0}) /\ IsFiniteSet(At(b, p))
         /\ Cardinality(At(b, p)) \in Nat
         /\ MailsTo(b, p) = [n \in 1 .. Cardinality(At(b, p)) |-> p[Nth(At(b, p), n)].id]
         /\ MailsTo(b, p) \in Seq(Mail)
         /\ Len(MailsTo(b, p)) = Cardinality(At(b, p))
<1> DEFINE A == At(b, p)
<1>1. Len(p) \in Nat /\ DOMAIN p = 1 .. Len(p) /\ \A i \in DOMAIN p : p[i].id \in Mail
  <2>1. \A x \in Letter : x.id \in Mail
    BY DEF Letter
  <2> QED
    BY <2>1
<1>2. A \in SUBSET (1 .. Len(p)) /\ IsFiniteSet(1 .. Len(p))
  BY <1>1, FS_Interval DEF At
<1>3. IsFiniteSet(A) /\ Cardinality(A) \in Nat
  BY <1>2, FS_Subset, FS_CardinalityType
<1>4. MailsTo(b, p) = [n \in 1 .. Cardinality(A) |-> p[Nth(A, n)].id]
  BY DEF MailsTo, At
<1>5. A \in SUBSET (Nat \ {0}) /\ A \in SUBSET Nat
  BY <1>1, <1>2
<1>6. \A n \in 1 .. Cardinality(A) : p[Nth(A, n)].id \in Mail
  BY <1>1, <1>2, <1>3, <1>5, NthIs
<1> HIDE DEF A
<1>7. MailsTo(b, p) \in Seq(Mail) /\ Len(MailsTo(b, p)) = Cardinality(A)
  BY <1>3, <1>4, <1>6
<1> QED
  BY <1>3, <1>4, <1>5, <1>7 DEF A

LEMMA MailsToNone == \A b : MailsTo(b, <<>>) = <<>>
<1> TAKE b
<1>1. <<>> \in Seq(Letter) /\ At(b, <<>>) = {}
  BY DEF At
<1>2. Cardinality(At(b, <<>>)) = 0
  BY <1>1, FS_EmptySet
<1> DEFINE f == MailsTo(b, <<>>)
<1>3. f \in Seq(Mail) /\ Len(f) = 0
  BY <1>1, <1>2, MailsToAre
<1> HIDE DEF f
<1>4. f = <<>>
  BY <1>3
<1> QED
  BY <1>4 DEF f

\* The packet sent last is the last.
LEMMA MailsToAppend ==
  ASSUME NEW p \in Seq(Letter), NEW x \in Letter, NEW b
  PROVE  MailsTo(b, Append(p, x)) =
           IF x.to = b THEN Append(MailsTo(b, p), x.id) ELSE MailsTo(b, p)
<1> DEFINE q == Append(p, x)
           m == Len(p) + 1
           A == At(b, p)
           c == Cardinality(A)
<1>1. /\ q \in Seq(Letter) /\ m \in Nat /\ q[m] = x
      /\ DOMAIN p = 1 .. Len(p) /\ DOMAIN q = (1 .. Len(p)) \cup {m}
      /\ \A i \in 1 .. Len(p) : q[i] = p[i] /\ i < m
  OBVIOUS
<1>2. /\ A \in SUBSET Nat /\ IsFiniteSet(A) /\ c \in Nat
      /\ MailsTo(b, p) = [n \in 1 .. c |-> p[Nth(A, n)].id]
      /\ MailsTo(b, p) \in Seq(Mail) /\ Len(MailsTo(b, p)) = c
  BY MailsToAre
<1>3. MailsTo(b, q) =
        [n \in 1 .. Cardinality(At(b, q)) |-> q[Nth(At(b, q), n)].id]
  BY <1>1, MailsToAre
<1>4. \A i \in A : i \in DOMAIN p
  BY DEF At
<1>5. \A n \in 1 .. c : Nth(A, n) \in A
  BY <1>2, NthIs
<1>6. CASE x.to = b
  <2>1. At(b, q) = A \cup {m}
    BY <1>1, <1>6 DEF At
  <2>2. \A i \in A : i < m
    BY <1>1, <1>4
  <2> HIDE DEF A, q, m
  <2>3. /\ Cardinality(At(b, q)) = c + 1
        /\ \A n \in 1 .. c : Nth(At(b, q), n) = Nth(A, n)
        /\ Nth(At(b, q), c + 1) = m
    <3>1. m \in Nat
      BY <1>1
    <3>2. /\ Cardinality(A \cup {m}) = Cardinality(A) + 1
          /\ \A n \in 1 .. Cardinality(A) : Nth(A \cup {m}, n) = Nth(A, n)
          /\ Nth(A \cup {m}, Cardinality(A) + 1) = m
      BY <1>2, <2>2, <3>1, NthAdded
    <3> QED
      BY <2>1, <3>2 DEF c
  <2>4. MailsTo(b, q) = [n \in 1 .. c + 1 |-> IF n = c + 1 THEN x.id ELSE p[Nth(A, n)].id]
    <3>1. \A n \in 1 .. c + 1 : n = c + 1 \/ n \in 1 .. c
      BY <1>2
    <3>2. \A n \in 1 .. c + 1 :
            q[Nth(At(b, q), n)].id = IF n = c + 1 THEN x.id ELSE p[Nth(A, n)].id
      BY <1>1, <1>4, <1>5, <2>3, <3>1
    <3> QED
      BY <1>3, <2>3, <3>2
  <2>5. Append(MailsTo(b, p), x.id)
          = [n \in 1 .. c + 1 |-> IF n = c + 1 THEN x.id ELSE p[Nth(A, n)].id]
    <3> HIDE DEF c
    <3> QED
      BY <1>2
  <2> QED
    BY <1>6, <2>4, <2>5 DEF q
<1>7. CASE x.to # b
  <2>1. At(b, q) = A
    BY <1>1, <1>7 DEF At
  <2>2. \A n \in 1 .. c : q[Nth(A, n)].id = p[Nth(A, n)].id
    BY <1>1, <1>4, <1>5
  <2> QED
    BY <1>2, <1>3, <1>7, <2>1, <2>2
<1> QED
  BY <1>6, <1>7

LEMMA MailsToOne ==
  ASSUME NEW x \in Letter, NEW b
  PROVE  MailsTo(b, <<x>>) = IF x.to = b THEN <<x.id>> ELSE <<>>
<1>1. <<>> \in Seq(Letter) /\ Append(<<>>, x) = <<x>> /\ Append(<<>>, x.id) = <<x.id>>
  OBVIOUS
<1>2. MailsTo(b, Append(<<>>, x))
        = IF x.to = b THEN Append(MailsTo(b, <<>>), x.id) ELSE MailsTo(b, <<>>)
  BY <1>1, MailsToAppend
<1> QED
  BY <1>1, <1>2, MailsToNone

\* The packet at the front is the first.
LEMMA MailsToFront ==
  ASSUME NEW p \in Seq(Letter), p # <<>>, NEW b
  PROVE  MailsTo(b, p) = MailsTo(b, <<Head(p)>>) \o MailsTo(b, Tail(p))
<1> DEFINE q == Tail(p)
           x == Head(p)
           A == At(b, q)
           C == IF x.to = b THEN {1} ELSE {}
           a == Cardinality(A)
           c == Cardinality(C)
<1>1. /\ q \in Seq(Letter) /\ x \in Letter /\ x = p[1] /\ Len(q) \in Nat
      /\ DOMAIN q = 1 .. Len(q) /\ DOMAIN p = 1 .. Len(q) + 1
      /\ \A i \in 1 .. Len(q) : p[i + 1] = q[i]
  OBVIOUS
<1>2. /\ A \in SUBSET (Nat \ {0}) /\ A \in SUBSET Nat /\ IsFiniteSet(A) /\ a \in Nat
      /\ MailsTo(b, q) = [n \in 1 .. a |-> q[Nth(A, n)].id]
      /\ MailsTo(b, q) \in Seq(Mail) /\ Len(MailsTo(b, q)) = a
  BY <1>1, MailsToAre
<1>3. MailsTo(b, p) =
        [n \in 1 .. Cardinality(At(b, p)) |-> p[Nth(At(b, p), n)].id]
  BY MailsToAre
<1>4. At(b, p) = C \cup {i + 1 : i \in A}
  <2>1. \A i \in DOMAIN p : i = 1 \/ (i - 1 \in DOMAIN q /\ (i - 1) + 1 = i /\ p[i] = q[i - 1])
    BY <1>1
  <2>2. \A i \in DOMAIN q : i + 1 \in DOMAIN p /\ p[i + 1] = q[i]
    BY <1>1
  <2>3. 1 \in DOMAIN p /\ p[1] = x
    BY <1>1
  <2>4. \A i \in A : i \in DOMAIN q /\ q[i].to = b
    BY DEF At
  <2>5. \A i \in DOMAIN q : q[i].to = b => i \in A
    BY DEF At
  <2> HIDE DEF A, x, q
  <2> QED
    BY <2>1, <2>2, <2>3, <2>4, <2>5 DEF At
<1>5. C \in SUBSET {1} /\ (C # {} <=> x.to = b) /\ c = IF x.to = b THEN 1 ELSE 0
  BY FS_EmptySet, FS_Singleton
<1>6. \A n \in 1 .. a : Nth(A, n) \in A
  BY <1>2, NthIs
<1>7. \A i \in A : i \in 1 .. Len(q)
  BY <1>1 DEF At
<1> HIDE DEF C, A, q, x
<1>8. /\ Cardinality(At(b, p)) = a + c
      /\ \A n \in 1 .. a : Nth(At(b, p), n + c) = Nth(A, n) + 1
      /\ C # {} => Nth(At(b, p), 1) = 1
  <2>1. LET B == C \cup {i + 1 : i \in A}
        IN  /\ Cardinality(B) = Cardinality(A) + Cardinality(C)
            /\ \A n \in 1 .. Cardinality(A) : Nth(B, n + Cardinality(C)) = Nth(A, n) + 1
            /\ C # {} => Nth(B, 1) = 1
    BY <1>2, <1>5, NthMoved
  <2> QED
    BY <1>4, <2>1 DEF a, c
<1> DEFINE f == MailsTo(b, <<x>>)
<1>9. f = IF x.to = b THEN <<x.id>> ELSE <<>>
  BY <1>1, MailsToOne
<1>10. \A n \in 1 .. a : p[Nth(At(b, p), n + c)].id = q[Nth(A, n)].id
  BY <1>1, <1>6, <1>7, <1>8
<1>11. x.to = b => p[Nth(At(b, p), 1)].id = x.id
  BY <1>1, <1>5, <1>8
<1> DEFINE r == MailsTo(b, q)
           g == MailsTo(b, p)
<1>12. g = [n \in 1 .. a + c |-> p[Nth(At(b, p), n)].id]
  BY <1>3, <1>8
<1>13. r = [n \in 1 .. a |-> q[Nth(A, n)].id] /\ r \in Seq(Mail) /\ Len(r) = a /\ a \in Nat
  BY <1>2
<1> HIDE DEF r, g, f, a, c
<1>14. CASE x.to = b
  <2>1. c = 1 /\ f = <<x.id>>
    BY <1>5, <1>9, <1>14
  <2>2. \A n \in 1 .. a + 1 : n = 1 \/ (n - 1 \in 1 .. a /\ (n - 1) + 1 = n)
    BY <1>13
  <2>3. g = [n \in 1 .. a + 1 |-> IF n = 1 THEN x.id ELSE r[n - 1]]
    <3>1. \A n \in 1 .. a + 1 :
            p[Nth(At(b, p), n)].id = IF n = 1 THEN x.id ELSE r[n - 1]
      BY <1>10, <1>11, <1>13, <1>14, <2>1, <2>2
    <3> QED
      BY <1>12, <2>1, <3>1
  <2>4. ASSUME NEW i PROVE <<i>> \o r = [n \in 1 .. a + 1 |-> IF n = 1 THEN i ELSE r[n - 1]]
    BY <1>13
  <2>5. g = f \o r
    BY <2>1, <2>3, <2>4
  <2> QED
    BY <2>5 DEF f, g, r, q, x
<1>15. CASE x.to # b
  <2>1. c = 0 /\ f = <<>>
    BY <1>5, <1>9, <1>15
  <2>2. <<>> \o r = r
    BY <1>13
  <2>3. \A n \in 1 .. a : n + 0 = n
    BY <1>13
  <2>4. g = [n \in 1 .. a |-> q[Nth(A, n)].id]
    BY <1>10, <1>12, <1>13, <2>1, <2>3
  <2> QED
    BY <1>13, <2>1, <2>2, <2>4 DEF f, g, r, q, x
<1> QED
  BY <1>14, <1>15

-------------------------------------------------------------------------------
(* The mails that are not sent *)

\* t has a letter that it has not given to the network.
ToSend(t) == pc[t] \in {"acquire", "request"}

\* No two senders have the same mail.
SendInv ==
  \A t \in Caller : ToSend(t) =>
    /\ letter[t].id \notin unsent
    /\ \A u \in Caller : ToSend(u) /\ letter[u].id = letter[t].id => u = t

NotSent == unsent \cup Sending

InCall(r) == IF rpc[r] = "out" THEN {} ELSE {box[r]}

LEMMA SendingIs == \A m : m \in Sending <=> \E t \in Caller : ToSend(t) /\ letter[t].id = m
BY DEF Sending, ToSend

LEMMA SendingIsNext ==
  \A m : m \in Sending' <=> \E t \in Caller : ToSend(t)' /\ letter'[t].id = m
BY DEF Sending, ToSend

LEMMA SendInit == Init => SendInv /\ NotSent = Mail
<1> SUFFICES ASSUME Init PROVE SendInv /\ NotSent = Mail
  OBVIOUS
<1>1. unsent = Mail /\ \A t \in Caller : ~ToSend(t)
  BY DEF Init, DeviceInit, ToSend
<1> QED
  BY <1>1, SendingIs DEF SendInv, NotSent

LEMMA SendMoves ==
  ASSUME DeviceTypeOK, LetterInv, SendInv, NEW t \in Caller, Send(t)
  PROVE  SendInv' /\ NotSent' = NotSent
<1>0. pc \in [Caller -> PC] /\ letter \in [Caller -> Letter \cup {NoMail}]
  BY DEF DeviceTypeOK, LetterInv
<1>1. PICK m \in unsent, b \in Box :
        /\ Call(t, Network)
        /\ letter' = [letter EXCEPT ![t] = [id |-> m, to |-> b]]
        /\ unsent' = unsent \ {m}
  BY DEF Send
<1>2. /\ ~ToSend(t) /\ ToSend(t)' /\ letter'[t].id = m
      /\ \A u \in Caller \ {t} : (ToSend(u)' <=> ToSend(u)) /\ letter'[u] = letter[u]
  BY <1>0, <1>1 DEF Call, ToSend
<1>3. \A k : k \in Sending' <=> k \in Sending \/ k = m
  BY <1>2, SendingIs, SendingIsNext
<1>4. NotSent' = NotSent
  BY <1>1, <1>3 DEF NotSent
<1>5. SendInv'
  BY <1>1, <1>2 DEF SendInv
<1> QED
  BY <1>4, <1>5

LEMMA TransmitMoves ==
  ASSUME DeviceTypeOK, LetterInv, SendInv, NEW t \in Caller, Transmit(t)
  PROVE  /\ SendInv' /\ NotSent' = NotSent \ {letter[t].id} /\ letter[t].id \in NotSent
         /\ letter[t] \in Letter
<1>0. pc \in [Caller -> PC] /\ letter \in [Caller -> Letter \cup {NoMail}]
  BY DEF DeviceTypeOK, LetterInv
<1>1. /\ pc[t] = "request" /\ letter' = [letter EXCEPT ![t] = NoMail] /\ unsent' = unsent
      /\ pc' = [pc EXCEPT ![t] = IF Passes(done[dev[t]]) THEN "release" ELSE "wait"]
  BY DEF Transmit, Request, AwaitDone
<1>2. /\ ToSend(t) /\ ~ToSend(t)' /\ letter[t] \in Letter
      /\ \A u \in Caller \ {t} : (ToSend(u)' <=> ToSend(u)) /\ letter'[u] = letter[u]
  BY <1>0, <1>1 DEF ToSend, LetterInv
<1>3. \A k : k \in Sending' <=> k \in Sending /\ k # letter[t].id
  BY <1>2, SendingIs, SendingIsNext DEF SendInv
<1>4. letter[t].id \in Sending /\ letter[t].id \notin unsent
  BY <1>2, SendingIs DEF SendInv
<1>5. SendInv'
  BY <1>1, <1>2 DEF SendInv
<1> QED
  BY <1>1, <1>2, <1>3, <1>4, <1>5 DEF NotSent

LEMMA NothingMoves ==
  ASSUME SendInv, letter' = letter, unsent' = unsent,
         \A t \in Caller : ToSend(t)' <=> ToSend(t)
  PROVE  SendInv' /\ NotSent' = NotSent
<1>1. \A k : k \in Sending' <=> k \in Sending
  BY SendingIs, SendingIsNext
<1> QED
  BY <1>1 DEF SendInv, NotSent

\* The other steps of the senders and the steps of all others.
LEMMA OthersMoveNothing ==
  ASSUME DeviceTypeOK, SendInv, [Next]_vars,
         ~\E t \in Caller : Send(t) \/ Transmit(t)
  PROVE  SendInv' /\ NotSent' = NotSent
<1>0. pc \in [Caller -> PC]
  BY DEF DeviceTypeOK
<1>1. ASSUME NEW t \in Caller, LockAndWait(t) PROVE SendInv' /\ NotSent' = NotSent
  <2>1. letter' = letter /\ unsent' = unsent
    BY <1>1 DEF LockAndWait
  <2>2. \A u \in Caller : ToSend(u)' <=> ToSend(u)
    BY <1>0, <1>1 DEF LockAndWait, Acquire, Resume, Return, AwaitDone, ToSend
  <2> QED
    BY <2>1, <2>2, NothingMoves
<1>2. CASE pc' = pc /\ letter' = letter /\ unsent' = unsent
  BY <1>2, NothingMoves DEF ToSend
<1>3. \/ \E t \in Caller : LockAndWait(t)
      \/ pc' = pc /\ letter' = letter /\ unsent' = unsent
  BY DEF Next, SenderStep, DeviceInterrupt, CallBack, NetworkInterrupt, WorkerStep,
         AwaitMessage, TakePacket, WorkerAcquires, AppendLetter, WorkerReleases,
         ReceiverStep, ReceiverAcquires, RemoveFront, WaitForMail, AwaitSignal, Receive,
         vars, outputVars, deviceVars
<1> QED
  BY <1>1, <1>2, <1>3

LEMMA SendNext == DeviceTypeOK /\ LetterInv /\ SendInv /\ [Next]_vars => SendInv'
BY SendMoves, TransmitMoves, OthersMoveNothing

-------------------------------------------------------------------------------
(* A queue of four parts: what moves from one part to the next stays in place. *)

LEMMA FourthToThird ==
  ASSUME NEW S, NEW p \in Seq(S), NEW i \in Seq(S), NEW w \in Seq(S)
  PROVE  p \o <<>> \o (i \o w) = p \o i \o w
<1>1. p \o <<>> = p /\ (p \o i) \o w = p \o (i \o w)
  BY ConcatEmptySeq, ConcatAssociative
<1> QED
  BY <1>1

LEMMA ThirdToSecond ==
  ASSUME NEW S, NEW l \in Seq(S), NEW i \in Seq(S), NEW w \in Seq(S)
  PROVE  l \o <<>> \o i \o w = l \o i \o <<>> \o w
<1>1. l \o i \in Seq(S)
  BY ConcatProperties
<1> QED
  BY <1>1, ConcatEmptySeq

LEMMA SecondToFirst ==
  ASSUME NEW S, NEW l \in Seq(S), NEW i, NEW w, NEW x \in S
  PROVE  Append(l, x) \o <<>> \o i \o w = l \o <<x>> \o i \o w
<1>1. Append(l, x) = l \o <<x>> /\ Append(l, x) \in Seq(S)
  OBVIOUS
<1> QED
  BY <1>1, ConcatEmptySeq

LEMMA AppendToLast ==
  ASSUME NEW S, NEW p \in Seq(S), NEW w \in Seq(S), NEW x \in S
  PROVE  p \o Append(w, x) = Append(p \o w, x)
<1>1. Append(w, x) = w \o <<x>> /\ Append(p \o w, x) = (p \o w) \o <<x>> /\ <<x>> \in Seq(S)
  BY ConcatProperties
<1> QED
  BY <1>1, ConcatAssociative

LEMMA FrontOfTwo ==
  ASSUME NEW S, NEW p \in Seq(S), NEW q \in Seq(S), p # <<>>
  PROVE  p \o q # <<>> /\ Head(p \o q) = Head(p) /\ Tail(p \o q) = Tail(p) \o q
<1> DEFINE u == Head(p)
           t == Tail(p)
<1>1. u \in S /\ t \in Seq(S) /\ p = <<u>> \o t /\ <<u>> \in Seq(S)
  OBVIOUS
<1> HIDE DEF u, t
<1>2. p \o q = <<u>> \o (t \o q)
  BY <1>1, ConcatAssociative
<1>3. t \o q \in Seq(S)
  BY <1>1, ConcatProperties
<1>4. ASSUME NEW v \in Seq(S)
      PROVE  <<u>> \o v # <<>> /\ Head(<<u>> \o v) = u /\ Tail(<<u>> \o v) = v
  BY <1>1, <1>4
<1> QED
  BY <1>2, <1>3, <1>4 DEF u, t

LEMMA FrontOfFour ==
  ASSUME NEW S, NEW l \in Seq(S), NEW h \in Seq(S), NEW i \in Seq(S), NEW w \in Seq(S),
         l # <<>>, NEW r, r = l \o h \o i \o w
  PROVE  r # <<>> /\ Head(r) = Head(l) /\ Tail(r) = Tail(l) \o h \o i \o w
<1> DEFINE p == l \o h
           q == p \o i
<1>1. p \in Seq(S) /\ q \in Seq(S)
  BY ConcatProperties
<1>2. p # <<>> /\ Head(p) = Head(l) /\ Tail(p) = Tail(l) \o h
  BY FrontOfTwo
<1> HIDE DEF p
<1>3. q # <<>> /\ Head(q) = Head(l) /\ Tail(q) = Tail(l) \o h \o i
  <2>1. p \o i # <<>> /\ Head(p \o i) = Head(p) /\ Tail(p \o i) = Tail(p) \o i
    BY <1>1, <1>2, FrontOfTwo
  <2> QED
    BY <1>2, <2>1
<1> HIDE DEF q
<1>4. q \o w # <<>> /\ Head(q \o w) = Head(l) /\ Tail(q \o w) = Tail(l) \o h \o i \o w
  <2>1. q \o w # <<>> /\ Head(q \o w) = Head(q) /\ Tail(q \o w) = Tail(q) \o w
    BY <1>1, <1>3, FrontOfTwo
  <2> QED
    BY <1>3, <2>1
<1> QED
  BY <1>4 DEF p, q

-------------------------------------------------------------------------------
(* The mails on the way to a box *)

InHand(b) == MailsTo(b, IF wpc \in {"acquire", "append"} THEN <<hand>> ELSE <<>>)

InBuffer(b) == MailsTo(b, IF inbox = NoMail THEN <<>> ELSE <<inbox>>)

QueueOf == [b \in Box |-> OnTheWay(b)]

CallOf == [r \in Receiver |-> IF rpc[r] = "out" THEN {} ELSE {box[r]}]

LEMMA PartsAre ==
  ASSUME InputInv, NEW b \in Box
  PROVE  /\ OnTheWay(b) = letters[b] \o InHand(b) \o InBuffer(b) \o MailsTo(b, wire)
         /\ letters[b] \in Seq(Mail) /\ InHand(b) \in Seq(Mail) /\ InBuffer(b) \in Seq(Mail)
         /\ MailsTo(b, wire) \in Seq(Mail)
<1>1. /\ (IF wpc \in {"acquire", "append"} THEN <<hand>> ELSE <<>>) \in Seq(Letter)
      /\ (IF inbox = NoMail THEN <<>> ELSE <<inbox>>) \in Seq(Letter)
      /\ wire \in Seq(Letter) /\ letters[b] \in Seq(Mail)
  BY DEF InputInv, InputTypes, WorkerInv
<1> QED
  BY <1>1, MailsToAre DEF OnTheWay, InHand, InBuffer

LEMMA PacketsNext ==
  ASSUME NEW b
  PROVE  /\ InHand(b)' = MailsTo(b, IF wpc' \in {"acquire", "append"} THEN <<hand'>> ELSE <<>>)
         /\ InBuffer(b)' = MailsTo(b, IF inbox' = NoMail THEN <<>> ELSE <<inbox'>>)
BY DEF InHand, InBuffer, MailsTo

LEMMA PacketsAre ==
  ASSUME NEW b
  PROVE  /\ wpc \in {"acquire", "append"} => InHand(b) = MailsTo(b, <<hand>>)
         /\ wpc \notin {"acquire", "append"} => InHand(b) = <<>>
         /\ inbox # NoMail => InBuffer(b) = MailsTo(b, <<inbox>>)
         /\ inbox = NoMail => InBuffer(b) = <<>>
         /\ wpc' \in {"acquire", "append"} => InHand(b)' = MailsTo(b, <<hand'>>)
         /\ wpc' \notin {"acquire", "append"} => InHand(b)' = <<>>
         /\ inbox' # NoMail => InBuffer(b)' = MailsTo(b, <<inbox'>>)
         /\ inbox' = NoMail => InBuffer(b)' = <<>>
<1>1. /\ wpc \in {"acquire", "append"} => InHand(b) = MailsTo(b, <<hand>>)
      /\ wpc \notin {"acquire", "append"} => InHand(b) = <<>>
      /\ inbox # NoMail => InBuffer(b) = MailsTo(b, <<inbox>>)
      /\ inbox = NoMail => InBuffer(b) = <<>>
  BY MailsToNone DEF InHand, InBuffer
<1>2. /\ wpc' \in {"acquire", "append"} => InHand(b)' = MailsTo(b, <<hand'>>)
      /\ wpc' \notin {"acquire", "append"} => InHand(b)' = <<>>
      /\ inbox' # NoMail => InBuffer(b)' = MailsTo(b, <<inbox'>>)
      /\ inbox' = NoMail => InBuffer(b)' = <<>>
  BY PacketsNext, MailsToNone
<1> QED
  BY <1>1, <1>2

LEMMA OnTheWayNext ==
  ASSUME NEW b
  PROVE  OnTheWay(b)' = letters'[b] \o InHand(b)' \o InBuffer(b)' \o MailsTo(b, wire')
BY DEF OnTheWay, InHand, InBuffer, MailsTo

LEMMA OnTheWayKept ==
  ASSUME NEW b, letters' = letters, InHand(b)' = InHand(b), InBuffer(b)' = InBuffer(b),
         wire' = wire
  PROVE  OnTheWay(b)' = OnTheWay(b)
BY OnTheWayNext DEF OnTheWay, InHand, InBuffer

LEMMA QueueOfNext ==
  ASSUME \A b \in Box : OnTheWay(b)' = OnTheWay(b)
  PROVE  QueueOf' = QueueOf
BY DEF QueueOf

LEMMA SentIsAtTheEnd ==
  ASSUME InputInv, NEW x \in Letter, wire' = Append(wire, x),
         UNCHANGED <<inbox, hand, wpc, letters>>
  PROVE  QueueOf' = [QueueOf EXCEPT ![x.to] = Append(@, x.id)]
<1>1. wire \in Seq(Letter) /\ x.to \in Box /\ x.id \in Mail
  BY DEF InputInv, InputTypes, Letter
<1>2. ASSUME NEW b \in Box
      PROVE  OnTheWay(b)' = IF b = x.to THEN Append(OnTheWay(b), x.id) ELSE OnTheWay(b)
  <2>1. InHand(b)' = InHand(b) /\ InBuffer(b)' = InBuffer(b)
    BY DEF InHand, InBuffer, MailsTo
  <2>2. OnTheWay(b)' = letters[b] \o InHand(b) \o InBuffer(b) \o MailsTo(b, wire')
    BY <2>1, OnTheWayNext
  <2>3. MailsTo(b, wire') = IF x.to = b THEN Append(MailsTo(b, wire), x.id) ELSE MailsTo(b, wire)
    BY <1>1, MailsToAppend
  <2> DEFINE p == letters[b] \o InHand(b) \o InBuffer(b)
             w == MailsTo(b, wire)
  <2>4. OnTheWay(b) = p \o w /\ OnTheWay(b)' = p \o MailsTo(b, wire')
    BY <2>2, PartsAre
  <2>5. p \in Seq(Mail) /\ w \in Seq(Mail)
    BY PartsAre, ConcatProperties
  <2> HIDE DEF p, w
  <2>6. p \o Append(w, x.id) = Append(p \o w, x.id)
    BY <1>1, <2>5, AppendToLast
  <2> QED
    BY <2>3, <2>4, <2>6 DEF w
<1> QED
  BY <1>1, <1>2 DEF QueueOf

LEMMA PulledInStays ==
  ASSUME InputInv, NetworkInterrupt
  PROVE  QueueOf' = QueueOf
<1>1. /\ UNCHANGED <<hand, wpc, letters>> /\ inbox = NoMail /\ wire # <<>>
      /\ inbox' = Head(wire) /\ wire' = Tail(wire)
  BY DEF NetworkInterrupt, boxVars
<1>2. wire \in Seq(Letter) /\ Head(wire) \in Letter /\ NoMail \notin Letter
  <2>1. wire \in Seq(Letter)
    BY DEF InputInv, InputTypes
  <2>2. NoMail \notin Letter
    BY PostAssumption DEF Letter
  <2> QED
    BY <1>1, <2>1, <2>2
<1> SUFFICES ASSUME NEW b \in Box PROVE OnTheWay(b)' = OnTheWay(b)
  BY QueueOfNext
<1>3. InHand(b)' = InHand(b)
  BY <1>1 DEF InHand, MailsTo
<1>4. InBuffer(b)' = MailsTo(b, <<Head(wire)>>) /\ InBuffer(b) = <<>>
  BY <1>1, <1>2, PacketsAre
<1>5. MailsTo(b, wire) = InBuffer(b)' \o MailsTo(b, wire')
  BY <1>1, <1>2, <1>4, MailsToFront
<1>6. InBuffer(b)' \in Seq(Mail) /\ MailsTo(b, wire') \in Seq(Mail)
  <2>1. <<Head(wire)>> \in Seq(Letter) /\ wire' \in Seq(Letter)
    BY <1>1, <1>2
  <2> QED
    BY <1>4, <2>1, MailsToAre
<1> DEFINE p == letters[b] \o InHand(b)
           i == InBuffer(b)'
           w == MailsTo(b, wire')
<1>7. OnTheWay(b)' = p \o i \o w
  BY <1>1, <1>3, OnTheWayNext
<1>8. OnTheWay(b) = p \o <<>> \o (i \o w)
  BY <1>4, <1>5, PartsAre
<1>9. p \in Seq(Mail) /\ i \in Seq(Mail) /\ w \in Seq(Mail)
  BY <1>6, PartsAre, ConcatProperties
<1> HIDE DEF p, i, w
<1>10. p \o <<>> \o (i \o w) = p \o i \o w
  BY <1>9, FourthToThird
<1> QED
  BY <1>7, <1>8, <1>10

LEMMA TakenStays ==
  ASSUME InputInv, TakePacket
  PROVE  QueueOf' = QueueOf
<1>1. wpc = "receive" /\ inbox # NoMail /\ hand' = inbox
  BY DEF InputInv, WorkerInv, WorkerFindsThePacket, TakePacket
<1>2. inbox' = NoMail /\ wpc' \in {"acquire", "append"} /\ wire' = wire /\ letters' = letters
  BY DEF TakePacket
<1> SUFFICES ASSUME NEW b \in Box PROVE OnTheWay(b)' = OnTheWay(b)
  BY QueueOfNext
<1>3. InHand(b) = <<>> /\ InHand(b)' = InBuffer(b) /\ InBuffer(b)' = <<>>
  BY <1>1, <1>2, PacketsAre
<1>4. OnTheWay(b)' = letters[b] \o InBuffer(b) \o <<>> \o MailsTo(b, wire)
  BY <1>2, <1>3, OnTheWayNext
<1>5. OnTheWay(b) = letters[b] \o <<>> \o InBuffer(b) \o MailsTo(b, wire)
  BY <1>3, PartsAre
<1> QED
  BY <1>4, <1>5, PartsAre, ThirdToSecond

LEMMA AppendedStays ==
  ASSUME InputInv, AppendLetter
  PROVE  QueueOf' = QueueOf
<1>1. /\ wpc = "append" /\ hand \in Letter /\ hand.to \in Box /\ hand.id \in Mail
      /\ wpc' \in {"wait", "release"} /\ wire' = wire /\ inbox' = inbox
      /\ letters' = [letters EXCEPT ![hand.to] = Append(letters[hand.to], hand.id)]
      /\ letters \in [Box -> Seq(Mail)]
  BY DEF InputInv, InputTypes, WorkerInv, AppendLetter, inputVars, Letter
<1> SUFFICES ASSUME NEW b \in Box PROVE OnTheWay(b)' = OnTheWay(b)
  BY QueueOfNext
<1>2. InHand(b) = (IF b = hand.to THEN <<hand.id>> ELSE <<>>) /\ InHand(b)' = <<>>
  BY <1>1, PacketsAre, MailsToOne
<1>3. InBuffer(b)' = InBuffer(b)
  BY <1>1 DEF InBuffer, MailsTo
<1>4. OnTheWay(b)' = letters'[b] \o <<>> \o InBuffer(b) \o MailsTo(b, wire)
  BY <1>1, <1>2, <1>3, OnTheWayNext
<1>5. CASE b = hand.to
  <2>1. OnTheWay(b) = letters[b] \o <<hand.id>> \o InBuffer(b) \o MailsTo(b, wire)
    BY <1>2, <1>5, PartsAre
  <2>2. letters'[b] = Append(letters[b], hand.id)
    BY <1>1, <1>5
  <2>3. letters[b] \in Seq(Mail)
    BY <1>1
  <2> DEFINE l == letters[b]
             i == InBuffer(b)
             w == MailsTo(b, wire)
  <2>4. Append(l, hand.id) \o <<>> \o i \o w = l \o <<hand.id>> \o i \o w
    <3> HIDE DEF l, i, w
    <3> QED
      BY <1>1, <2>3, SecondToFirst DEF l
  <2> QED
    BY <1>4, <2>1, <2>2, <2>4
<1>6. CASE b # hand.to
  <2>1. OnTheWay(b) = letters[b] \o <<>> \o InBuffer(b) \o MailsTo(b, wire)
    BY <1>2, <1>6, PartsAre
  <2> QED
    BY <1>1, <1>4, <1>6, <2>1
<1> QED
  BY <1>5, <1>6

LEMMA RemovedIsTheFirst ==
  ASSUME InputInv, NEW r \in Receiver, RemoveFront(r)
  PROVE  LET b == box[r]
         IN  /\ OnTheWay(b) # <<>>
             /\ received' = [received EXCEPT ![b] = Append(@, Head(OnTheWay(b)))]
             /\ QueueOf' = [QueueOf EXCEPT ![b] = Tail(OnTheWay(b))]
<1>0. PICK b \in Box : b = box[r]
  BY DEF InputInv, InputTypes
<1>1. /\ letters \in [Box -> Seq(Mail)] /\ letters[b] # <<>>
      /\ letters' = [letters EXCEPT ![b] = Tail(letters[b])]
      /\ received' = [received EXCEPT ![b] = Append(@, Head(letters[b]))]
      /\ UNCHANGED <<wire, inbox, hand, wpc>>
  BY <1>0 DEF InputInv, InputTypes, RemoveFront, inputVars
<1>2. ASSUME NEW c \in Box
      PROVE  OnTheWay(c)' = letters'[c] \o InHand(c) \o InBuffer(c) \o MailsTo(c, wire)
  BY <1>1, OnTheWayNext DEF InHand, InBuffer, MailsTo
<1>3. /\ OnTheWay(b) # <<>> /\ Head(OnTheWay(b)) = Head(letters[b])
      /\ Tail(OnTheWay(b)) = Tail(letters[b]) \o InHand(b) \o InBuffer(b) \o MailsTo(b, wire)
  <2> DEFINE l == letters[b]
             h == InHand(b)
             i == InBuffer(b)
             w == MailsTo(b, wire)
  <2>1. /\ l \in Seq(Mail) /\ h \in Seq(Mail) /\ i \in Seq(Mail) /\ w \in Seq(Mail)
        /\ l # <<>> /\ OnTheWay(b) = l \o h \o i \o w
    BY <1>1, PartsAre
  <2> HIDE DEF l, h, i, w
  <2>2. /\ OnTheWay(b) # <<>> /\ Head(OnTheWay(b)) = Head(l)
        /\ Tail(OnTheWay(b)) = Tail(l) \o h \o i \o w
    BY <2>1, FrontOfFour
  <2> QED
    BY <2>2 DEF l, h, i, w
<1>4. OnTheWay(b)' = Tail(OnTheWay(b)) /\ \A c \in Box \ {b} : OnTheWay(c)' = OnTheWay(c)
  BY <1>1, <1>2, <1>3, PartsAre
<1> QED
  BY <1>0, <1>1, <1>3, <1>4 DEF QueueOf

\* The other steps leave the packets where they are.
LEMMA QueuesStay ==
  ASSUME UNCHANGED <<wire, inbox, hand, letters>>,
         wpc' \in {"acquire", "append"} <=> wpc \in {"acquire", "append"}
  PROVE  QueueOf' = QueueOf
<1>1. \A b : InHand(b)' = InHand(b) /\ InBuffer(b)' = InBuffer(b)
  BY PacketsAre
<1> QED
  BY <1>1, OnTheWayKept, QueueOfNext

LEMMA SenderRefines ==
  ASSUME DeviceTypeOK, LetterInv, InputInv, SendInv, NEW t \in Caller, Transmit(t)
  PROVE  Abstract!Next
<1> DEFINE x == letter[t]
<1>1. x \in Letter /\ x.id \in NotSent /\ NotSent' = NotSent \ {x.id}
  BY TransmitMoves
<1>2. x.id \in Mail /\ x.to \in Box
  BY <1>1 DEF Letter
<1>3. UNCHANGED <<inbox, hand, wpc, letters, rpc, box, received>>
  BY DEF Transmit, boxVars, receiveVars
<1>4. CallOf' = CallOf
  BY <1>3 DEF CallOf
<1>5. CASE wire' = Append(wire, x)
  <2>1. QueueOf' = [QueueOf EXCEPT ![x.to] = Append(@, x.id)]
    BY <1>1, <1>3, <1>5, SentIsAtTheEnd
  <2>2. Abstract!Send(x.id, x.to)
    BY <1>1, <1>3, <1>4, <2>1 DEF Abstract!Send, NotSent, QueueOf, CallOf
  <2> QED
    BY <1>2, <2>2 DEF Abstract!Next
<1>6. CASE wire' = wire
  <2>1. QueueOf' = QueueOf
    BY <1>3, <1>6, QueuesStay
  <2>2. Abstract!Lose(x.id)
    BY <1>1, <1>3, <1>4, <2>1 DEF Abstract!Lose, NotSent, QueueOf, CallOf
  <2> QED
    BY <1>2, <2>2 DEF Abstract!Next
<1> QED
  BY <1>5, <1>6 DEF Transmit

LEMMA ReceiverRefines ==
  ASSUME InputInv, NEW r \in Receiver, ReceiverStep(r), NotSent' = NotSent
  PROVE  Abstract!Next \/ UNCHANGED <<NotSent, QueueOf, CallOf, received>>
<1>0. rpc \in [Receiver -> {"out", "acquire", "test", "sleep"}] /\ box \in [Receiver -> Box]
  BY DEF InputInv, InputTypes
<1>1. CASE RemoveFront(r)
  <2>0. PICK b \in Box : b = box[r]
    BY <1>0
  <2>1. /\ OnTheWay(b) # <<>>
        /\ received' = [received EXCEPT ![b] = Append(@, Head(OnTheWay(b)))]
        /\ QueueOf' = [QueueOf EXCEPT ![b] = Tail(OnTheWay(b))]
    BY <1>1, <2>0, RemovedIsTheFirst
  <2>2. rpc[r] = "test" /\ rpc' = [rpc EXCEPT ![r] = "out"] /\ box' = box
    BY <1>1 DEF RemoveFront
  <2>3. CallOf[r] = {b} /\ CallOf' = [CallOf EXCEPT ![r] = {}]
    BY <1>0, <2>0, <2>2 DEF CallOf
  <2>4. QueueOf[b] = OnTheWay(b)
    BY DEF QueueOf
  <2>5. Abstract!Receive(r, b)
    BY <2>1, <2>3, <2>4 DEF Abstract!Receive, NotSent, QueueOf, CallOf
  <2> QED
    BY <2>5 DEF Abstract!Next
<1>2. CASE ReceiverAcquires(r) \/ WaitForMail(r) \/ AwaitSignal(r)
  <2>1. UNCHANGED <<wire, inbox, hand, letters, wpc, box, received>>
    BY <1>2 DEF ReceiverAcquires, WaitForMail, AwaitSignal, inputVars
  <2>2. \A u \in Receiver : rpc'[u] = "out" <=> rpc[u] = "out"
    BY <1>0, <1>2 DEF ReceiverAcquires, WaitForMail, AwaitSignal
  <2>3. CallOf' = CallOf
    BY <2>1, <2>2 DEF CallOf
  <2> QED
    BY <2>1, <2>3, QueuesStay
<1> QED
  BY <1>1, <1>2 DEF ReceiverStep

LEMMA CallRefines ==
  ASSUME InputInv, NEW r \in Receiver, NEW b \in Box, Receive(r, b), NotSent' = NotSent
  PROVE  Abstract!Next
<1>0. rpc \in [Receiver -> {"out", "acquire", "test", "sleep"}] /\ box \in [Receiver -> Box]
  BY DEF InputInv, InputTypes
<1>1. /\ UNCHANGED <<wire, inbox, hand, letters, wpc, received>>
      /\ rpc[r] = "out" /\ box' = [box EXCEPT ![r] = b]
      /\ rpc' = [rpc EXCEPT ![r] = IF Passes(boxLock[b]) THEN "test" ELSE "acquire"]
  BY DEF Receive, inputVars
<1>2. CallOf[r] = {} /\ CallOf' = [CallOf EXCEPT ![r] = {b}]
  BY <1>0, <1>1 DEF CallOf
<1>3. QueueOf' = QueueOf
  BY <1>1, QueuesStay
<1>4. Abstract!Call(r, b)
  BY <1>1, <1>2, <1>3 DEF Abstract!Call, NotSent, QueueOf, CallOf
<1> QED
  BY <1>4 DEF Abstract!Next

LEMMA WorkerRefines ==
  ASSUME InputInv, NetworkInterrupt \/ WorkerStep
  PROVE  UNCHANGED <<QueueOf, CallOf, received>>
<1>1. UNCHANGED <<rpc, box, received>>
  BY DEF NetworkInterrupt, WorkerStep, AwaitMessage, TakePacket, WorkerAcquires,
         AppendLetter, WorkerReleases, receiveVars
<1>2. CallOf' = CallOf
  BY <1>1 DEF CallOf
<1>3. CASE AwaitMessage \/ WorkerAcquires \/ WorkerReleases
  <2>1. UNCHANGED <<wire, inbox, hand, letters>>
    BY <1>3 DEF AwaitMessage, WorkerAcquires, WorkerReleases, inputVars, boxVars
  <2>2. wpc' \in {"acquire", "append"} <=> wpc \in {"acquire", "append"}
    BY <1>3 DEF AwaitMessage, WorkerAcquires, WorkerReleases
  <2> QED
    BY <1>1, <1>2, <2>1, <2>2, QueuesStay
<1> QED
  BY <1>1, <1>2, <1>3, PulledInStays, TakenStays, AppendedStays DEF WorkerStep

LEMMA MailStep ==
  ASSUME DeviceTypeOK, LetterInv, InputInv, SendInv, [Next]_vars
  PROVE  Abstract!Next \/ UNCHANGED <<NotSent, QueueOf, CallOf, received>>
<1>1. ASSUME NEW t \in Caller, Transmit(t) PROVE Abstract!Next
  BY <1>1, SenderRefines
<1>2. ASSUME NEW t \in Caller, Send(t)
      PROVE  UNCHANGED <<NotSent, QueueOf, CallOf, received>>
  <2>1. UNCHANGED <<wire, inbox, hand, letters, wpc, rpc, box, received>>
    BY <1>2 DEF Send, inputVars, boxVars, receiveVars
  <2>2. CallOf' = CallOf /\ QueueOf' = QueueOf
    BY <2>1, QueuesStay DEF CallOf
  <2> QED
    BY <1>2, <2>1, <2>2, SendMoves
<1>3. CASE ~\E t \in Caller : Send(t) \/ Transmit(t)
  <2>1. NotSent' = NotSent
    BY <1>3, OthersMoveNothing
  <2>2. CASE \/ \E t \in Caller : LockAndWait(t)
             \/ \E d \in Device : DeviceInterrupt(d)
             \/ UNCHANGED vars
    <3>1. UNCHANGED <<wire, inbox, hand, letters, wpc, rpc, box, received>>
      BY <2>2 DEF LockAndWait, DeviceInterrupt, vars, inputVars, boxVars, receiveVars
    <3>2. CallOf' = CallOf /\ QueueOf' = QueueOf
      BY <3>1, QueuesStay DEF CallOf
    <3> QED
      BY <2>1, <3>1, <3>2
  <2>3. CASE NetworkInterrupt \/ WorkerStep
    BY <2>1, <2>3, WorkerRefines
  <2>4. ASSUME NEW r \in Receiver, ReceiverStep(r)
        PROVE  Abstract!Next \/ UNCHANGED <<NotSent, QueueOf, CallOf, received>>
    BY <2>1, <2>4, ReceiverRefines
  <2>5. ASSUME NEW r \in Receiver, NEW b \in Box, Receive(r, b)
        PROVE  Abstract!Next
    BY <2>1, <2>5, CallRefines
  <2> QED
    BY <1>3, <2>2, <2>3, <2>4, <2>5 DEF Next, SenderStep
<1> QED
  BY <1>1, <1>2, <1>3

LEMMA MailInit == ASSUME Init PROVE Abstract!Init
<1>1. QueueOf = [b \in Box |-> <<>>]
  <2> SUFFICES ASSUME NEW b \in Box PROVE OnTheWay(b) = <<>>
    BY DEF QueueOf
  <2>1. letters[b] = <<>> /\ wire = <<>> /\ inbox = NoMail /\ wpc = "wait"
    BY DEF Init
  <2>2. <<>> \o <<>> = <<>>
    OBVIOUS
  <2> QED
    BY <2>1, <2>2, MailsToNone DEF OnTheWay
<1>2. CallOf = [r \in Receiver |-> {}] /\ received = [b \in Box |-> <<>>]
  BY DEF Init, CallOf
<1> QED
  BY <1>1, <1>2, SendInit DEF Abstract!Init, QueueOf, CallOf, NotSent

LEMMA SendAlways == Spec => []SendInv
BY SendInit, SendNext, InputAlways, PTL DEF Spec

(***************************************************************************)
(* The post office with its semaphores, locks, buffers and threads keeps   *)
(* the promise of its mailboxes, with any number of senders, receivers,    *)
(* boxes and mails: what is sent is lost on the network or received once,  *)
(* from the box it is addressed to and in the order it was sent.           *)
(***************************************************************************)
THEOREM PostOfficeImplementsMailboxes == Spec => Abstract!Spec
<1>1. Init => Abstract!Init
  BY MailInit
<1>2. DeviceTypeOK /\ LetterInv /\ InputInv /\ SendInv /\ [Next]_vars
        => [Abstract!Next]_(Abstract!vars)
  BY MailStep DEF Abstract!vars, NotSent, QueueOf, CallOf
<1> QED
  BY <1>1, <1>2, InputAlways, SendAlways, PTL DEF Spec, Abstract!Spec

===============================================================================
