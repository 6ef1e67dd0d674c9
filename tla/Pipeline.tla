------------------------------- MODULE Pipeline -------------------------------
(***************************************************************************)
(* The producer-consumer program of Pthread/NTHU-OS-Pthreads: the reader   *)
(* feeds the producers, they feed the consumers, these feed the writer;    *)
(* the controller starts and cancels consumers by the length of the worker *)
(* queue; main waits for the reader and the writer.  The queues are those  *)
(* of BoundedQueue, which TSQueue implements: a call that has to wait is a *)
(* disabled action, and get_size sees some length of the queue.            *)
(***************************************************************************)
EXTENDS Naturals, SequencesExt

CONSTANTS
  Producer,   \* producer1 .. producer4
  Consumer,   \* bound: the Consumer objects that exist at the same time
  NoItem,     \* an empty hand
  n,          \* argv[1], the number of lines
  ReaderQueueSize, WorkerQueueSize, WriterQueueSize,
  LowThreshold, HighThreshold

ASSUME SizeAssumption ==
  /\ {ReaderQueueSize, WorkerQueueSize, WriterQueueSize} \subseteq Nat \ {0}
  /\ {n, LowThreshold, HighThreshold} \subseteq Nat
  /\ HighThreshold < WorkerQueueSize
  /\ NoItem \notin Nat

VARIABLES
  stage,        \* how far each item is transformed
  unread,       \* the items the reader has not read
  readerQueue, workerQueue, writerQueue,
  produced,     \* the item each producer holds, transformed
  consumer,     \* where each Consumer object's thread is; "none": no object
  consumed,     \* the item each consumer holds, transformed
  isCancel,     \* Consumer::is_cancel
  consumers,    \* ConsumerController::consumers
  seen,         \* the controller's local size; NoItem while it sleeps
  written,      \* what the writer has written
  main          \* what main waits for

queueVars    == <<readerQueue, workerQueue, writerQueue>>
consumerVars == <<consumer, consumed, isCancel>>
vars == <<stage, unread, queueVars, produced, consumerVars, consumers, seen,
          written, main>>

Item  == 1 .. n
Stage == {"raw", "produced", "consumed", "garbled"}

Init ==
  /\ stage = [i \in Item |-> "raw"]
  /\ unread = [i \in Item |-> i]
  /\ readerQueue = <<>> /\ workerQueue = <<>> /\ writerQueue = <<>>
  /\ produced = [p \in Producer |-> NoItem]
  /\ consumer = [c \in Consumer |-> "none"]
  /\ consumed = [c \in Consumer |-> NoItem]
  /\ isCancel = [c \in Consumer |-> FALSE]
  /\ consumers = <<>>
  /\ seen = NoItem
  /\ written = <<>>
  /\ main = "reader"

-------------------------------------------------------------------------------
\* Reader::process: read a line and enqueue it.
Read ==
  /\ unread # <<>>
  /\ Len(readerQueue) < ReaderQueueSize
  /\ readerQueue' = Append(readerQueue, Head(unread))
  /\ unread' = Tail(unread)
  /\ UNCHANGED <<stage, workerQueue, writerQueue, produced, consumerVars, consumers,
                 seen, written, main>>

\* Producer::process: dequeue and transform.
Produce(p) ==
  LET i == Head(readerQueue)
  IN  /\ produced[p] = NoItem
      /\ readerQueue # <<>>
      /\ readerQueue' = Tail(readerQueue)
      /\ produced' = [produced EXCEPT ![p] = i]
      /\ stage' = [stage EXCEPT ![i] = IF @ = "raw" THEN "produced" ELSE "garbled"]
      /\ UNCHANGED <<unread, workerQueue, writerQueue, consumerVars, consumers, seen,
                     written, main>>

\* Producer::process: enqueue.
Deliver(p) ==
  /\ produced[p] # NoItem
  /\ Len(workerQueue) < WorkerQueueSize
  /\ workerQueue' = Append(workerQueue, produced[p])
  /\ produced' = [produced EXCEPT ![p] = NoItem]
  /\ UNCHANGED <<stage, unread, readerQueue, writerQueue, consumerVars, consumers,
                 seen, written, main>>

\* Consumer::process: the condition of the loop; a cancelled consumer deletes
\* its object and ends.
TestCancel(c) ==
  /\ consumer[c] = "test"
  /\ consumer' = [consumer EXCEPT ![c] = IF isCancel[c] THEN "none" ELSE "dequeue"]
  /\ UNCHANGED <<stage, unread, queueVars, produced, consumed, isCancel, consumers,
                 seen, written, main>>

\* Consumer::process: dequeue and transform.
Consume(c) ==
  LET i == Head(workerQueue)
  IN  /\ consumer[c] = "dequeue"
      /\ workerQueue # <<>>
      /\ workerQueue' = Tail(workerQueue)
      /\ consumer' = [consumer EXCEPT ![c] = "enqueue"]
      /\ consumed' = [consumed EXCEPT ![c] = i]
      /\ stage' = [stage EXCEPT ![i] = IF @ = "produced" THEN "consumed" ELSE "garbled"]
      /\ UNCHANGED <<unread, readerQueue, writerQueue, produced, isCancel, consumers,
                     seen, written, main>>

\* A variant used as a mutant of Output: cancellation drops the item in hand.
OutputUnlessCancelled(c) ==
  /\ consumer[c] = "enqueue"
  /\ Len(writerQueue) < WriterQueueSize
  /\ writerQueue' = IF isCancel[c] THEN writerQueue ELSE Append(writerQueue, consumed[c])
  /\ consumed' = [consumed EXCEPT ![c] = NoItem]
  /\ consumer' = [consumer EXCEPT ![c] = "test"]
  /\ UNCHANGED <<stage, unread, readerQueue, workerQueue, produced, isCancel,
                 consumers, seen, written, main>>

\* Consumer::process: enqueue, back to the loop.
Output(c) ==
  /\ consumer[c] = "enqueue"
  /\ Len(writerQueue) < WriterQueueSize
  /\ writerQueue' = Append(writerQueue, consumed[c])
  /\ consumed' = [consumed EXCEPT ![c] = NoItem]
  /\ consumer' = [consumer EXCEPT ![c] = "test"]
  /\ UNCHANGED <<stage, unread, readerQueue, workerQueue, produced, isCancel,
                 consumers, seen, written, main>>

\* Writer::process: dequeue and write.
Write ==
  /\ Len(written) < n
  /\ writerQueue # <<>>
  /\ written' = Append(written, Head(writerQueue))
  /\ writerQueue' = Tail(writerQueue)
  /\ UNCHANGED <<stage, unread, readerQueue, workerQueue, produced, consumerVars,
                 consumers, seen, main>>

-------------------------------------------------------------------------------
\* ConsumerController::process: usleep is over, get_size is called.
Check ==
  /\ seen = NoItem
  /\ seen' = Len(workerQueue)
  /\ UNCHANGED <<stage, unread, queueVars, produced, consumerVars, consumers, written,
                 main>>

\* A new Consumer is started and appended to the list.
ScaleUp(c) ==
  /\ seen # NoItem
  /\ seen > HighThreshold
  /\ consumer[c] = "none"
  /\ consumer' = [consumer EXCEPT ![c] = "test"]
  /\ isCancel' = [isCancel EXCEPT ![c] = FALSE]
  /\ consumers' = Append(consumers, c)
  /\ seen' = NoItem
  /\ UNCHANGED <<stage, unread, queueVars, produced, consumed, written, main>>

\* Variants used as mutants of ScaleDown: the last consumer is cancelled too;
\* the newest is cancelled and the oldest taken off the list.
ScaleDownToZero ==
  /\ seen # NoItem
  /\ seen <= HighThreshold /\ seen < LowThreshold /\ Len(consumers) > 0
  /\ isCancel' = [isCancel EXCEPT ![Last(consumers)] = TRUE]
  /\ consumers' = Front(consumers)
  /\ seen' = NoItem
  /\ UNCHANGED <<stage, unread, queueVars, produced, consumer, consumed, written, main>>

ScaleDownWrongEnd ==
  /\ seen # NoItem
  /\ seen <= HighThreshold /\ seen < LowThreshold /\ Len(consumers) > 1
  /\ isCancel' = [isCancel EXCEPT ![Last(consumers)] = TRUE]
  /\ consumers' = Tail(consumers)
  /\ seen' = NoItem
  /\ UNCHANGED <<stage, unread, queueVars, produced, consumer, consumed, written, main>>

\* The newest Consumer is cancelled and taken off the list.
ScaleDown ==
  /\ seen # NoItem
  /\ seen <= HighThreshold /\ seen < LowThreshold /\ Len(consumers) > 1
  /\ isCancel' = [isCancel EXCEPT ![Last(consumers)] = TRUE]
  /\ consumers' = Front(consumers)
  /\ seen' = NoItem
  /\ UNCHANGED <<stage, unread, queueVars, produced, consumer, consumed, written, main>>

Keep ==
  /\ seen # NoItem
  /\ seen <= HighThreshold /\ ~(seen < LowThreshold /\ Len(consumers) > 1)
  /\ seen' = NoItem
  /\ UNCHANGED <<stage, unread, queueVars, produced, consumerVars, consumers, written,
                 main>>

\* A variant used as a mutant of Join: main does not wait for the writer.
JoinReaderOnly ==
  /\ main = "reader" /\ unread = <<>> /\ main' = "returned"
  /\ UNCHANGED <<stage, unread, queueVars, produced, consumerVars, consumers, seen,
                 written>>

\* main: reader.join(), then writer.join(), then return.
Join ==
  /\ \/ main = "reader" /\ unread = <<>> /\ main' = "writer"
     \/ main = "writer" /\ Len(written) = n /\ main' = "returned"
  /\ UNCHANGED <<stage, unread, queueVars, produced, consumerVars, consumers, seen,
                 written>>

\* The process exits when main returns, whatever the other threads do.
Exited == main = "returned" /\ UNCHANGED vars

Work(c) == TestCancel(c) \/ Consume(c) \/ Output(c)

Control == Check \/ (\E c \in Consumer : ScaleUp(c)) \/ ScaleDown \/ Keep

Next ==
  \/ /\ main # "returned"
     /\ \/ Read \/ Write \/ Join \/ Control
        \/ \E p \in Producer : Produce(p) \/ Deliver(p)
        \/ \E c \in Consumer : Work(c)
  \/ Exited

Spec == Init /\ [][Next]_vars

\* Every thread is scheduled, and usleep ends.
FairSpec ==
  /\ Spec
  /\ WF_vars(Read) /\ WF_vars(Write) /\ WF_vars(Join)
  /\ WF_vars(main # "returned" /\ Control)
  /\ \A p \in Producer : WF_vars(Produce(p) \/ Deliver(p))
  /\ \A c \in Consumer : WF_vars(main # "returned" /\ Work(c))

-------------------------------------------------------------------------------
TypeOK ==
  /\ stage \in [Item -> Stage]
  /\ unread \in Seq(Item)
  /\ readerQueue \in Seq(Item) /\ Len(readerQueue) <= ReaderQueueSize
  /\ workerQueue \in Seq(Item) /\ Len(workerQueue) <= WorkerQueueSize
  /\ writerQueue \in Seq(Item) /\ Len(writerQueue) <= WriterQueueSize
  /\ produced \in [Producer -> Item \cup {NoItem}]
  /\ consumer \in [Consumer -> {"none", "test", "dequeue", "enqueue"}]
  /\ consumed \in [Consumer -> Item \cup {NoItem}]
  /\ isCancel \in [Consumer -> BOOLEAN]
  /\ consumers \in Seq(Consumer)
  /\ seen \in 0 .. WorkerQueueSize \cup {NoItem}
  /\ written \in Seq(Item)
  /\ main \in {"reader", "writer", "returned"}

Held(f) == {f[x] : x \in DOMAIN f} \ {NoItem}

(***************************************************************************)
(* Every item is in one place, exactly as far transformed as that place    *)
(* says: no item is lost in the hands of a cancelled consumer, handed to   *)
(* two threads, transformed twice or written untransformed.                *)
(***************************************************************************)
EachItemOnceInItsStage ==
  LET line == unread \o readerQueue \o workerQueue \o writerQueue \o written
      held == Held(produced) \cup Held(consumed)
      stageOf(S, s) == \A i \in S : stage[i] = s
  IN  /\ IsInjective(line)
      /\ Range(line) \cap held = {} /\ Range(line) \cup held = Item
      /\ Held(produced) \cap Held(consumed) = {}
      /\ \A f \in {produced, consumed} : \A x, y \in DOMAIN f :
           f[x] # NoItem /\ f[x] = f[y] => x = y
      /\ stageOf(Range(unread \o readerQueue), "raw")
      /\ stageOf(Range(workerQueue) \cup Held(produced), "produced")
      /\ stageOf(Range(writerQueue \o written) \cup Held(consumed), "consumed")

(***************************************************************************)
(* "Maintains the list of running Consumers in ConsumerController::        *)
(* consumers" (README): the list holds each consumer that was not          *)
(* cancelled, once, and never a pointer to one that has deleted itself, so *)
(* cancel() is never called on a deleted object.                           *)
(***************************************************************************)
ListsRunningConsumers ==
  /\ IsInjective(consumers)
  /\ Range(consumers) = {c \in Consumer : consumer[c] # "none" /\ ~isCancel[c]}

(***************************************************************************)
(* "Once you have created a Consumer, make sure there is at least one      *)
(* Consumer until the program ends" (README): one that is not cancelled,   *)
(* so that no item is left in the worker queue for want of a consumer.     *)
(***************************************************************************)
AtLeastOneConsumer ==
  [][(\E c \in Consumer : consumer[c] # "none")
       => \E c \in Consumer : consumer'[c] # "none" /\ ~isCancel'[c]]_vars

(***************************************************************************)
(* When main returns and its queues are destroyed, none holds an item and  *)
(* no thread holds one either: whoever still runs or sleeps in dequeue     *)
(* finds size 0 and does not touch a buffer that was deleted.              *)
(***************************************************************************)
QuietAtExit ==
  main = "returned" =>
    /\ readerQueue = <<>> /\ workerQueue = <<>> /\ writerQueue = <<>>
    /\ Held(produced) = {} /\ Held(consumed) = {}

(***************************************************************************)
(* "The writer thread finished after output expected lines of item"        *)
(* (writer.hpp:20), and main after it: the program ends.                   *)
(***************************************************************************)
MainReturns == <>(main = "returned")
===============================================================================
