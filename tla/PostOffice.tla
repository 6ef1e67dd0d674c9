------------------------------ MODULE PostOffice ------------------------------
(***************************************************************************)
(* The post office of NachOS: network/post.cc over machine/network.cc,     *)
(* with the mailboxes' SynchList (threads/synchlist.cc) and its Condition  *)
(* (threads/synch.cc).  Senders make requests to the output device; what   *)
(* is not lost travels to the input device, whose interrupt handler pulls  *)
(* in one packet at a time and signals the postal worker; the worker puts  *)
(* the mail into its mailbox; receivers wait on the mailbox's condition.   *)
(* Sender and receiver may be on one machine or on two.                    *)
(***************************************************************************)
EXTENDS SynchDevice, FiniteSets

CONSTANTS
  Network,   \* the output device
  Receiver,  \* the threads that call PostOfficeInput::Receive
  Worker,    \* the postal worker
  MailCount, \* bound: the number of calls of Send
  NoMail,    \* an empty buffer: length 0
  Box,       \* the mailboxes of the input side
  Lossy      \* "-n" below 1: packets may be lost

Mail == 1 .. MailCount  \* numbered in the order of the calls

ASSUME PostAssumption ==
  /\ MailCount \in Nat
  /\ Device = {Network} /\ Lossy \in BOOLEAN
  /\ NoMail \notin [id : Mail, to : Box]
  /\ Nobody \notin Receiver \cup {Worker} /\ Worker \notin Receiver
  /\ IsFiniteSet(Receiver)

VARIABLES
  unsent,     \* the mails no sender has taken
  letter,     \* the mail each sender has to send
  wire,       \* the packets in the socket
  inbox,      \* NetworkInput::inHdr and inbox
  available,  \* the semaphore messageAvailable
  hand,       \* the worker's buffer
  wpc,        \* where the worker is
  boxLock,    \* of each mailbox's list
  letters,    \* the list
  waiters,    \* the condition's waitQueue, one semaphore for each waiting thread
  signal,     \* these semaphores
  rpc,        \* where each receiver is
  box,        \* the box it receives from
  received    \* the mails received from each box

outputVars  == <<deviceVars, unsent, letter>>
inputVars   == <<wire, inbox, available>>
boxVars     == <<boxLock, letters, waiters, signal>>
receiveVars == <<rpc, box, received>>
vars == <<outputVars, inputVars, hand, wpc, boxVars, receiveVars>>

Letter == [id : Mail, to : Box]

Init ==
  /\ DeviceInit
  /\ unsent = Mail
  /\ letter = [t \in Caller |-> NoMail]
  /\ wire = <<>>
  /\ inbox = NoMail
  /\ available = NewSemaphore(0)
  /\ hand = NoMail
  /\ wpc = "wait"
  /\ boxLock = [b \in Box |-> NewLock]
  /\ letters = [b \in Box |-> <<>>]
  /\ waiters = [b \in Box |-> <<>>]
  /\ signal = [r \in Receiver |-> NewSemaphore(0)]
  /\ rpc = [r \in Receiver |-> "out"]
  /\ box \in [Receiver -> Box]
  /\ received = [b \in Box |-> <<>>]

-------------------------------------------------------------------------------
(* The output side *)

\* A thread calls PostOfficeOutput::Send.
Send(t) ==
  \E m \in unsent, b \in Box :
    /\ \A k \in unsent : m <= k
    /\ Call(t, Network)
    /\ letter' = [letter EXCEPT ![t] = [id |-> m, to |-> b]]
    /\ unsent' = unsent \ {m}
    /\ UNCHANGED <<inputVars, hand, wpc, boxVars, receiveVars>>

\* NetworkOutput::Send: the packet is in the socket, or lost, before the
\* callback.
Transmit(t) ==
  /\ Request(t)
  /\ wire' = Append(wire, letter[t]) \/ (Lossy /\ UNCHANGED wire)
  /\ letter' = [letter EXCEPT ![t] = NoMail]
  /\ UNCHANGED <<unsent, inbox, available, hand, wpc, boxVars, receiveVars>>

LockAndWait(t) ==
  /\ Acquire(t) \/ Resume(t) \/ Return(t)
  /\ UNCHANGED <<unsent, letter, inputVars, hand, wpc, boxVars, receiveVars>>

DeviceInterrupt(d) ==
  /\ CallBack(d)
  /\ UNCHANGED <<unsent, letter, inputVars, hand, wpc, boxVars, receiveVars>>

-------------------------------------------------------------------------------
(* The input side *)

\* A variant used as a mutant of NetworkInterrupt: a buffered packet is replaced.
NetworkInterruptOverwrites ==
  /\ wire # <<>>
  /\ inbox' = Head(wire)
  /\ wire' = Tail(wire)
  /\ available' = V(available)
  /\ UNCHANGED <<outputVars, hand, wpc, boxVars, receiveVars>>

\* NetworkInput::CallBack and PostOfficeInput::CallBack.
NetworkInterrupt ==
  /\ inbox = NoMail
  /\ wire # <<>>
  /\ inbox' = Head(wire)
  /\ wire' = Tail(wire)
  /\ available' = V(available)
  /\ UNCHANGED <<outputVars, hand, wpc, boxVars, receiveVars>>

\* PostalDelivery: messageAvailable->P().
AwaitMessage ==
  /\ wpc = "wait"
  /\ ~Asleep(available, Worker)
  /\ available' = P(available, Worker)
  /\ wpc' = IF Passes(available) THEN "receive" ELSE "wait"
  /\ UNCHANGED <<outputVars, wire, inbox, hand, boxVars, receiveVars>>

\* The P of lock->Acquire() of a box's list, by t who then goes on to next.
AcquireBox(t, b) ==
  /\ ~Asleep(boxLock[b], t)
  /\ boxLock' = [boxLock EXCEPT ![b] = P(@, t)]

\* A variant used as a mutant of TakePacket: the length is not reset.
TakePacketAndKeep ==
  /\ wpc = "receive"
  /\ hand' = IF inbox = NoMail THEN hand ELSE inbox
  /\ AcquireBox(Worker, hand'.to)
  /\ wpc' = IF Passes(boxLock[hand'.to]) THEN "append" ELSE "acquire"
  /\ UNCHANGED <<outputVars, inputVars, letters, waiters, signal, receiveVars>>

\* NetworkInput::Receive, which leaves an empty buffer's old contents to the
\* worker, and SynchList::Append up to the P of its lock.
TakePacket ==
  /\ wpc = "receive"
  /\ hand' = IF inbox = NoMail THEN hand ELSE inbox
  /\ inbox' = NoMail
  /\ AcquireBox(Worker, hand'.to)
  /\ wpc' = IF Passes(boxLock[hand'.to]) THEN "append" ELSE "acquire"
  /\ UNCHANGED <<outputVars, wire, available, letters, waiters, signal, receiveVars>>

WorkerAcquires ==
  /\ wpc = "acquire"
  /\ AcquireBox(Worker, hand.to)
  /\ wpc' = IF Passes(boxLock[hand.to]) THEN "append" ELSE "acquire"
  /\ UNCHANGED <<outputVars, inputVars, hand, letters, waiters, signal, receiveVars>>

\* A variant used as a mutant of AppendLetter: it signals nobody.
AppendLetterSilently ==
  LET b == hand.to
  IN  /\ wpc = "append"
      /\ letters' = [letters EXCEPT ![b] = Append(@, hand.id)]
      /\ boxLock' = [boxLock EXCEPT ![b] = Release(@)]
      /\ wpc' = "wait"
      /\ UNCHANGED <<waiters, signal, outputVars, inputVars, hand, receiveVars>>

\* SynchList::Append and Condition::Signal.  Nobody waits: lock->Release() too.
AppendLetter ==
  LET b == hand.to
  IN  /\ wpc = "append"
      /\ letters' = [letters EXCEPT ![b] = Append(@, hand.id)]
      /\ IF waiters[b] = <<>>
         THEN /\ boxLock' = [boxLock EXCEPT ![b] = Release(@)]
              /\ wpc' = "wait"
              /\ UNCHANGED <<waiters, signal>>
         ELSE /\ boxLock' = [boxLock EXCEPT ![b] = HeldBy(@, Worker)]
              /\ waiters' = [waiters EXCEPT ![b] = Tail(@)]
              /\ signal' = [signal EXCEPT ![Head(waiters[b])] = V(@)]
              /\ wpc' = "release"
      /\ UNCHANGED <<outputVars, inputVars, hand, receiveVars>>

WorkerReleases ==
  /\ wpc = "release"
  /\ boxLock' = [boxLock EXCEPT ![hand.to] = Release(@)]
  /\ wpc' = "wait"
  /\ UNCHANGED <<outputVars, inputVars, hand, letters, waiters, signal, receiveVars>>

-------------------------------------------------------------------------------
(* Receivers *)

\* PostOfficeInput::Receive, SynchList::RemoveFront up to the P of its lock.
Receive(r, b) ==
  /\ rpc[r] = "out"
  /\ box' = [box EXCEPT ![r] = b]
  /\ AcquireBox(r, b)
  /\ rpc' = [rpc EXCEPT ![r] = IF Passes(boxLock[b]) THEN "test" ELSE "acquire"]
  /\ UNCHANGED <<outputVars, inputVars, hand, wpc, letters, waiters, signal, received>>

\* The loop of that P, or of the one in Condition::Wait.
ReceiverAcquires(r) ==
  /\ rpc[r] = "acquire"
  /\ AcquireBox(r, box[r])
  /\ rpc' = [rpc EXCEPT ![r] = IF Passes(boxLock[box[r]]) THEN "test" ELSE "acquire"]
  /\ UNCHANGED <<outputVars, inputVars, hand, wpc, letters, waiters, signal, box,
                 received>>

\* SynchList::RemoveFront finds a mail, and lock->Release().
RemoveFront(r) ==
  LET b == box[r]
  IN  /\ rpc[r] = "test"
      /\ letters[b] # <<>>
      /\ received' = [received EXCEPT ![b] = Append(@, Head(letters[b]))]
      /\ letters' = [letters EXCEPT ![b] = Tail(@)]
      /\ boxLock' = [boxLock EXCEPT ![b] = Release(@)]
      /\ rpc' = [rpc EXCEPT ![r] = "out"]
      /\ UNCHANGED <<outputVars, inputVars, hand, wpc, waiters, signal, box>>

\* Or none, and calls Condition::Wait, up to the end of its lock->Release().
WaitForMail(r) ==
  LET b == box[r]
  IN  /\ rpc[r] = "test"
      /\ letters[b] = <<>>
      /\ waiters' = [waiters EXCEPT ![b] = Append(@, r)]
      /\ signal' = [signal EXCEPT ![r] = NewSemaphore(0)]
      /\ boxLock' = [boxLock EXCEPT ![b] = Release(@)]
      /\ rpc' = [rpc EXCEPT ![r] = "sleep"]
      /\ UNCHANGED <<outputVars, inputVars, hand, wpc, letters, box, received>>

\* Condition::Wait: waiter->P().
AwaitSignal(r) ==
  /\ rpc[r] = "sleep"
  /\ ~Asleep(signal[r], r)
  /\ signal' = [signal EXCEPT ![r] = P(@, r)]
  /\ rpc' = [rpc EXCEPT ![r] = IF Passes(signal[r]) THEN "acquire" ELSE "sleep"]
  /\ UNCHANGED <<outputVars, inputVars, hand, wpc, boxLock, letters, waiters, box,
                 received>>

-------------------------------------------------------------------------------
SenderStep(t) == Transmit(t) \/ LockAndWait(t)

WorkerStep ==
  AwaitMessage \/ TakePacket \/ WorkerAcquires \/ AppendLetter \/ WorkerReleases

ReceiverStep(r) ==
  ReceiverAcquires(r) \/ RemoveFront(r) \/ WaitForMail(r) \/ AwaitSignal(r)

Next ==
  \/ \E t \in Caller : Send(t) \/ SenderStep(t)
  \/ \E d \in Device : DeviceInterrupt(d)
  \/ NetworkInterrupt
  \/ WorkerStep
  \/ \E r \in Receiver : ReceiverStep(r) \/ \E b \in Box : Receive(r, b)

Spec == Init /\ [][Next]_vars

(***************************************************************************)
(* A thread that is ready is scheduled (a FIFO ready list with time        *)
(* slices), a request is followed by its interrupt and the network is      *)
(* polled again and again.  Nobody has to call.                            *)
(***************************************************************************)
FairSpec ==
  /\ Spec
  /\ \A t \in Caller : WF_vars(SenderStep(t))
  /\ \A d \in Device : WF_vars(DeviceInterrupt(d))
  /\ WF_vars(NetworkInterrupt)
  /\ WF_vars(WorkerStep)
  /\ \A r \in Receiver : WF_vars(ReceiverStep(r))

-------------------------------------------------------------------------------
TypeOK ==
  /\ DeviceTypeOK
  /\ unsent \subseteq Mail
  /\ letter \in [Caller -> Letter \cup {NoMail}]
  /\ wire \in Seq(Letter)
  /\ {inbox, hand} \subseteq Letter \cup {NoMail}
  /\ available \in [value : {0, 1}, queue : {<<>>, <<Worker>>}]
  /\ wpc \in {"wait", "receive", "acquire", "append", "release"}
  /\ \A b \in Box : /\ boxLock[b].value \in {0, 1}
                    /\ boxLock[b].queue \in Seq(Receiver \cup {Worker})
                    /\ boxLock[b].holder \in Receiver \cup {Worker, Nobody}
  /\ letters \in [Box -> Seq(Mail)]
  /\ waiters \in [Box -> Seq(Receiver)]
  /\ \A r \in Receiver : /\ signal[r].value \in {0, 1}
                         /\ signal[r].queue \in {<<>>, <<r>>}
  /\ rpc \in [Receiver -> {"out", "acquire", "test", "sleep"}]
  /\ box \in [Receiver -> Box]
  /\ received \in [Box -> Seq(Mail)]

(***************************************************************************)
(* The worker wakes for a packet and for nothing else: Receive never finds *)
(* the buffer empty, which would deliver the mail in the worker's buffer a *)
(* second time, and no packet is pulled in that the worker is not told of. *)
(***************************************************************************)
WorkerFindsThePacket ==
  inbox # NoMail <=> available.value = 1 \/ wpc = "receive"

(***************************************************************************)
(* No signal is lost between Release and P in Condition::Wait: while a     *)
(* receiver waits on a box that is not locked, each letter in it has a     *)
(* receiver of its own that was signalled or is about to look.             *)
(***************************************************************************)
NoLostSignal ==
  \A b \in Box :
    waiters[b] # <<>> /\ boxLock[b].holder = Nobody /\ boxLock[b].value = 1 =>
      Len(letters[b]) <=
        Cardinality({r \in Receiver :
          /\ box[r] = b /\ rpc[r] \in {"acquire", "sleep"}
          /\ ~\E i \in DOMAIN waiters[b] : waiters[b][i] = r})

\* The n-th of the numbers in A, counted from the smallest.
Nth(A, n) == CHOOSE i \in A : Cardinality({j \in A : j <= i}) = n

\* The mails to b among the packets p, in their order.
MailsTo(b, p) ==
  LET at == {i \in DOMAIN p : p[i].to = b}
  IN  [n \in 1 .. Cardinality(at) |-> p[Nth(at, n)].id]

(***************************************************************************)
(* The mails on the way to b, the oldest first: in its list, in the hands  *)
(* of the worker, in the buffer, on the wire.                              *)
(***************************************************************************)
OnTheWay(b) ==
  letters[b]
    \o MailsTo(b, IF wpc \in {"acquire", "append"} THEN <<hand>> ELSE <<>>)
    \o MailsTo(b, IF inbox = NoMail THEN <<>> ELSE <<inbox>>)
    \o MailsTo(b, wire)

Sending ==
  {letter[t].id : t \in {t \in Caller : pc[t] \in {"acquire", "request"}}}

Abstract == INSTANCE Mailboxes WITH
  unsent <- unsent \cup Sending,
  queue  <- [b \in Box |-> OnTheWay(b)],
  call   <- [r \in Receiver |-> IF rpc[r] = "out" THEN {} ELSE {box[r]}]

\* Every mail is received at most once, in order, from its box, and the calls
\* of Receive return when there is a mail for them (PostOfficeInput::Receive).
ImplementsMailboxes == Abstract!FairSpec

\* Every Send returns, also when its packet is lost ("Called even if the
\* previous packet was dropped", post.cc:336); the number of mails is finite.
EverySendReturns ==
  \A t \in Caller : pc[t] # "out" ~> pc[t] = "out"
===============================================================================
