------------------------------- MODULE Mailboxes -------------------------------
(***************************************************************************)
(* What the post office promises (network/post.h): a mail that is sent is  *)
(* lost on the network or received once, from the mailbox it is addressed  *)
(* to, in the order the mails went out; a Receive call returns while there *)
(* is a mail for it.                                                       *)
(***************************************************************************)
EXTENDS Sequences

CONSTANTS Mail, Box, Receiver

VARIABLES
  unsent,   \* the mails that have not gone out
  queue,    \* of each box, those on the way to it or in it
  call,     \* the box each receiver is waiting for a mail from; {} if none
  received  \* of each box, the mails received from it

vars == <<unsent, queue, call, received>>

Init ==
  /\ unsent = Mail
  /\ queue = [b \in Box |-> <<>>]
  /\ call = [r \in Receiver |-> {}]
  /\ received = [b \in Box |-> <<>>]

Send(m, b) ==
  /\ m \in unsent
  /\ unsent' = unsent \ {m}
  /\ queue' = [queue EXCEPT ![b] = Append(@, m)]
  /\ UNCHANGED <<call, received>>

Lose(m) ==
  /\ m \in unsent
  /\ unsent' = unsent \ {m}
  /\ UNCHANGED <<queue, call, received>>

Call(r, b) ==
  /\ call[r] = {}
  /\ call' = [call EXCEPT ![r] = {b}]
  /\ UNCHANGED <<unsent, queue, received>>

Receive(r, b) ==
  /\ call[r] = {b}
  /\ queue[b] # <<>>
  /\ queue' = [queue EXCEPT ![b] = Tail(@)]
  /\ received' = [received EXCEPT ![b] = Append(@, Head(queue[b]))]
  /\ call' = [call EXCEPT ![r] = {}]
  /\ UNCHANGED unsent

Next ==
  \/ \E m \in Mail : Lose(m) \/ \E b \in Box : Send(m, b)
  \/ \E r \in Receiver, b \in Box : Call(r, b) \/ Receive(r, b)

Spec == Init /\ [][Next]_vars

\* A box with mail and callers hands out its mail.
FairSpec == Spec /\ \A b \in Box : WF_vars(\E r \in Receiver : Receive(r, b))
===============================================================================
