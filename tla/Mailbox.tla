------------------------------ MODULE Mailbox ------------------------------
(***************************************************************************)
(* What the IPC of the kernel promises, without the scheduler and without  *)
(* the memory it is built from: every process owns an unbounded-looking    *)
(* FIFO inbox, all inboxes together hold at most Capacity messages, a      *)
(* message enters exactly one inbox once and leaves it once, in order and  *)
(* unchanged.                                                              *)
(***************************************************************************)
EXTENDS Integers, Sequences, FiniteSets

CONSTANTS Owner,      \* the processes
          Envelope,   \* what a message carries
          Capacity    \* messages that can be held at the same time

VARIABLE box

MailboxInit == box = [p \in Owner |-> <<>>]

\* The messages held, each named by its inbox and its place in it.
Held == UNION {{<<p, i>> : i \in 1 .. Len(box[p])} : p \in Owner}

\* A message arrives at the end of one inbox, if there is room for it.
Put(p) ==
    /\ \E e \in Envelope : box'[p] = Append(box[p], e)
    /\ \A q \in Owner \ {p} : box'[q] = box[q]
    /\ Cardinality(Held) < Capacity

\* The oldest message leaves an inbox.
Take(p) ==
    /\ box[p] # <<>>
    /\ box'[p] = Tail(box[p])
    /\ \A q \in Owner \ {p} : box'[q] = box[q]

MailboxNext == \E p \in Owner : Put(p) \/ Take(p)

MailboxSpec == MailboxInit /\ [][MailboxNext]_box
=============================================================================
