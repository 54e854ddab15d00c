-------------------------------- MODULE Ipc --------------------------------
(***************************************************************************)
(* Message passing (kernel/ipc/ipc.c) on top of the process manager: a      *)
(* static pool of messages shared by all processes and one linked queue     *)
(* per process.                                                            *)
(*                                                                         *)
(* Only the two sections between cli() and restore_flags() are protected   *)
(* from the timer.  msg_alloc and the filling of the message are not, and   *)
(* neither is the gap between ipc_recv finding its queue empty and going   *)
(* to sleep.  The model has a step boundary at each of these places, where  *)
(* timer_interrupt of module Proc may intervene whenever the hardware       *)
(* state lets it.                                                          *)
(***************************************************************************)
EXTENDS Proc, Sequences

CONSTANTS IPC_POOL_SIZE,  \* messages in msg_pool (128)
          Payload,        \* the contents a sender can hand over
          NoData          \* a send with len > 0 and a null data pointer

ASSUME PoolAssumption == IPC_POOL_SIZE \in Nat \ {0}
ASSUME PayloadAssumption == NoData \notin Payload

VARIABLES msg_used,   \* msg_used[i]
          msg_next,   \* msg_pool[i].next
          msg_from,   \* msg_pool[i].from
          msg_data,   \* msg_pool[i].type, len and data
          msg_queue,  \* proc_table[p].msg_queue: head of the list, or NULL
          msg_tail,   \* proc_table[p].msg_tail, or NULL
          msg_count,  \* proc_table[p].msg_count
          call        \* what p has under way in ipc_send or ipc_recv

poolVars  == <<msg_used, msg_next, msg_from, msg_data>>
queueVars == <<msg_queue, msg_tail, msg_count>>
ipcVars   == <<poolVars, queueVars>>
allVars   == <<vars, ipcVars, call>>

Msg == 0 .. (IPC_POOL_SIZE - 1)

\* Local variables of the calls: "claim", a free message was found and is not
\* marked yet; "enqueue", it is marked and filled; "recv", at the head of the
\* loop of ipc_recv; "doze", the queue was empty and proc_sleep comes next.
Idle == [at |-> "none"]
Calls == {Idle, [at |-> "recv"], [at |-> "doze"]}
           \cup [at : {"claim", "enqueue"}, m : Msg, target : Slot,
                 data : Payload \cup {NoData}]

IpcInit ==
    /\ Init
    /\ msg_used = [m \in Msg |-> FALSE]
    /\ msg_next = [m \in Msg |-> NULL]
    /\ msg_from = [m \in Msg |-> 0]
    /\ msg_data = [m \in Msg |-> NoData]
    /\ msg_queue = [p \in Slot |-> NULL]
    /\ msg_tail = [p \in Slot |-> NULL]
    /\ msg_count = [p \in Slot |-> 0]
    /\ call = [p \in Slot |-> Idle]

me == current_proc
At(where) == phase = "run" /\ me # IDLE /\ call[me].at = where

\* The slots whose pid is d; proc_find returns the first of them.
Named(d) == {p \in Slot : proc_state[p] # "UNUSED" /\ pid[p] = d}
proc_find(d) == IF Named(d) = {} THEN NULL ELSE Min(Named(d))

Free == {m \in Msg : ~msg_used[m]}

-----------------------------------------------------------------------------
(* ipc_send *)

\* -ESRCH, -EINVAL for a message too long, -ENOMEM: nothing has changed.  The
\* test for the length comes between the other two and has the same effect.
SendFails(d, long) ==
    /\ At("none")
    /\ proc_find(d) = NULL \/ long \/ Free = {}
    /\ other_syscall
    /\ UNCHANGED <<ipcVars, call>>

\* msg_alloc: the scan has found a message that is not marked.
SendFind(d, data) ==
    /\ At("none") /\ InKernel
    /\ proc_find(d) # NULL
    /\ Free # {}
    /\ call' = [call EXCEPT ![me] = [at |-> "claim", m |-> Min(Free),
                                     target |-> proc_find(d), data |-> data]]
    /\ UNCHANGED <<vars, ipcVars>>

\* Mutant: the message is not marked.
NotMarked(m) == msg_used
Marked(m) == [msg_used EXCEPT ![m] = TRUE]

\* msg_alloc marks it, ipc_send fills it.  Without a data pointer the bytes of
\* whatever message used the slot before stay in it.
SendFill ==
    /\ At("claim")
    /\ LET m == call[me].m
       IN  /\ msg_used' = Marked(m)
           /\ msg_next' = [msg_next EXCEPT ![m] = NULL]
           /\ msg_from' = [msg_from EXCEPT ![m] = pid[me]]
           /\ msg_data' = [msg_data EXCEPT ![m] =
                              IF call[me].data = NoData THEN @ ELSE call[me].data]
    /\ call' = [call EXCEPT ![me].at = "enqueue"]
    /\ UNCHANGED <<vars, queueVars>>

\* Mutant: the count is forgotten.
NotCounted(p) == msg_count
Counted(p) == [msg_count EXCEPT ![p] = @ + 1]

\* m->next = NULL; target->msg_tail->next = m
Linked(m, last) ==
    [n \in Msg |-> CASE n = m -> NULL
                     [] n = last /\ n # m -> m
                     [] OTHER -> msg_next[n]]

\* Mutant: the head is set for every message.
HeadIsNewest(m, target) == m
HeadAfter(m, target) == IF msg_tail[target] = NULL THEN m ELSE msg_queue[target]

\* The section under cli: append to the queue of the target and wake it.
SendEnqueue ==
    /\ At("enqueue")
    /\ LET m == call[me].m
           target == call[me].target
       IN  /\ msg_next' = Linked(m, msg_tail[target])
           /\ msg_queue' = [msg_queue EXCEPT ![target] = HeadAfter(m, target)]
           /\ msg_tail' = [msg_tail EXCEPT ![target] = m]
           /\ msg_count' = Counted(target)
           /\ proc_wakeup(target)
    /\ call' = [call EXCEPT ![me] = Idle]
    /\ UNCHANGED <<msg_used, msg_from, msg_data>>

-----------------------------------------------------------------------------
(* ipc_recv *)

RecvStart ==
    /\ At("none") /\ InKernel
    /\ call' = [call EXCEPT ![me] = [at |-> "recv"]]
    /\ UNCHANGED <<vars, ipcVars>>

\* Mutant: the tail keeps pointing at the message that was taken.
StaleTail(m) == msg_tail[me]
TailAfter(m) == IF msg_next[m] = NULL THEN NULL ELSE msg_tail[me]

\* The section under cli, when there is a message: unlink, copy out, free.
RecvTake ==
    /\ At("recv")
    /\ msg_queue[me] # NULL
    /\ LET m == msg_queue[me]
       IN  /\ msg_queue' = [msg_queue EXCEPT ![me] = msg_next[m]]
           /\ msg_tail' = [msg_tail EXCEPT ![me] = TailAfter(m)]
           /\ msg_count' = [msg_count EXCEPT ![me] = @ - 1]
           /\ msg_used' = [msg_used EXCEPT ![m] = FALSE]
    /\ other_syscall
    /\ call' = [call EXCEPT ![me] = Idle]
    /\ UNCHANGED <<msg_next, msg_from, msg_data>>

\* The same section when the queue is empty: restore_flags, then proc_sleep.
RecvEmpty ==
    /\ At("recv")
    /\ msg_queue[me] = NULL
    /\ call' = [call EXCEPT ![me] = [at |-> "doze"]]
    /\ UNCHANGED <<vars, ipcVars>>

\* Mutant: the loop is missing, the queue is not looked at again.
NoSecondLook == [at |-> "doze"]
AfterSleep == [at |-> "recv"]

\* proc_sleep(10), one tick at 100 Hz, and back to the head of the loop after it.
RecvSleep ==
    /\ At("doze")
    /\ recv_sleep
    /\ call' = [call EXCEPT ![me] = AfterSleep]
    /\ UNCHANGED ipcVars

-----------------------------------------------------------------------------
Send == \/ \E d \in 1 .. PROC_MAX : \/ \E long \in BOOLEAN : SendFails(d, long)
                                    \/ \E data \in Payload \cup {NoData} : SendFind(d, data)
        \/ SendFill \/ SendEnqueue
Recv == RecvStart \/ RecvTake \/ RecvEmpty \/ RecvSleep

\* Everything else a process does, when it is not inside ipc_send or ipc_recv.
OtherCall ==
    /\ At("none")
    /\ \/ other_syscall \/ proc_yield \/ proc_exit
       \/ \E ms \in SleepMs : proc_sleep(ms)
    /\ UNCHANGED <<ipcVars, call>>

\* Steps of the boot code and of the hardware; an exception can hit a process
\* anywhere, in the copy loops of ipc_send and ipc_recv too.
Background ==
    /\ \/ proc_create \/ proc_create_elf \/ CreateFails \/ StartScheduler
       \/ timer_interrupt \/ int80 \/ iretq \/ exception \/ Halted
    /\ UNCHANGED <<ipcVars, call>>

IpcNext == Send \/ Recv \/ OtherCall \/ Background

IpcSpec == IpcInit /\ [][IpcNext]_allVars

-----------------------------------------------------------------------------
(* The queues as sequences *)

\* The message n links after m in its list, or NULL past its end.
Follow(m, n) ==
    LET walk[i \in 0 .. n] == IF i = 0 THEN m
                              ELSE IF walk[i - 1] = NULL THEN NULL
                              ELSE msg_next[walk[i - 1]]
    IN  walk[n]

Queued(p) == {Follow(msg_queue[p], n) : n \in 0 .. (IPC_POOL_SIZE - 1)} \ {NULL}

Inbox(p) ==
    [i \in 1 .. Cardinality(Queued(p)) |->
        LET m == Follow(msg_queue[p], i - 1)
        IN  [from |-> msg_from[m], data |-> msg_data[m]]]

Envelopes == [from : 0 .. PROC_MAX, data : Payload \cup {NoData}]

Boxes == INSTANCE Mailbox
            WITH Owner <- Slot, Envelope <- Envelopes, Capacity <- IPC_POOL_SIZE,
                 box <- [p \in Slot |-> Inbox(p)]

\* The messages p has claimed and not queued yet.
InFlight(p) == IF call[p].at = "enqueue" THEN {call[p].m} ELSE {}

-----------------------------------------------------------------------------
(* Properties *)

\* Every variable holds a value the code can give it.
IpcTypeOK ==
    /\ TypeOK
    /\ msg_used \in [Msg -> BOOLEAN]
    /\ msg_next \in [Msg -> Msg \cup {NULL}]
    /\ msg_from \in [Msg -> 0 .. PROC_MAX]
    /\ msg_data \in [Msg -> Payload \cup {NoData}]
    /\ msg_queue \in [Slot -> Msg \cup {NULL}]
    /\ msg_tail \in [Slot -> Msg \cup {NULL}]
    /\ msg_count \in [Slot -> 0 .. IPC_POOL_SIZE]
    /\ call \in [Slot -> Calls]

\* Although msg_alloc tests and marks without protection, a message of the pool
\* has one owner at a time, a queue or a sender that fills it, and it is marked
\* used exactly while it has one: no two senders share it, none leaks.
PoolAccounting ==
    /\ \A m \in Msg : msg_used[m] <=> \E p \in Slot : m \in Queued(p) \cup InFlight(p)
    /\ \A p, q \in Slot : p # q =>
          (Queued(p) \cup InFlight(p)) \cap (Queued(q) \cup InFlight(q)) = {}
    /\ \A p \in Slot : Queued(p) \cap InFlight(p) = {}

\* The linked list of every process is well formed: the tail is the last message
\* reached from the head, the list ends there, and msg_count is its length.
QueueWellFormed ==
    \A p \in Slot :
        /\ msg_count[p] = Cardinality(Queued(p))
        /\ IF msg_queue[p] = NULL THEN msg_tail[p] = NULL
           ELSE /\ msg_tail[p] = Follow(msg_queue[p], msg_count[p] - 1)
                /\ msg_next[msg_tail[p]] = NULL

\* No wakeup is lost: a process asleep in ipc_recv has nothing to receive, even
\* though its test of the queue and its sleep are not one protected section.
NoLostWakeup ==
    \A p \in Slot : call[p].at = "recv" /\ proc_state[p] = "SLEEPING"
                        => msg_queue[p] = NULL

\* A message is queued with the contents its sender gave and the sender's own
\* pid: nothing else writes the message between the filling and the queueing.
QueuedAsSent ==
    [][\A p \in Slot : call[p].at = "enqueue" /\ call'[p].at = "none" =>
          LET m == call[p].m
          IN  /\ msg_from'[m] = pid[p]
              /\ call[p].data # NoData => msg_data'[m] = call[p].data]_allVars

\* The pool and the lists implement FIFO mailboxes of bounded total size.
ImplementsMailbox == Boxes!MailboxSpec

\* Handlers run to their end, the timer ticks, and processes cooperate: one that
\* runs makes system calls for ever, and sooner or later one of them sleeps, yields
\* or exits, unless it waits in ipc_recv, which sleeps by itself.
IpcHandlerStep ==
    /\ phase = "run" /\ me # IDLE
    /\ (At("none") /\ is_user[me] /\ OtherCall)
          \/ SendFill \/ SendEnqueue \/ RecvTake \/ RecvEmpty \/ RecvSleep
IpcGiveUp == At("none") /\ GiveUp /\ UNCHANGED <<ipcVars, call>>

IpcFairSpec ==
    /\ IpcSpec
    /\ WF_allVars(timer_interrupt /\ UNCHANGED <<ipcVars, call>>)
    /\ WF_allVars((int80 \/ iretq) /\ UNCHANGED <<ipcVars, call>>)
    /\ WF_allVars(IpcHandlerStep)
    /\ \A p \in Slot : SF_allVars(me = p /\ IpcGiveUp)

\* A process waiting in ipc_recv with a message queued for it comes back with it.
RecvReturns ==
    \A p \in Slot : call[p].at \in {"recv", "doze"} /\ msg_queue[p] # NULL
                        ~> call[p].at = "none" \/ phase = "panic"
=============================================================================
