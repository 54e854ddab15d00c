----------------------------- MODULE IpcProofs -----------------------------
(***************************************************************************)
(* Proofs about message passing, for every size of the table and the pool:  *)
(* the IPC layer uses the process manager only through its calls, so that   *)
(* everything proved of Proc holds of it, and because no process is ever    *)
(* preempted, its unprotected sections are safe: the pool loses and shares   *)
(* no message, the lists stay whole and implement the mailboxes.            *)
(***************************************************************************)
EXTENDS Ipc, ProcProofs, FiniteSetTheorems, FunctionTheorems, SequenceTheorems

\* The values the pointers of the pool and of the queues take.
LinkTypes ==
    /\ msg_next \in [Msg -> Msg \cup {NULL}]
    /\ msg_from \in [Msg -> Nat]
    /\ msg_data \in [Msg -> Payload \cup {NoData}]
    /\ msg_queue \in [Slot -> Msg \cup {NULL}]
    /\ msg_tail \in [Slot -> Msg \cup {NULL}]

\* A call that is past an unprotected test belongs to the process that runs: the
\* timer never takes the CPU from it there.
MidCallRuns ==
    /\ call[IDLE].at = "none"
    /\ \A p \in Slot : call[p].at \in {"claim", "enqueue", "doze"} => p = current_proc

\* What the process saw or wrote before the unprotected gap still holds after it.
StillTrue ==
    \A p \in Slot :
        /\ call[p].at = "doze" => msg_queue[p] = NULL
        /\ call[p].at = "enqueue" =>
              /\ msg_from[call[p].m] = pid[p]
              /\ call[p].data # NoData => msg_data[call[p].m] = call[p].data

IpcInv ==
    /\ ProcInv
    /\ call \in [Slot -> Calls]
    /\ LinkTypes
    /\ MidCallRuns
    /\ StillTrue
    /\ NoLostWakeup

-----------------------------------------------------------------------------
\* What a call under way carries.
LEMMA CallFields ==
    ASSUME NEW c \in Calls
    PROVE  /\ c.at \in {"none", "recv", "doze", "claim", "enqueue"}
           /\ c.at \in {"claim", "enqueue"} =>
                 /\ c \in [at : {"claim", "enqueue"}, m : Msg, target : Slot,
                           data : Payload \cup {NoData}]
                 /\ c.m \in Msg /\ c.target \in Slot /\ c.data \in Payload \cup {NoData}
  BY DEF Calls, Idle

\* The process that steps inside ipc_send or ipc_recv is the current one.
LEMMA AtFacts ==
    ASSUME IpcInv, NEW where, At(where)
    PROVE  /\ phase = "run" /\ me \in Slot \ {IDLE} /\ call[me].at = where
           /\ call[me] \in Calls
           /\ where \notin {"claim", "enqueue", "doze"} =>
                 \A p \in Slot : call[p].at \notin {"claim", "enqueue", "doze"}
  BY DEF At, me, IpcInv, ProcInv, RunInv, MidCallRuns

\* msg_alloc and proc_find return what is there.
LEMMA FindFacts ==
    /\ \A d : proc_find(d) # NULL => proc_find(d) \in Slot
    /\ Free # {} => Min(Free) \in Msg
<1>1. \A d : Named(d) \in SUBSET Nat
  BY ProcMaxAssumption DEF Named, Slot
<1>2. Free \in SUBSET Nat
  BY PoolAssumption DEF Free, Msg
<1>3. \A d : Named(d) # {} => Min(Named(d)) \in Named(d)
  BY <1>1, MinIsLeast
<1>4. Free # {} => Min(Free) \in Free
  BY <1>2, MinIsLeast
<1> QED BY <1>3, <1>4 DEF proc_find, Named, Free

\* Every step of the IPC layer is a step of the process manager, or none.
LEMMA StepIsProcStep == ASSUME IpcInv, [IpcNext]_allVars PROVE [Next]_vars
<1>1. CASE UNCHANGED allVars
  BY <1>1 DEF allVars
<1>2. CASE Send
  <2>1. CASE \E d \in 1 .. PROC_MAX : \E long \in BOOLEAN : SendFails(d, long)
    BY <2>1 DEF SendFails, Next
  <2>2. CASE \E d \in 1 .. PROC_MAX : \E data \in Payload \cup {NoData} : SendFind(d, data)
    BY <2>2 DEF SendFind
  <2>3. CASE SendFill
    BY <2>3 DEF SendFill
  <2>4. CASE SendEnqueue
    <3>1. proc_wakeup(call[me].target) /\ At("enqueue")
      BY <2>4 DEF SendEnqueue
    <3>2. call[me].target \in Slot
      BY <3>1, AtFacts, CallFields
    <3> QED BY <3>1, <3>2 DEF Next
  <2> QED BY <1>2, <2>1, <2>2, <2>3, <2>4 DEF Send
<1>3. CASE Recv
  BY <1>3 DEF Recv, RecvStart, RecvTake, RecvEmpty, RecvSleep, Next, SleepCalls
<1>4. CASE OtherCall
  BY <1>4 DEF OtherCall, Next, SleepCalls
<1>5. CASE Background
  BY <1>5 DEF Background, Next
<1> QED BY <1>1, <1>2, <1>3, <1>4, <1>5 DEF IpcNext

\* pids are only given out while kernel_main boots, when no call is under way.
LEMMA PidsKept ==
    ASSUME ProcInv, [Next]_vars, phase # "boot"
    PROVE  pid' = pid
  BY DEF Next, proc_create, proc_create_elf, CreateFails, StartScheduler, Panic,
         timer_interrupt, int80, iretq, other_syscall, proc_yield, SleepCalls,
         recv_sleep, proc_sleep, SleepFor, proc_exit, proc_wakeup, exception, Halted,
         vars, tableVars

-----------------------------------------------------------------------------
(* One lemma per step of the IPC layer *)

\* No process is between an unprotected test and its use.
NoMidCall ==
    /\ \A p \in Slot : call[p].at \notin {"claim", "enqueue", "doze"}
    /\ current_proc \in Slot => call[current_proc].at = "none"

\* A step outside the IPC layer disturbs no call: either the process that runs
\* stays where it is, or no call is past an unprotected test.
LEMMA OutsideKeeps ==
    ASSUME IpcInv, ProcInv', OnlySelfSleeps, UNCHANGED <<ipcVars, call>>,
           \/ NoMidCall
           \/ current_proc' = current_proc /\ proc_state' = proc_state /\ pid' = pid
    PROVE  IpcInv'
<1>1. /\ call' = call /\ msg_next' = msg_next /\ msg_from' = msg_from
      /\ msg_data' = msg_data /\ msg_queue' = msg_queue /\ msg_tail' = msg_tail
  BY DEF ipcVars, poolVars, queueVars
<1>2. call' \in [Slot -> Calls] /\ LinkTypes'
  BY <1>1 DEF IpcInv, LinkTypes
<1>3. MidCallRuns' /\ StillTrue'
  BY <1>1 DEF IpcInv, MidCallRuns, StillTrue, NoMidCall
<1>4. NoLostWakeup'
  BY <1>1 DEF IpcInv, NoLostWakeup, OnlySelfSleeps, NoMidCall
<1> QED BY <1>2, <1>3, <1>4 DEF IpcInv

\* What the rest of a process's code and the hardware do.
LEMMA BackgroundKeeps ==
    ASSUME IpcInv, ProcInv', OnlySelfSleeps, OtherCall \/ Background
    PROVE  IpcInv'
<1>1. UNCHANGED <<ipcVars, call>>
  BY DEF OtherCall, Background
<1>2. current_proc \in Slot \/ phase # "run"
  BY DEF IpcInv, ProcInv, RunInv
<1>3. CASE OtherCall
  <2>1. NoMidCall
    BY <1>3, AtFacts DEF OtherCall, NoMidCall, At, me
  <2> QED BY <1>1, <2>1, OutsideKeeps
<1>4. CASE proc_create \/ proc_create_elf \/ CreateFails \/ StartScheduler
  <2>1. current_proc = NULL
    BY <1>4 DEF proc_create, proc_create_elf, CreateFails, StartScheduler, IpcInv,
                ProcInv, BootInv
  <2>2. NoMidCall
    BY <2>1, IdleIsSlot DEF NoMidCall, IpcInv, MidCallRuns
  <2> QED BY <1>1, <2>2, OutsideKeeps
<1>5. CASE timer_interrupt
  <2>1. current_proc = IDLE
    BY <1>5 DEF timer_interrupt, IpcInv, ProcInv, TimerOnlyInIdle
  <2>2. NoMidCall
    BY <2>1 DEF NoMidCall, IpcInv, MidCallRuns
  <2> QED BY <1>1, <2>2, OutsideKeeps
<1>6. CASE int80 \/ iretq \/ exception \/ Halted
  <2>1. current_proc' = current_proc /\ proc_state' = proc_state /\ pid' = pid
    BY <1>6 DEF int80, iretq, exception, Panic, Halted, vars, cpuVars, tableVars
  <2> QED BY <1>1, <2>1, OutsideKeeps
<1> QED BY <1>3, <1>4, <1>5, <1>6 DEF Background

\* A step by which the process that runs changes only its own call.
LEMMA OwnCallKeeps ==
    ASSUME IpcInv, ProcInv', me \in Slot \ {IDLE},
           NEW c \in Calls, call' = [call EXCEPT ![me] = c], LinkTypes',
           current_proc' = current_proc, pid' = pid, proc_state' = proc_state,
           \A p \in Slot \ {me} : msg_queue'[p] = msg_queue[p],
           c.at = "doze" => msg_queue'[me] = NULL,
           c.at = "enqueue" => /\ msg_from'[c.m] = pid[me]
                               /\ c.data # NoData => msg_data'[c.m] = c.data
    PROVE  IpcInv'
<1>1. call' \in [Slot -> Calls] /\ call'[me] = c /\ call'[IDLE] = call[IDLE]
      /\ \A p \in Slot \ {me} : call'[p] = call[p]
  BY IdleIsSlot DEF IpcInv
<1>2. MidCallRuns'
  BY <1>1 DEF IpcInv, MidCallRuns, me
<1>3. \A p \in Slot \ {me} : call[p].at \notin {"claim", "enqueue", "doze"}
  BY DEF IpcInv, MidCallRuns, me
<1>4. StillTrue'
  BY <1>1, <1>3 DEF StillTrue
<1>5. proc_state[me] = "RUNNING"
  BY DEF me, IpcInv, ProcInv, CurrentRunning
<1>6. NoLostWakeup'
  BY <1>1, <1>5 DEF IpcInv, NoLostWakeup
<1> QED BY <1>1, <1>2, <1>4, <1>6 DEF IpcInv

\* msg_alloc and the filling of the message.
LEMMA SendKeeps ==
    ASSUME IpcInv, ProcInv',
           \/ \E d \in 1 .. PROC_MAX : \E data \in Payload \cup {NoData} : SendFind(d, data)
           \/ SendFill
    PROVE  IpcInv'
<1>1. CASE \E d \in 1 .. PROC_MAX : \E data \in Payload \cup {NoData} : SendFind(d, data)
  <2>1. PICK d \in 1 .. PROC_MAX, data \in Payload \cup {NoData} : SendFind(d, data)
    BY <1>1
  <2> DEFINE c == [at |-> "claim", m |-> Min(Free), target |-> proc_find(d), data |-> data]
  <2>2. Min(Free) \in Msg /\ proc_find(d) \in Slot
    BY <2>1, FindFacts DEF SendFind
  <2>3. c \in Calls /\ c.at = "claim"
    BY <2>2 DEF Calls
  <2>4. /\ call' = [call EXCEPT ![me] = c] /\ UNCHANGED <<vars, ipcVars>>
        /\ me \in Slot \ {IDLE}
    BY <2>1, AtFacts DEF SendFind
  <2> HIDE DEF c
  <2>5. LinkTypes' /\ msg_queue' = msg_queue
    BY <2>4 DEF IpcInv, LinkTypes, ipcVars, poolVars, queueVars
  <2>6. current_proc' = current_proc /\ pid' = pid /\ proc_state' = proc_state
    BY <2>4 DEF vars, cpuVars, tableVars
  <2> QED BY <2>3, <2>4, <2>5, <2>6, OwnCallKeeps
<1>2. CASE SendFill
  <2> DEFINE m == call[me].m
             c == [call[me] EXCEPT !.at = "enqueue"]
  <2>1. /\ me \in Slot \ {IDLE} /\ call[me].at = "claim"
        /\ m \in Msg /\ call[me].target \in Slot /\ call[me].data \in Payload \cup {NoData}
        /\ call[me] \in [at : {"claim", "enqueue"}, m : Msg, target : Slot,
                         data : Payload \cup {NoData}]
    BY <1>2, AtFacts, CallFields DEF SendFill
  <2>2. c \in Calls /\ c.at = "enqueue" /\ c.m = m /\ c.data = call[me].data
    BY <2>1 DEF Calls
  <2>3. /\ call' = [call EXCEPT ![me] = c] /\ UNCHANGED <<vars, queueVars>>
        /\ msg_next' = [msg_next EXCEPT ![m] = NULL]
        /\ msg_from' = [msg_from EXCEPT ![m] = pid[me]]
        /\ msg_data' = [msg_data EXCEPT ![m] =
                           IF call[me].data = NoData THEN @ ELSE call[me].data]
    BY <1>2 DEF SendFill
  <2> HIDE DEF c, m
  <2>4. current_proc' = current_proc /\ pid' = pid /\ proc_state' = proc_state
        /\ msg_queue' = msg_queue /\ msg_tail' = msg_tail
    BY <2>3 DEF vars, cpuVars, tableVars, queueVars
  <2>5. pid[me] \in Nat
    BY <2>1 DEF IpcInv, ProcInv, TypeOK
  <2>6. /\ LinkTypes' /\ msg_from'[m] = pid[me]
        /\ call[me].data # NoData => msg_data'[m] = call[me].data
    BY <2>1, <2>3, <2>4, <2>5 DEF IpcInv, LinkTypes
  <2> QED BY <2>1, <2>2, <2>3, <2>4, <2>6, OwnCallKeeps
<1> QED BY <1>1, <1>2

\* The section under cli of ipc_send: the target gets the message and is awake.
LEMMA EnqueueKeeps == ASSUME IpcInv, ProcInv', SendEnqueue PROVE IpcInv'
<1> DEFINE m == call[me].m
           t == call[me].target
<1>1. me \in Slot \ {IDLE} /\ call[me].at = "enqueue" /\ m \in Msg /\ t \in Slot
  BY AtFacts, CallFields DEF SendEnqueue
<1>2. /\ msg_next' = Linked(m, msg_tail[t])
      /\ msg_queue' = [msg_queue EXCEPT ![t] = HeadAfter(m, t)]
      /\ msg_tail' = [msg_tail EXCEPT ![t] = m]
      /\ proc_wakeup(t)
      /\ call' = [call EXCEPT ![me] = Idle]
      /\ msg_from' = msg_from /\ msg_data' = msg_data
  BY DEF SendEnqueue
<1> HIDE DEF m, t
<1>3. LinkTypes'
  <2>1. msg_next' \in [Msg -> Msg \cup {NULL}]
    BY <1>1, <1>2 DEF Linked, IpcInv, LinkTypes
  <2> QED BY <1>1, <1>2, <2>1 DEF HeadAfter, IpcInv, LinkTypes
<1>4. /\ call' \in [Slot -> Calls] /\ call'[me].at = "none" /\ call'[IDLE] = call[IDLE]
      /\ \A p \in Slot \ {me} : call'[p] = call[p]
  BY <1>1, <1>2, IdleIsSlot DEF IpcInv, Calls, Idle
<1>5. \A p \in Slot : call'[p].at \notin {"claim", "enqueue", "doze"}
  BY <1>4 DEF IpcInv, MidCallRuns, me
<1>6. MidCallRuns' /\ StillTrue'
  BY <1>4, <1>5 DEF IpcInv, MidCallRuns, StillTrue
<1>7. /\ \A p \in Slot \ {t} : proc_state'[p] = proc_state[p] /\ msg_queue'[p] = msg_queue[p]
      /\ proc_state'[t] # "SLEEPING"
  BY <1>1, <1>2 DEF proc_wakeup, Woken, IpcInv, ProcInv, TypeOK, LinkTypes
<1>8. NoLostWakeup'
  BY <1>4, <1>7 DEF IpcInv, NoLostWakeup
<1> QED BY <1>3, <1>4, <1>6, <1>8 DEF IpcInv

\* ipc_recv: the look at the queue, and the sleep after an empty one.
LEMMA RecvKeeps == ASSUME IpcInv, ProcInv', OnlySelfSleeps, Recv PROVE IpcInv'
<1>1. me \in Slot \ {IDLE} /\ Idle \in Calls /\ Idle.at = "none"
      /\ [at |-> "recv"] \in Calls /\ [at |-> "doze"] \in Calls
  BY AtFacts DEF Recv, RecvStart, RecvTake, RecvEmpty, RecvSleep, Calls, Idle
<1>2. CASE RecvStart \/ RecvEmpty
  <2>1. /\ UNCHANGED <<vars, ipcVars>>
        /\ \/ call' = [call EXCEPT ![me] = [at |-> "recv"]]
           \/ call' = [call EXCEPT ![me] = [at |-> "doze"]] /\ msg_queue[me] = NULL
    BY <1>2 DEF RecvStart, RecvEmpty
  <2>2. LinkTypes' /\ msg_queue' = msg_queue
    BY <2>1 DEF IpcInv, LinkTypes, ipcVars, poolVars, queueVars
  <2>3. current_proc' = current_proc /\ pid' = pid /\ proc_state' = proc_state
    BY <2>1 DEF vars, cpuVars, tableVars
  <2> QED BY <1>1, <2>1, <2>2, <2>3, OwnCallKeeps
<1>3. CASE RecvTake
  <2>1. /\ msg_queue[me] \in Msg
        /\ msg_queue' = [msg_queue EXCEPT ![me] = msg_next[msg_queue[me]]]
        /\ msg_tail' = [msg_tail EXCEPT ![me] = TailAfter(msg_queue[me])]
        /\ call' = [call EXCEPT ![me] = Idle]
        /\ other_syscall
        /\ msg_next' = msg_next /\ msg_from' = msg_from /\ msg_data' = msg_data
    BY <1>1, <1>3 DEF RecvTake, IpcInv, LinkTypes
  <2>2. LinkTypes'
    BY <1>1, <2>1 DEF IpcInv, LinkTypes, TailAfter
  <2>3. /\ current_proc' = current_proc /\ pid' = pid /\ proc_state' = proc_state
        /\ \A p \in Slot \ {me} : msg_queue'[p] = msg_queue[p]
    BY <1>1, <2>1 DEF other_syscall, cpuVars, tableVars, IpcInv, LinkTypes
  <2> QED BY <1>1, <2>1, <2>2, <2>3, OwnCallKeeps
<1>4. CASE RecvSleep
  <2>1. /\ call[me].at = "doze" /\ msg_queue[me] = NULL
        /\ call' = [call EXCEPT ![me] = [at |-> "recv"]]
        /\ UNCHANGED ipcVars
    BY <1>1, <1>4, AtFacts DEF RecvSleep, AfterSleep, IpcInv, StillTrue
  <2>2. LinkTypes' /\ msg_queue' = msg_queue
    BY <2>1 DEF IpcInv, LinkTypes, ipcVars, poolVars, queueVars
  <2>3. /\ call' \in [Slot -> Calls] /\ call'[me].at = "recv" /\ call'[IDLE] = call[IDLE]
        /\ \A p \in Slot \ {me} : call'[p] = call[p]
    BY <1>1, <2>1, IdleIsSlot DEF IpcInv
  <2>4. \A p \in Slot : call'[p].at \notin {"claim", "enqueue", "doze"}
    BY <2>3 DEF IpcInv, MidCallRuns, me
  <2>5. MidCallRuns' /\ StillTrue'
    BY <2>3, <2>4 DEF IpcInv, MidCallRuns, StillTrue
  <2>6. NoLostWakeup'
    BY <2>1, <2>2, <2>3 DEF IpcInv, NoLostWakeup, OnlySelfSleeps, me
  <2> QED BY <2>2, <2>3, <2>5, <2>6 DEF IpcInv
<1> QED BY <1>2, <1>3, <1>4 DEF Recv

\* Every step of the composed system keeps the invariant.
LEMMA IpcNextKeeps == ASSUME IpcInv, [IpcNext]_allVars PROVE IpcInv'
<1>1. [Next]_vars
  BY StepIsProcStep
<1>2. ProcInv'
  BY <1>1, NextKeeps DEF IpcInv
<1>3. OnlySelfSleeps
  BY <1>1, StepShape DEF IpcInv
<1>4. CASE Send
  <2>1. CASE \E d \in 1 .. PROC_MAX : \E long \in BOOLEAN : SendFails(d, long)
    <3>1. OtherCall
      BY <2>1 DEF SendFails, OtherCall
    <3> QED BY <1>2, <1>3, <3>1, BackgroundKeeps
  <2> QED BY <1>2, <1>4, <2>1, SendKeeps, EnqueueKeeps DEF Send
<1>5. CASE Recv
  BY <1>2, <1>3, <1>5, RecvKeeps
<1>6. CASE OtherCall \/ Background
  BY <1>2, <1>3, <1>6, BackgroundKeeps
<1>7. CASE UNCHANGED allVars
  <2>1. /\ UNCHANGED <<ipcVars, call>>
        /\ current_proc' = current_proc /\ proc_state' = proc_state /\ pid' = pid
    BY <1>7 DEF allVars, vars, cpuVars, tableVars
  <2> QED BY <1>2, <1>3, <2>1, OutsideKeeps
<1> QED BY <1>4, <1>5, <1>6, <1>7 DEF IpcNext

-----------------------------------------------------------------------------
(* Theorems *)

\* The invariant of the IPC layer, the process manager's included.
THEOREM IpcInvariant == IpcSpec => []IpcInv
<1>1. IpcInit => IpcInv
  <2> SUFFICES ASSUME IpcInit PROVE IpcInv
    OBVIOUS
  <2>1. ProcInv
    BY InitEstablishes DEF IpcInit
  <2>2. call \in [Slot -> Calls] /\ \A p \in Slot : call[p].at = "none"
    BY DEF IpcInit, Calls, Idle
  <2>3. LinkTypes
    BY DEF IpcInit, LinkTypes
  <2> QED BY <2>1, <2>2, <2>3, IdleIsSlot
          DEF IpcInv, MidCallRuns, StillTrue, NoLostWakeup
<1>2. IpcInv /\ [IpcNext]_allVars => IpcInv'
  BY IpcNextKeeps
<1> QED BY <1>1, <1>2, PTL DEF IpcSpec

\* The IPC layer implements the process manager: every behaviour of it is one of
\* Proc, so what is proved of Spec holds of the composed system as well.
THEOREM IpcImplementsProc == IpcSpec => Spec
<1>1. IpcInit => Init
  BY DEF IpcInit
<1>2. IpcInv /\ [IpcNext]_allVars => [Next]_vars
  BY StepIsProcStep
<1> QED BY <1>1, <1>2, IpcInvariant, PTL DEF IpcSpec, Spec

\* The gap between the empty queue and proc_sleep in ipc_recv loses no wakeup.
THEOREM WakeupsArrive == IpcSpec => []NoLostWakeup
<1>1. IpcInv => NoLostWakeup
  BY DEF IpcInv
<1> QED BY <1>1, IpcInvariant, PTL

\* ipc_send queues what its caller gave, although nothing protects the message
\* between msg_alloc and the section under cli.
THEOREM SentUnchanged == IpcSpec => QueuedAsSent
<1> DEFINE A == \A p \in Slot : call[p].at = "enqueue" /\ call'[p].at = "none" =>
                   LET m == call[p].m
                   IN  /\ msg_from'[m] = pid[p]
                       /\ call[p].data # NoData => msg_data'[m] = call[p].data
<1>1. ASSUME IpcInv, [IpcNext]_allVars PROVE [A]_allVars
  <2> SUFFICES ASSUME NEW p \in Slot, call[p].at = "enqueue", call'[p].at = "none"
               PROVE  /\ msg_from'[call[p].m] = pid[p]
                      /\ call[p].data # NoData => msg_data'[call[p].m] = call[p].data
    OBVIOUS
  <2>1. /\ p = me /\ msg_from[call[p].m] = pid[p]
        /\ call[p].data # NoData => msg_data[call[p].m] = call[p].data
    BY <1>1 DEF IpcInv, MidCallRuns, StillTrue, me
  <2>2. call' # call
    OBVIOUS
  <2>3. At("none") \/ At("claim") \/ At("recv") \/ At("doze") => FALSE
    BY <2>1 DEF At
  <2>4. CASE SendEnqueue
    <3>1. msg_from' = msg_from /\ msg_data' = msg_data
      BY <2>4 DEF SendEnqueue
    <3> QED BY <2>1, <3>1
  <2>5. ~Background /\ ~UNCHANGED allVars
    BY <2>2 DEF Background, allVars
  <2>6. ~OtherCall /\ ~Recv
    BY <2>3 DEF OtherCall, Recv, RecvStart, RecvTake, RecvEmpty, RecvSleep
  <2>7. Send => SendEnqueue
    BY <2>3 DEF Send, SendFails, SendFind, SendFill
  <2> QED BY <1>1, <2>4, <2>5, <2>6, <2>7 DEF IpcNext
<1> QED BY <1>1, IpcInvariant, PTL DEF IpcSpec, QueuedAsSent

-----------------------------------------------------------------------------
(* The pool and the linked lists.  The invariant names, for every process,   *)
(* the list of messages its queue is: ipc_send appends to one of these       *)
(* lists, ipc_recv drops the head of one, and no other step changes them.    *)

\* The slots of the table are taken in order and pid p + 1 goes to slot p: pids are
\* bounded by the table, and no two processes share one.
PidInv ==
    /\ next_pid >= 1
    /\ \A p \in Slot : pid[p] \in {0, p + 1}
    /\ phase = "boot" =>
          \A p \in Slot : proc_state[p] = "UNUSED" <=> p + 1 >= next_pid

\* Every step of the process manager keeps the pids so.
LEMMA PidStep == ASSUME ProcInv, PidInv, [Next]_vars PROVE PidInv'
<1> USE DEF PidInv
<1>1. TypeOK
  BY DEF ProcInv
<1>2. CASE proc_create \/ proc_create_elf
  <2> DEFINE n == alloc_proc
  <2>1. Unused \in SUBSET Nat /\ Unused # {} /\ phase = "boot"
    BY <1>2, ProcMaxAssumption DEF Unused, Slot, proc_create, proc_create_elf
  <2>2. n \in Unused /\ \A p \in Unused : n <= p
    BY <2>1, MinIsLeast DEF alloc_proc
  <2>3. NewProcess(n)
    BY <1>2 DEF proc_create, proc_create_elf
  <2> HIDE DEF n
  <2>4. n \in Slot /\ proc_state[n] = "UNUSED"
    BY <2>2 DEF Unused
  <2>5. n + 1 = next_pid
    <3>1. n + 1 >= next_pid
      BY <2>1, <2>4
    <3>2. ASSUME n + 1 > next_pid PROVE FALSE
      <4>1. n - 1 \in Slot
        BY <3>2, <2>4, <1>1, ProcMaxAssumption DEF Slot, TypeOK
      <4>2. proc_state[n - 1] = "UNUSED"
        BY <3>2, <2>1, <4>1, <2>4, <1>1 DEF Slot, TypeOK
      <4>3. n - 1 \in Unused
        BY <4>1, <4>2 DEF Unused
      <4> QED BY <2>2, <4>3, <2>4 DEF Slot
    <3> QED BY <3>1, <3>2, <2>4, <1>1 DEF Slot, TypeOK
  <2>6. /\ pid' = [pid EXCEPT ![n] = n + 1]
        /\ next_pid' = next_pid + 1
        /\ proc_state' = [proc_state EXCEPT ![n] = "READY"]
    BY <2>3, <2>5 DEF NewProcess
  <2>7. \A p \in Slot : pid'[p] \in {0, p + 1}
    BY <2>6, <2>4, <1>1 DEF TypeOK
  <2>8. ASSUME NEW p \in Slot PROVE proc_state'[p] = "UNUSED" <=> p + 1 >= next_pid'
    BY <2>6, <2>4, <2>5, <2>1, <1>1, ProcMaxAssumption DEF Slot, TypeOK
  <2> QED BY <1>1, <2>6, <2>7, <2>8 DEF TypeOK
<1>3. CASE CreateFails \/ StartScheduler \/ exception
  BY <1>3 DEF CreateFails, StartScheduler, exception, Panic, tableVars
<1>4. CASE UNCHANGED vars
  BY <1>4 DEF vars, tableVars, cpuVars
<1>5. CASE ~(proc_create \/ proc_create_elf \/ CreateFails \/ StartScheduler \/ exception)
           /\ ~UNCHANGED vars
  <2>1. phase # "boot" /\ phase' = phase
    BY <1>5 DEF Next, timer_interrupt, int80, iretq, other_syscall, proc_yield, SleepCalls,
         recv_sleep, proc_sleep, SleepFor, proc_exit, proc_wakeup, Halted,
         vars, InKernel
  <2>2. next_pid' = next_pid
    BY <1>5 DEF Next, timer_interrupt, int80, iretq, other_syscall, proc_yield, SleepCalls,
         recv_sleep, proc_sleep, SleepFor, proc_exit, proc_wakeup, tableVars, vars, Halted
  <2> QED BY <2>1, <2>2, PidsKept
<1> QED BY <1>2, <1>3, <1>4, <1>5

\* A message is in one of the lists q.
InList(q, m) == \E p \in Slot : \E i \in 1 .. Len(q[p]) : q[p][i] = m

\* s lists the messages from head on: each links to the next, the last to none.
Chain(head, s) ==
    /\ head = IF Len(s) = 0 THEN NULL ELSE s[1]
    /\ \A i \in 1 .. Len(s) : msg_next[s[i]] = IF i = Len(s) THEN NULL ELSE s[i + 1]

\* q[p] is the list of p: the queue starts, ends and counts it.
Linking(q) ==
    \A p \in Slot :
        /\ Chain(msg_queue[p], q[p])
        /\ msg_tail[p] = IF Len(q[p]) = 0 THEN NULL ELSE q[p][Len(q[p])]
        /\ msg_count[p] = Len(q[p])

\* A message is in one list, and in one place of it.
Once(q) ==
    \A p1, p2 \in Slot : \A i \in 1 .. Len(q[p1]), j \in 1 .. Len(q[p2]) :
        q[p1][i] = q[p2][j] => p1 = p2 /\ i = j

\* msg_used marks what is in a list or being filled, and nothing is both; what
\* msg_alloc has found is not marked before it does so itself.
Marks(q) ==
    /\ \A m \in Msg : msg_used[m] <=> InList(q, m) \/ \E p \in Slot : m \in InFlight(p)
    /\ \A p \in Slot : \A m \in InFlight(p) : ~InList(q, m)
    /\ \A p \in Slot : call[p].at = "claim" => ~msg_used[call[p].m]

Lists(q) == Linking(q) /\ Once(q) /\ Marks(q)

\* There are such lists: the inductive invariant of the pool and the queues.
QueueInv ==
    /\ PidInv
    /\ msg_used \in [Msg -> BOOLEAN]
    /\ msg_from \in [Msg -> 0 .. PROC_MAX]
    /\ msg_count \in [Slot -> Nat]
    /\ \E q \in [Slot -> Seq(Msg)] : Lists(q)

\* The walk along the links meets the messages of the list, one after the other, and
\* NULL from its end on.
LEMMA FollowIs ==
    ASSUME NEW s \in Seq(Msg), NEW head, Chain(head, s), NEW n \in Nat
    PROVE  Follow(head, n) = IF n < Len(s) THEN s[n + 1] ELSE NULL
<1> DEFINE Body(f) == [i \in 0 .. n |-> IF i = 0 THEN head
                                   ELSE IF f[i - 1] = NULL THEN NULL
                                   ELSE msg_next[f[i - 1]]]
           f0 == [i \in 0 .. n |-> IF i < Len(s) THEN s[i + 1] ELSE NULL]
           w == CHOOSE f : f = Body(f)
<1>0. Len(s) \in Nat /\ \A i \in 1 .. Len(s) : s[i] \in Msg /\ s[i] # NULL
  BY PoolAssumption DEF Msg, NULL
<1>1. f0 = Body(f0)
  <2>1. ASSUME NEW i \in 0 .. n PROVE f0[i] = Body(f0)[i]
    <3>1. CASE i = 0
      BY <3>1, <1>0 DEF Chain
    <3>2. CASE i # 0
      <4>1. i - 1 \in 0 .. n /\ i \in 1 .. n
        BY <3>2
      <4>2. f0[i - 1] = IF i <= Len(s) THEN s[i] ELSE NULL
        BY <4>1, <1>0
      <4>3. f0[i] = IF i < Len(s) THEN s[i + 1] ELSE NULL
        BY <1>0
      <4>4. Body(f0)[i] = IF f0[i - 1] = NULL THEN NULL ELSE msg_next[f0[i - 1]]
        BY <3>2
      <4> HIDE DEF f0, Body
      <4>5. CASE i <= Len(s)
        BY <4>1, <4>2, <4>3, <4>4, <4>5, <1>0 DEF Chain
      <4>6. CASE ~(i <= Len(s))
        BY <4>1, <4>2, <4>3, <4>4, <4>6, <1>0
      <4> QED BY <4>5, <4>6
    <3> QED BY <3>1, <3>2
  <2> QED BY <2>1
<1>2. w = Body(w)
  <2> HIDE DEF Body, f0
  <2> QED BY <1>1
<1>3. Follow(head, n) = w[n]
  BY DEF Follow
<1>4. w = [i \in 0 .. n |-> IF i = 0 THEN head
                                   ELSE IF w[i - 1] = NULL THEN NULL
                                   ELSE msg_next[w[i - 1]]]
  <2> HIDE DEF w
  <2> QED BY <1>2
<1> HIDE DEF w
<1> DEFINE S == {i \in 0 .. n : w[i] = f0[i]}
<1>5. \A i \in 0 .. n : i \in S
  <2>1. 0 \in S
    BY <1>4, <1>0 DEF Chain
  <2>2. ASSUME NEW i \in 0 .. (n - 1), i \in S PROVE i + 1 \in S
    <3>1. i + 1 \in 0 .. n /\ i + 1 # 0 /\ (i + 1) - 1 = i
      OBVIOUS
    <3>2. w[i] = f0[i] /\ f0[i] = IF i < Len(s) THEN s[i + 1] ELSE NULL
      BY <2>2
    <3>3. w[i + 1] = IF w[i] = NULL THEN NULL ELSE msg_next[w[i]]
      BY <1>4, <3>1
    <3>4. f0[i + 1] = IF f0[i] = NULL THEN NULL ELSE msg_next[f0[i]]
      <4>1. f0[i + 1] = Body(f0)[i + 1]
        BY <1>1, <3>1
      <4> QED BY <3>1, <4>1
    <3> HIDE DEF f0
    <3> QED BY <3>1, <3>2, <3>3, <3>4
  <2> HIDE DEF S
  <2> QED BY <2>1, <2>2, EntryInduction
<1>6. w[n] = f0[n]
  BY <1>5
<1> QED BY <1>3, <1>6

\* The elements of a list without repetitions, and how many they are.
LEMMA ListIsSet ==
    ASSUME NEW s \in Seq(Msg), \A i, j \in 1 .. Len(s) : s[i] = s[j] => i = j
    PROVE  /\ IsFiniteSet({s[i] : i \in 1 .. Len(s)})
           /\ Cardinality({s[i] : i \in 1 .. Len(s)}) = Len(s)
           /\ Len(s) \in 0 .. IPC_POOL_SIZE
<1> DEFINE T == {s[i] : i \in 1 .. Len(s)}
           f == [i \in 1 .. Len(s) |-> s[i]]
<1>1. f \in Bijection(1 .. Len(s), T)
  <2>1. f \in [1 .. Len(s) -> T]
    OBVIOUS
  <2>2. \A i, j \in 1 .. Len(s) : f[i] = f[j] => i = j
    OBVIOUS
  <2>3. \A t \in T : \E i \in 1 .. Len(s) : f[i] = t
    OBVIOUS
  <2> HIDE DEF f, T
  <2> QED BY <2>1, <2>2, <2>3 DEF Bijection, Injection, Surjection, IsInjective
<1>2. IsFiniteSet(1 .. Len(s)) /\ Cardinality(1 .. Len(s)) = Len(s)
  <2> DEFINE n == Len(s)
  <2>1. n \in Nat
    OBVIOUS
  <2> HIDE DEF n
  <2>2. IsFiniteSet(1 .. n) /\ Cardinality(1 .. n) = IF 1 > n THEN 0 ELSE n - 1 + 1
    BY <2>1, FS_Interval
  <2>3. IsFiniteSet(1 .. n) /\ Cardinality(1 .. n) = n
    BY <2>1, <2>2
  <2> QED BY <2>3 DEF n
<1>3. IsFiniteSet(T) /\ Cardinality(T) = Len(s)
  <2> HIDE DEF T
  <2>1. ExistsBijection(1 .. Len(s), T)
    BY <1>1 DEF ExistsBijection
  <2> QED BY <2>1, <1>2, FS_Bijection
<1>4. IsFiniteSet(Msg) /\ Cardinality(Msg) = IPC_POOL_SIZE
  BY FS_Interval, PoolAssumption DEF Msg
<1>5. T \in SUBSET Msg
  OBVIOUS
<1>6. Cardinality(T) <= Cardinality(Msg)
  <2> HIDE DEF T
  <2>1. \A U \in SUBSET Msg : Cardinality(U) <= Cardinality(Msg)
    BY <1>4, FS_Subset
  <2> QED BY <1>5, <2>1
<1> HIDE DEF T
<1>7. Len(s) \in Nat /\ Len(s) <= IPC_POOL_SIZE
  BY <1>3, <1>4, <1>6
<1>8. Len(s) \in 0 .. IPC_POOL_SIZE
  BY <1>7, PoolAssumption
<1> QED BY <1>3, <1>8 DEF T

\* The walk from the head of a queue meets its messages, and nothing else.
LEMMA QueuedIs ==
    ASSUME NEW q \in [Slot -> Seq(Msg)], Linking(q), Once(q), NEW p \in Slot
    PROVE  /\ Queued(p) = {q[p][i] : i \in 1 .. Len(q[p])}
           /\ Cardinality(Queued(p)) = Len(q[p])
           /\ Len(q[p]) \in 0 .. IPC_POOL_SIZE
           /\ \A n \in Nat : Follow(msg_queue[p], n) = IF n < Len(q[p]) THEN q[p][n + 1]
                                                                       ELSE NULL
<1> DEFINE s == q[p]
<1>1. s \in Seq(Msg) /\ Chain(msg_queue[p], s)
      /\ \A i, j \in 1 .. Len(s) : s[i] = s[j] => i = j
  BY DEF Linking, Once
<1> HIDE DEF s
<1>2. \A n \in Nat : Follow(msg_queue[p], n) = IF n < Len(s) THEN s[n + 1] ELSE NULL
  BY <1>1, FollowIs
<1>3. Cardinality({s[i] : i \in 1 .. Len(s)}) = Len(s)
  BY <1>1, ListIsSet
<1>5. Len(s) \in Nat /\ Len(s) \in 0 .. IPC_POOL_SIZE
  <2>1. Len(s) \in Nat
    BY <1>1
  <2>2. Len(s) \in 0 .. IPC_POOL_SIZE
    BY <1>1, ListIsSet, Zenon
  <2> QED BY <2>1, <2>2
<1>4. Queued(p) = {s[i] : i \in 1 .. Len(s)}
  <2>1. ASSUME NEW i \in 1 .. Len(s) PROVE s[i] \in Queued(p)
    <3>1. i - 1 \in 0 .. (IPC_POOL_SIZE - 1) /\ i - 1 \in Nat /\ i - 1 < Len(s)
      <4> DEFINE n == Len(s)
      <4>1. n \in Nat /\ n \in 0 .. IPC_POOL_SIZE /\ i \in 1 .. n
        BY <1>5
      <4> HIDE DEF n
      <4>2. i - 1 \in 0 .. (IPC_POOL_SIZE - 1) /\ i - 1 \in Nat /\ i - 1 < n
        BY <4>1, PoolAssumption
      <4> QED BY <4>2 DEF n
    <3>2. Follow(msg_queue[p], i - 1) = s[i]
      BY <1>2, <3>1
    <3>3. s[i] # NULL
      BY <1>1, PoolAssumption DEF Msg, NULL
    <3> QED BY <3>1, <3>2, <3>3 DEF Queued
  <2>2. ASSUME NEW m \in Queued(p) PROVE \E i \in 1 .. Len(s) : m = s[i]
    <3>1. PICK n \in 0 .. (IPC_POOL_SIZE - 1) : m = Follow(msg_queue[p], n)
      BY DEF Queued
    <3>2. m # NULL /\ n \in Nat
      BY PoolAssumption DEF Queued
    <3>3. n < Len(s) /\ m = s[n + 1] /\ n + 1 \in 1 .. Len(s)
      BY <1>1, <1>2, <3>1, <3>2
    <3> QED BY <3>3
  <2> QED BY <2>1, <2>2
<1> QED BY <1>2, <1>3, <1>4, <1>5 DEF s

\* The invariant says what the runs check of the pool and the queues.
LEMMA QueueInvSays ==
    ASSUME IpcInv, QueueInv
    PROVE  IpcTypeOK /\ PoolAccounting /\ QueueWellFormed
<1>1. PICK q \in [Slot -> Seq(Msg)] : Lists(q)
  BY DEF QueueInv
<1>2. Linking(q) /\ Once(q) /\ Marks(q)
  BY <1>1 DEF Lists
<1>3. \A p \in Slot : /\ Queued(p) = {q[p][i] : i \in 1 .. Len(q[p])}
                      /\ Cardinality(Queued(p)) = Len(q[p])
                      /\ Len(q[p]) \in 0 .. IPC_POOL_SIZE
  BY <1>2, QueuedIs
<1>4. \A p \in Slot : msg_count[p] = Len(q[p])
  BY <1>2 DEF Linking
<1>5. IpcTypeOK
  <2>1. TypeOK /\ call \in [Slot -> Calls] /\ LinkTypes
    BY DEF IpcInv, ProcInv
  <2>2. msg_count \in [Slot -> 0 .. IPC_POOL_SIZE]
    BY <1>3, <1>4 DEF QueueInv
  <2> QED BY <2>1, <2>2 DEF IpcTypeOK, LinkTypes, QueueInv
<1>6. PoolAccounting
  <2>1. \A p \in Slot : \A m : m \in Queued(p) <=> \E i \in 1 .. Len(q[p]) : q[p][i] = m
    BY <1>3
  <2>2. \A m : InList(q, m) <=> \E p \in Slot : m \in Queued(p)
    BY <2>1 DEF InList
  <2>3. \A p1, p2 \in Slot : p1 # p2 => Queued(p1) \cap Queued(p2) = {}
    BY <1>2, <2>1 DEF Once
  <2>4. \A p1, p2 \in Slot : p1 # p2 => InFlight(p1) \cap InFlight(p2) = {}
    BY DEF IpcInv, MidCallRuns, InFlight
  <2>5. \A p1, p2 \in Slot : Queued(p1) \cap InFlight(p2) = {}
    BY <1>2, <2>2 DEF Marks
  <2> QED BY <1>2, <2>2, <2>3, <2>4, <2>5 DEF Marks, PoolAccounting
<1>7. QueueWellFormed
  <2> SUFFICES ASSUME NEW p \in Slot
               PROVE  /\ msg_count[p] = Cardinality(Queued(p))
                      /\ IF msg_queue[p] = NULL THEN msg_tail[p] = NULL
                         ELSE /\ msg_tail[p] = Follow(msg_queue[p], msg_count[p] - 1)
                              /\ msg_next[msg_tail[p]] = NULL
    BY DEF QueueWellFormed
  <2> DEFINE s == q[p]
             n == Len(s)
  <2>1. /\ msg_queue[p] = IF n = 0 THEN NULL ELSE s[1]
        /\ msg_tail[p] = IF n = 0 THEN NULL ELSE s[n]
        /\ \A i \in 1 .. n : msg_next[s[i]] = IF i = n THEN NULL ELSE s[i + 1]
        /\ n \in Nat /\ msg_count[p] = n
    BY <1>2, <1>4 DEF Linking, Chain
  <2>2. \A k \in Nat : Follow(msg_queue[p], k) = IF k < n THEN s[k + 1] ELSE NULL
    BY <1>2, QueuedIs
  <2>3. msg_count[p] = Cardinality(Queued(p))
    BY <1>3, <1>4
  <2>4. \A i \in 1 .. n : s[i] # NULL
    BY PoolAssumption DEF Msg, NULL
  <2> HIDE DEF s, n
  <2>5. CASE n = 0
    BY <2>1, <2>3, <2>5
  <2>6. CASE n # 0
    <3>1. n - 1 \in Nat /\ n - 1 < n /\ (n - 1) + 1 = n /\ n \in 1 .. n /\ 1 \in 1 .. n
      BY <2>1, <2>6
    <3>2. Follow(msg_queue[p], n - 1) = s[n] /\ msg_next[s[n]] = NULL
      BY <2>1, <2>2, <3>1
    <3> QED BY <2>1, <2>3, <2>4, <2>6, <3>1, <3>2
  <2> QED BY <2>5, <2>6
<1> QED BY <1>5, <1>6, <1>7

\* A step that leaves the pool and the queues alone, and claims only what is free.
LEMMA QuietQueues ==
    ASSUME QueueInv, PidInv', UNCHANGED ipcVars,
           NEW q \in [Slot -> Seq(Msg)], Lists(q),
           \A p \in Slot : (InFlight(p))' = InFlight(p),
           \A p \in Slot : call'[p].at = "claim" => ~msg_used[call'[p].m]
    PROVE  QueueInv' /\ Lists(q)'
<1>2. /\ msg_used' = msg_used /\ msg_next' = msg_next /\ msg_from' = msg_from
      /\ msg_queue' = msg_queue /\ msg_tail' = msg_tail /\ msg_count' = msg_count
  BY DEF ipcVars, poolVars, queueVars
<1>3. Linking(q)'
  BY <1>2 DEF Lists, Linking, Chain
<1>4. Once(q)'
  BY DEF Lists, Once
<1>5. Marks(q)'
  BY <1>2 DEF Lists, Marks, InList
<1> QED BY <1>2, <1>3, <1>4, <1>5 DEF QueueInv, Lists

\* Everything but the filling, the queueing and the taking of a message.
LEMMA QuietSteps ==
    ASSUME IpcInv, QueueInv, PidInv', NEW q \in [Slot -> Seq(Msg)], Lists(q),
           \/ \E d \in 1 .. PROC_MAX : \/ \E long \in BOOLEAN : SendFails(d, long)
                                       \/ \E data \in Payload \cup {NoData} : SendFind(d, data)
           \/ RecvStart \/ RecvEmpty \/ RecvSleep
           \/ OtherCall \/ Background \/ UNCHANGED allVars
    PROVE  QueueInv' /\ Lists(q)' /\ UNCHANGED ipcVars
<1>0. \A p \in Slot : call[p].at = "claim" => ~msg_used[call[p].m]
  BY DEF QueueInv, Lists, Marks
<1>1. CASE UNCHANGED <<ipcVars, call>>
  BY <1>0, <1>1, QuietQueues DEF InFlight
<1>2. CASE \/ RecvStart \/ RecvEmpty \/ RecvSleep
  <2>1. /\ me \in Slot /\ call[me].at \notin {"claim", "enqueue"}
        /\ UNCHANGED ipcVars
        /\ \/ call' = [call EXCEPT ![me] = [at |-> "recv"]]
           \/ call' = [call EXCEPT ![me] = [at |-> "doze"]]
    BY <1>2, AtFacts DEF RecvStart, RecvEmpty, RecvSleep, AfterSleep
  <2>2. /\ call'[me].at \notin {"claim", "enqueue"}
        /\ \A p \in Slot \ {me} : call'[p] = call[p]
    BY <2>1 DEF IpcInv
  <2>3. \A p \in Slot : (InFlight(p))' = InFlight(p)
    BY <2>1, <2>2 DEF InFlight
  <2> QED BY <1>0, <2>1, <2>2, <2>3, QuietQueues
<1>3. CASE \E d \in 1 .. PROC_MAX : \E data \in Payload \cup {NoData} : SendFind(d, data)
  <2>1. PICK d \in 1 .. PROC_MAX, data \in Payload \cup {NoData} : SendFind(d, data)
    BY <1>3
  <2> DEFINE c == [at |-> "claim", m |-> Min(Free), target |-> proc_find(d), data |-> data]
  <2>2. /\ me \in Slot /\ call[me].at = "none" /\ UNCHANGED ipcVars
        /\ call' = [call EXCEPT ![me] = c]
    BY <2>1, AtFacts DEF SendFind
  <2>3. c.m \in Msg /\ ~msg_used[c.m]
    <3>1. Free \in SUBSET Nat /\ Free # {}
      BY <2>1, PoolAssumption DEF Free, Msg, SendFind
    <3>2. Min(Free) \in Free
      BY <3>1, MinIsLeast
    <3> QED BY <3>2 DEF Free
  <2>4. c.at = "claim"
    OBVIOUS
  <2> HIDE DEF c
  <2>5. call'[me] = c /\ \A p \in Slot \ {me} : call'[p] = call[p]
    BY <2>2 DEF IpcInv
  <2>6. \A p \in Slot : (InFlight(p))' = InFlight(p)
    BY <2>2, <2>4, <2>5 DEF InFlight
  <2>7. \A p \in Slot : call'[p].at = "claim" => ~msg_used[call'[p].m]
    BY <1>0, <2>3, <2>5
  <2> QED BY <2>2, <2>6, <2>7, QuietQueues
<1> QED BY <1>1, <1>2, <1>3 DEF SendFails, OtherCall, Background, allVars

\* msg_alloc marks the message and ipc_send fills it: it is in no queue.
LEMMA FillQueues ==
    ASSUME IpcInv, QueueInv, PidInv', SendFill, NEW q \in [Slot -> Seq(Msg)], Lists(q)
    PROVE  QueueInv' /\ Lists(q)' /\ call[me].m \in Msg /\ ~InList(q, call[me].m)
<1> DEFINE m == call[me].m
<1>2. me \in Slot /\ call[me].at = "claim" /\ call[me] \in Calls /\ m \in Msg
  BY AtFacts, CallFields DEF SendFill
<1>3. /\ msg_used' = [msg_used EXCEPT ![m] = TRUE]
      /\ msg_next' = [msg_next EXCEPT ![m] = NULL]
      /\ msg_from' = [msg_from EXCEPT ![m] = pid[me]]
      /\ call' = [call EXCEPT ![me].at = "enqueue"]
      /\ msg_queue' = msg_queue /\ msg_tail' = msg_tail /\ msg_count' = msg_count
  BY DEF SendFill, Marked, queueVars
<1>4. /\ call'[me].at = "enqueue" /\ call'[me].m = m
      /\ \A p \in Slot \ {me} : call'[p] = call[p]
      /\ \A p \in Slot \ {me} : call[p].at \notin {"claim", "enqueue"}
  <2>1. call[me] \in [at : {"claim", "enqueue"}, m : Msg, target : Slot,
                      data : Payload \cup {NoData}]
    BY <1>2, CallFields
  <2>2. call'[me].at = "enqueue" /\ call'[me].m = m
    BY <1>2, <1>3, <2>1 DEF IpcInv
  <2>3. \A p \in Slot \ {me} : call'[p] = call[p]
    BY <1>2, <1>3 DEF IpcInv
  <2> QED BY <2>2, <2>3 DEF IpcInv, MidCallRuns, me
<1> HIDE DEF m
<1>5. ~msg_used[m] /\ ~InList(q, m)
  BY <1>2 DEF Lists, Marks, m
<1>6. Linking(q)'
  <2>1. \A p \in Slot : \A i \in 1 .. Len(q[p]) : q[p][i] # m /\ q[p][i] \in Msg
    BY <1>5 DEF InList
  <2>2. \A p \in Slot : \A i \in 1 .. Len(q[p]) : msg_next'[q[p][i]] = msg_next[q[p][i]]
    BY <1>3, <2>1 DEF IpcInv, LinkTypes
  <2> QED BY <1>3, <2>2 DEF Lists, Linking, Chain
<1>7. Once(q)'
  BY DEF Lists, Once
<1>8. Marks(q)'
  <2>1. \A p \in Slot : InFlight(p) = {}
    BY <1>2, <1>4 DEF InFlight
  <2>2. \A p \in Slot : (InFlight(p))' = IF p = me THEN {m} ELSE {}
    BY <1>2, <1>4 DEF InFlight
  <2>3. \A k \in Msg : msg_used'[k] <=> k = m \/ msg_used[k]
    BY <1>2, <1>3 DEF QueueInv
  <2>4. \A k \in Msg : msg_used[k] <=> InList(q, k)
    BY <2>1, <2>2 DEF Lists, Marks
  <2>5. \A k : InList(q, k)' <=> InList(q, k)
    BY DEF InList
  <2>6. \A p \in Slot : call'[p].at # "claim"
    BY <1>4
  <2> QED BY <1>2, <1>5, <2>1, <2>2, <2>3, <2>4, <2>5, <2>6 DEF Marks
<1>9. pid[me] \in 0 .. PROC_MAX
  <2>1. \A p \in Slot : p \in Nat /\ p + 1 <= PROC_MAX
    BY ProcMaxAssumption DEF Slot
  <2>2. pid[me] \in {0, me + 1}
    BY <1>2 DEF QueueInv, PidInv
  <2> QED BY <1>2, <2>1, <2>2, ProcMaxAssumption
<1>10. /\ msg_used' \in [Msg -> BOOLEAN] /\ msg_from' \in [Msg -> 0 .. PROC_MAX]
       /\ msg_count' \in [Slot -> Nat]
  BY <1>2, <1>3, <1>9 DEF QueueInv
<1>11. QueueInv' /\ Lists(q)'
  BY <1>6, <1>7, <1>8, <1>10 DEF QueueInv, Lists
<1> QED BY <1>2, <1>5, <1>11 DEF m

\* The section under cli of ipc_send: the message goes to the end of one list.
LEMMA EnqueueQueues ==
    ASSUME IpcInv, QueueInv, PidInv', SendEnqueue,
           NEW q \in [Slot -> Seq(Msg)], Lists(q), NEW r,
           r = [q EXCEPT ![call[me].target] = Append(q[call[me].target], call[me].m)]
    PROVE  /\ QueueInv'
           /\ call[me].target \in Slot /\ call[me].m \in Msg /\ ~InList(q, call[me].m)
           /\ r \in [Slot -> Seq(Msg)] /\ Lists(r)'
<1> DEFINE m == call[me].m
           t == call[me].target
           n == Len(q[t])
<1>1. me \in Slot \ {IDLE} /\ call[me].at = "enqueue" /\ m \in Msg /\ t \in Slot
  BY AtFacts, CallFields DEF SendEnqueue
<1>2. /\ msg_next' = Linked(m, msg_tail[t])
      /\ msg_queue' = [msg_queue EXCEPT ![t] = HeadAfter(m, t)]
      /\ msg_tail' = [msg_tail EXCEPT ![t] = m]
      /\ msg_count' = [msg_count EXCEPT ![t] = @ + 1]
      /\ call' = [call EXCEPT ![me] = Idle]
      /\ msg_from' = msg_from /\ msg_used' = msg_used
  BY DEF SendEnqueue, Counted
<1>3. r \in [Slot -> Seq(Msg)] /\ n \in Nat
  BY <1>1
<1>4. /\ \A p \in Slot : p # t => r[p] = q[p]
      /\ Len(r[t]) = n + 1 /\ r[t][n + 1] = m
      /\ \A i \in 1 .. n : r[t][i] = q[t][i]
  BY <1>1
<1>5. ~InList(q, m)
  BY <1>1 DEF Lists, Marks, InFlight, m
<1>6. /\ \A p \in Slot : \A i \in 1 .. Len(q[p]) : q[p][i] \in Msg /\ q[p][i] # m
      /\ \A p \in Slot : Len(q[p]) \in Nat
  BY <1>5 DEF InList
<1>7. \A k \in Msg : msg_next'[k] = IF k = m THEN NULL
                                   ELSE IF k = msg_tail[t] THEN m ELSE msg_next[k]
  BY <1>2 DEF Linked
<1>8. \A k \in Msg : k # NULL
  BY PoolAssumption DEF Msg, NULL
<1>9. /\ msg_tail[t] = IF n = 0 THEN NULL ELSE q[t][n]
      /\ msg_queue[t] = IF n = 0 THEN NULL ELSE q[t][1]
      /\ msg_count[t] = n
      /\ \A i \in 1 .. n : msg_next[q[t][i]] = IF i = n THEN NULL ELSE q[t][i + 1]
  BY <1>1 DEF Lists, Linking, Chain
<1> HIDE DEF m, t, n
<1>10. Linking(r)'
  <2> SUFFICES ASSUME NEW p \in Slot
               PROVE  /\ msg_queue'[p] = IF Len(r[p]) = 0 THEN NULL ELSE r[p][1]
                      /\ \A i \in 1 .. Len(r[p]) :
                            msg_next'[r[p][i]] = IF i = Len(r[p]) THEN NULL ELSE r[p][i + 1]
                      /\ msg_tail'[p] = IF Len(r[p]) = 0 THEN NULL ELSE r[p][Len(r[p])]
                      /\ msg_count'[p] = Len(r[p])
    BY DEF Linking, Chain
  <2>1. CASE p # t
    <3>1. r[p] = q[p]
      BY <1>4, <2>1
    <3>2. msg_queue'[p] = msg_queue[p] /\ msg_tail'[p] = msg_tail[p]
          /\ msg_count'[p] = msg_count[p]
      BY <1>2, <2>1 DEF IpcInv, LinkTypes, QueueInv
    <3>3. \A i \in 1 .. Len(q[p]) : q[p][i] # msg_tail[t]
      <4> SUFFICES ASSUME NEW i \in 1 .. Len(q[p]), q[p][i] = msg_tail[t] PROVE FALSE
        OBVIOUS
      <4>1. q[p][i] # NULL
        BY <1>6, <1>8
      <4>2. n \in 1 .. n /\ q[p][i] = q[t][n]
        BY <1>3, <1>9, <4>1
      <4> QED BY <1>1, <2>1, <4>2 DEF Lists, Once, n
    <3>4. \A i \in 1 .. Len(q[p]) : msg_next'[q[p][i]] = msg_next[q[p][i]]
      BY <1>6, <1>7, <3>3
    <3>5. /\ msg_queue[p] = IF Len(q[p]) = 0 THEN NULL ELSE q[p][1]
          /\ \A i \in 1 .. Len(q[p]) :
                msg_next[q[p][i]] = IF i = Len(q[p]) THEN NULL ELSE q[p][i + 1]
          /\ msg_tail[p] = IF Len(q[p]) = 0 THEN NULL ELSE q[p][Len(q[p])]
          /\ msg_count[p] = Len(q[p])
      BY DEF Lists, Linking, Chain
    <3> QED BY <3>1, <3>2, <3>4, <3>5
  <2>2. CASE p = t
    <3>1. msg_tail'[t] = m /\ msg_count'[t] = n + 1 /\ msg_queue'[t] = HeadAfter(m, t)
      BY <1>1, <1>2, <1>9 DEF IpcInv, LinkTypes, QueueInv
    <3>2. msg_queue'[t] = r[t][1]
      <4>1. CASE n = 0
        BY <1>4, <1>9, <3>1, <4>1 DEF HeadAfter
      <4>2. CASE n # 0
        <5>1. 1 \in 1 .. n /\ n \in 1 .. n
          BY <1>3, <4>2
        <5>2. q[t][n] # NULL
          BY <1>1, <1>6, <1>8, <5>1 DEF n
        <5> QED BY <1>4, <1>9, <3>1, <4>2, <5>1, <5>2 DEF HeadAfter
      <4> QED BY <4>1, <4>2
    <3>3. ASSUME NEW i \in 1 .. (n + 1)
          PROVE  msg_next'[r[t][i]] = IF i = n + 1 THEN NULL ELSE r[t][i + 1]
      <4>1. CASE i = n + 1
        BY <1>1, <1>4, <1>7, <4>1
      <4>2. CASE i # n + 1
        <5>1. i \in 1 .. n /\ n # 0 /\ n \in 1 .. n
          BY <1>3, <4>2
        <5>2. r[t][i] = q[t][i] /\ q[t][i] \in Msg /\ q[t][i] # m
          BY <1>1, <1>4, <1>6, <5>1 DEF n
        <5>3. msg_tail[t] = q[t][n]
          BY <1>9, <5>1
        <5>4. CASE i = n
          BY <1>4, <1>7, <4>2, <5>2, <5>3, <5>4
        <5>5. CASE i # n
          <6>1. q[t][i] # q[t][n]
            BY <1>1, <5>1, <5>5 DEF Lists, Once, n
          <6>2. i + 1 \in 1 .. n /\ r[t][i + 1] = q[t][i + 1]
            BY <1>3, <1>4, <5>1, <5>5
          <6> QED BY <1>7, <1>9, <4>2, <5>1, <5>2, <5>3, <5>5, <6>1, <6>2
        <5> QED BY <5>4, <5>5
      <4> QED BY <4>1, <4>2
    <3> QED BY <1>3, <1>4, <2>2, <3>1, <3>2, <3>3
  <2> QED BY <2>1, <2>2
<1>11. Once(r)'
  <2>1. ASSUME NEW p1 \in Slot, NEW p2 \in Slot, NEW i \in 1 .. Len(r[p1]),
               NEW j \in 1 .. Len(r[p2]), r[p1][i] = r[p2][j]
        PROVE  p1 = p2 /\ i = j
    <3>1. \/ i \in 1 .. Len(q[p1]) /\ r[p1][i] = q[p1][i]
          \/ p1 = t /\ i = n + 1 /\ r[p1][i] = m
      BY <1>3, <1>4 DEF n
    <3>2. \/ j \in 1 .. Len(q[p2]) /\ r[p2][j] = q[p2][j]
          \/ p2 = t /\ j = n + 1 /\ r[p2][j] = m
      BY <1>3, <1>4 DEF n
    <3> QED BY <2>1, <3>1, <3>2, <1>6 DEF Lists, Once
  <2> QED BY <2>1 DEF Once
<1>12. \A k : InList(r, k)' <=> InList(q, k) \/ k = m
  <2>1. \A p \in Slot : \A i \in 1 .. Len(q[p]) : i \in 1 .. Len(r[p]) /\ r[p][i] = q[p][i]
    BY <1>3, <1>4 DEF n
  <2>2. n + 1 \in 1 .. Len(r[t]) /\ r[t][n + 1] = m
    BY <1>3, <1>4
  <2>3. ASSUME NEW p \in Slot, NEW i \in 1 .. Len(r[p])
        PROVE  \/ i \in 1 .. Len(q[p]) /\ r[p][i] = q[p][i]
               \/ r[p][i] = m
    BY <1>3, <1>4 DEF n
  <2>4. ASSUME NEW k, InList(q, k) \/ k = m PROVE InList(r, k)
    BY <1>1, <2>1, <2>2, <2>4 DEF InList
  <2>5. ASSUME NEW k, InList(r, k) PROVE InList(q, k) \/ k = m
    BY <2>3, <2>5 DEF InList
  <2>6. \A k : InList(r, k)' <=> InList(r, k)
    BY DEF InList
  <2> QED BY <2>4, <2>5, <2>6
<1>13. Marks(r)'
  <2>1. \A p \in Slot : InFlight(p) = IF p = me THEN {m} ELSE {}
    BY <1>1 DEF InFlight, IpcInv, MidCallRuns, m, me
  <2>2. \A p \in Slot : call'[p].at \notin {"claim", "enqueue"}
    BY <1>1, <1>2 DEF IpcInv, MidCallRuns, me, Idle
  <2>3. \A p \in Slot : (InFlight(p))' = {}
    BY <2>2 DEF InFlight
  <2> QED BY <1>1, <1>2, <1>12, <2>1, <2>2, <2>3 DEF Lists, Marks
<1>14. QueueInv'
  <2>1. /\ msg_used' \in [Msg -> BOOLEAN] /\ msg_from' \in [Msg -> 0 .. PROC_MAX]
        /\ msg_count' \in [Slot -> Nat]
    BY <1>1, <1>2 DEF QueueInv
  <2> QED BY <1>3, <1>10, <1>11, <1>13, <2>1 DEF QueueInv, Lists
<1> QED BY <1>1, <1>3, <1>5, <1>10, <1>11, <1>13, <1>14 DEF Lists, m, t

\* The section under cli of ipc_recv: the head leaves its list.
LEMMA TakeQueues ==
    ASSUME IpcInv, QueueInv, PidInv', RecvTake,
           NEW q \in [Slot -> Seq(Msg)], Lists(q), NEW r, r = [q EXCEPT ![me] = Tail(q[me])]
    PROVE  /\ QueueInv'
           /\ me \in Slot /\ q[me] # <<>>
           /\ r \in [Slot -> Seq(Msg)] /\ Lists(r)'
<1> DEFINE m == msg_queue[me]
           t == me
           n == Len(q[t])
<1>1. t \in Slot /\ call[t].at = "recv" /\ m # NULL
      /\ \A p \in Slot : call[p].at \notin {"claim", "enqueue", "doze"}
  <2>1. At("recv") /\ m # NULL
    BY DEF RecvTake
  <2>2. "recv" \notin {"claim", "enqueue", "doze"}
    OBVIOUS
  <2> QED BY <2>1, <2>2, AtFacts
<1>2. /\ msg_queue' = [msg_queue EXCEPT ![t] = msg_next[m]]
      /\ msg_tail' = [msg_tail EXCEPT ![t] = TailAfter(m)]
      /\ msg_count' = [msg_count EXCEPT ![t] = @ - 1]
      /\ msg_used' = [msg_used EXCEPT ![m] = FALSE]
      /\ call' = [call EXCEPT ![t] = Idle]
      /\ msg_from' = msg_from /\ msg_next' = msg_next
  BY DEF RecvTake
<1>3. /\ msg_tail[t] = IF n = 0 THEN NULL ELSE q[t][n]
      /\ msg_queue[t] = IF n = 0 THEN NULL ELSE q[t][1]
      /\ msg_count[t] = n
      /\ \A i \in 1 .. n : msg_next[q[t][i]] = IF i = n THEN NULL ELSE q[t][i + 1]
  BY <1>1 DEF Lists, Linking, Chain
<1>4. q[t] \in Seq(Msg) /\ q[t] # <<>> /\ n \in Nat \ {0} /\ 1 \in 1 .. n /\ n \in 1 .. n
      /\ m = q[t][1] /\ m \in Msg
  BY <1>1, <1>3
<1>5. /\ r \in [Slot -> Seq(Msg)]
      /\ \A p \in Slot : p # t => r[p] = q[p]
      /\ Len(r[t]) = n - 1
      /\ \A i \in 1 .. (n - 1) : r[t][i] = q[t][i + 1]
  BY <1>1, <1>4
<1>6. \A p \in Slot : \A i \in 1 .. Len(q[p]) : q[p][i] \in Msg
  OBVIOUS
<1>7. \A k \in Msg : k # NULL
  BY PoolAssumption DEF Msg, NULL
<1> HIDE DEF m, t, n
<1>8. Linking(r)'
  <2> SUFFICES ASSUME NEW p \in Slot
               PROVE  /\ msg_queue'[p] = IF Len(r[p]) = 0 THEN NULL ELSE r[p][1]
                      /\ \A i \in 1 .. Len(r[p]) :
                            msg_next'[r[p][i]] = IF i = Len(r[p]) THEN NULL ELSE r[p][i + 1]
                      /\ msg_tail'[p] = IF Len(r[p]) = 0 THEN NULL ELSE r[p][Len(r[p])]
                      /\ msg_count'[p] = Len(r[p])
    BY DEF Linking, Chain
  <2>1. CASE p # t
    <3>1. r[p] = q[p]
      BY <1>5, <2>1
    <3>2. msg_queue'[p] = msg_queue[p] /\ msg_tail'[p] = msg_tail[p]
          /\ msg_count'[p] = msg_count[p]
      BY <1>2, <2>1 DEF IpcInv, LinkTypes, QueueInv
    <3>3. /\ msg_queue[p] = IF Len(q[p]) = 0 THEN NULL ELSE q[p][1]
          /\ \A i \in 1 .. Len(q[p]) :
                msg_next[q[p][i]] = IF i = Len(q[p]) THEN NULL ELSE q[p][i + 1]
          /\ msg_tail[p] = IF Len(q[p]) = 0 THEN NULL ELSE q[p][Len(q[p])]
          /\ msg_count[p] = Len(q[p])
      BY DEF Lists, Linking, Chain
    <3> QED BY <1>2, <3>1, <3>2, <3>3
  <2>2. CASE p = t
    <3>1. /\ msg_tail'[t] = TailAfter(m) /\ msg_count'[t] = n - 1
          /\ msg_queue'[t] = msg_next[m]
      BY <1>1, <1>2, <1>3 DEF IpcInv, LinkTypes, QueueInv
    <3>2. msg_next[m] = IF n = 1 THEN NULL ELSE q[t][2]
      BY <1>3, <1>4
    <3>3. CASE n = 1
      BY <1>5, <2>2, <3>1, <3>2, <3>3 DEF TailAfter, t
    <3>4. CASE n # 1
      <4>1. 2 \in 1 .. n /\ 1 \in 1 .. (n - 1) /\ n - 1 \in 1 .. (n - 1) /\ n - 1 # 0
            /\ (n - 1) + 1 = n /\ n # 0
        BY <1>4, <3>4
      <4>2. q[t][2] # NULL
        BY <1>1, <1>6, <1>7, <4>1 DEF n
      <4>3. msg_queue'[t] = r[t][1] /\ msg_tail'[t] = r[t][n - 1]
        BY <1>3, <1>5, <3>1, <3>2, <3>4, <4>1, <4>2 DEF TailAfter, t
      <4>4. ASSUME NEW i \in 1 .. (n - 1)
            PROVE  msg_next'[r[t][i]] = IF i = n - 1 THEN NULL ELSE r[t][i + 1]
        <5>1. i + 1 \in 1 .. n /\ (i = n - 1 <=> i + 1 = n)
              /\ (i # n - 1 => i + 1 \in 1 .. (n - 1))
          BY <1>4
        <5> QED BY <1>2, <1>3, <1>5, <5>1
      <4>5. Len(r[t]) = n - 1
        BY <1>5
      <4>6. msg_count'[t] = n - 1
        BY <3>1
      <4>7. \A i \in 1 .. Len(r[t]) :
              msg_next'[r[t][i]] = IF i = Len(r[t]) THEN NULL ELSE r[t][i + 1]
        BY <1>4, <4>4, <4>5
      <4> QED BY <2>2, <4>1, <4>3, <4>5, <4>6, <4>7
    <3> QED BY <3>3, <3>4
  <2> QED BY <2>1, <2>2
<1>9. \A p \in Slot : \A i \in 1 .. Len(r[p]) :
         \E j \in 1 .. Len(q[p]) : /\ r[p][i] = q[p][j]
                                   /\ j = IF p = t THEN i + 1 ELSE i
  BY <1>4, <1>5 DEF n
<1>10. Once(r)'
  <2>1. ASSUME NEW p1 \in Slot, NEW p2 \in Slot, NEW i \in 1 .. Len(r[p1]),
               NEW j \in 1 .. Len(r[p2]), r[p1][i] = r[p2][j]
        PROVE  p1 = p2 /\ i = j
    <3>1. PICK i1 \in 1 .. Len(q[p1]) : /\ r[p1][i] = q[p1][i1]
                                        /\ i1 = IF p1 = t THEN i + 1 ELSE i
      BY <1>9
    <3>2. PICK j1 \in 1 .. Len(q[p2]) : /\ r[p2][j] = q[p2][j1]
                                        /\ j1 = IF p2 = t THEN j + 1 ELSE j
      BY <1>9
    <3>3. p1 = p2 /\ i1 = j1
      BY <2>1, <3>1, <3>2 DEF Lists, Once
    <3>4. i \in Nat /\ j \in Nat
      BY <1>5
    <3> QED BY <3>1, <3>2, <3>3, <3>4
  <2> QED BY <2>1 DEF Once
<1>11. \A k : InList(r, k)' <=> InList(q, k) /\ k # m
  <2>1. ASSUME NEW k, InList(r, k) PROVE InList(q, k) /\ k # m
    <3>0. PICK p \in Slot : \E i \in 1 .. Len(r[p]) : r[p][i] = k
      BY <2>1 DEF InList
    <3>1. PICK i \in 1 .. Len(r[p]) : r[p][i] = k
      BY <3>0
    <3>2. PICK j \in 1 .. Len(q[p]) : r[p][i] = q[p][j] /\ j = IF p = t THEN i + 1 ELSE i
      BY <1>9
    <3>3. InList(q, k)
      BY <3>1, <3>2 DEF InList
    <3>4. ASSUME k = m PROVE FALSE
      <4>1. q[p][j] = q[t][1] /\ 1 \in 1 .. Len(q[t])
        BY <1>4, <3>1, <3>2, <3>4 DEF n
      <4>2. p = t /\ j = 1
        BY <1>1, <4>1 DEF Lists, Once
      <4>3. i \in Nat /\ i >= 1
        BY <1>5
      <4> QED BY <3>2, <4>2, <4>3
    <3> QED BY <3>3, <3>4
  <2>2. ASSUME NEW k, InList(q, k), k # m PROVE InList(r, k)
    <3>0. PICK p \in Slot : \E j \in 1 .. Len(q[p]) : q[p][j] = k
      BY <2>2 DEF InList
    <3>1. PICK j \in 1 .. Len(q[p]) : q[p][j] = k
      BY <3>0
    <3>2. CASE p # t
      BY <1>5, <3>1, <3>2 DEF InList
    <3>3. CASE p = t
      <4>1. j # 1 /\ j \in 1 .. n
        BY <1>4, <2>2, <3>1, <3>3 DEF n
      <4>2. j - 1 \in 1 .. (n - 1) /\ (j - 1) + 1 = j
        BY <1>4, <4>1
      <4>3. r[t][j - 1] = k /\ j - 1 \in 1 .. Len(r[t])
        BY <1>5, <3>1, <3>3, <4>2
      <4> QED BY <1>1, <4>3 DEF InList
    <3> QED BY <3>2, <3>3
  <2>3. \A k : InList(r, k)' <=> InList(r, k)
    BY DEF InList
  <2> QED BY <2>1, <2>2, <2>3
<1>12. Marks(r)'
  <2>1. \A p \in Slot : InFlight(p) = {}
    BY <1>1 DEF InFlight
  <2>2. \A p \in Slot : call'[p].at \notin {"claim", "enqueue"}
    BY <1>1, <1>2 DEF IpcInv, Idle
  <2>3. \A p \in Slot : (InFlight(p))' = {}
    BY <2>2 DEF InFlight
  <2>4. \A k \in Msg : msg_used[k] <=> InList(q, k)
    BY <2>1 DEF Lists, Marks
  <2>5. \A k \in Msg : msg_used'[k] <=> msg_used[k] /\ k # m
    BY <1>2, <1>4 DEF QueueInv
  <2> QED BY <1>11, <2>2, <2>3, <2>4, <2>5 DEF Marks
<1>13. /\ msg_used' \in [Msg -> BOOLEAN] /\ msg_from' \in [Msg -> 0 .. PROC_MAX]
       /\ msg_count' \in [Slot -> Nat]
  BY <1>1, <1>2, <1>3, <1>4 DEF QueueInv
<1>14. QueueInv'
  BY <1>5, <1>8, <1>10, <1>12, <1>13 DEF QueueInv, Lists
<1> QED BY <1>1, <1>4, <1>5, <1>8, <1>10, <1>12, <1>14 DEF Lists, t

\* Every step of the composed system keeps the lists.
LEMMA QueueNextKeeps ==
    ASSUME IpcInv, QueueInv, [IpcNext]_allVars PROVE QueueInv'
<1>1. PidInv'
  BY StepIsProcStep, PidStep DEF IpcInv, QueueInv
<1>2. PICK q \in [Slot -> Seq(Msg)] : Lists(q)
  BY DEF QueueInv
<1>3. CASE SendFill
  BY <1>1, <1>2, <1>3, FillQueues
<1>4. CASE SendEnqueue
  <2>1. PICK r : r = [q EXCEPT ![call[me].target] = Append(q[call[me].target], call[me].m)]
    OBVIOUS
  <2> QED BY <1>1, <1>2, <1>4, <2>1, EnqueueQueues
<1>5. CASE RecvTake
  <2>1. PICK r : r = [q EXCEPT ![me] = Tail(q[me])]
    OBVIOUS
  <2> QED BY <1>1, <1>2, <1>5, <2>1, TakeQueues
<1> QED BY <1>1, <1>2, <1>3, <1>4, <1>5, QuietSteps DEF IpcNext, Send, Recv

\* The pool and the lists keep their shape for ever.
THEOREM QueueInvariant == IpcSpec => []QueueInv
<1>1. IpcInit => QueueInv
  <2> SUFFICES ASSUME IpcInit PROVE QueueInv
    OBVIOUS
  <2>1. PidInv
    BY ProcMaxAssumption DEF IpcInit, Init, PidInv, Slot
  <2> DEFINE q == [p \in Slot |-> <<>>]
  <2>2. q \in [Slot -> Seq(Msg)] /\ \A p \in Slot : Len(q[p]) = 0
    OBVIOUS
  <2>3. \A p \in Slot : call[p].at = "none"
    BY DEF IpcInit, Idle
  <2> HIDE DEF q
  <2>4. Linking(q) /\ Once(q)
    BY <2>2 DEF IpcInit, Linking, Chain, Once
  <2>5. Marks(q)
    BY <2>2, <2>3 DEF IpcInit, Marks, InList, InFlight
  <2>6. /\ msg_used \in [Msg -> BOOLEAN] /\ msg_from \in [Msg -> 0 .. PROC_MAX]
        /\ msg_count \in [Slot -> Nat]
    BY ProcMaxAssumption DEF IpcInit
  <2> QED BY <2>1, <2>2, <2>4, <2>5, <2>6 DEF QueueInv, Lists
<1>2. IpcInv /\ QueueInv /\ [IpcNext]_allVars => QueueInv'
  BY QueueNextKeeps
<1> QED BY <1>1, <1>2, IpcInvariant, PTL DEF IpcSpec

\* The message pool and the queues hold what their types say; pids and counts stay
\* within the size of the table and of the pool.
THEOREM IpcTypeCorrect == IpcSpec => []IpcTypeOK
<1>1. IpcInv /\ QueueInv => IpcTypeOK
  BY QueueInvSays
<1> QED BY <1>1, IpcInvariant, QueueInvariant, PTL

\* msg_alloc, unprotected as it is, gives no message to two owners and loses none.
THEOREM PoolHasOneOwner == IpcSpec => []PoolAccounting
<1>1. IpcInv /\ QueueInv => PoolAccounting
  BY QueueInvSays
<1> QED BY <1>1, IpcInvariant, QueueInvariant, PTL

\* The linked list of every process stays whole: tail, end and count agree.
THEOREM QueuesStayLinked == IpcSpec => []QueueWellFormed
<1>1. IpcInv /\ QueueInv => QueueWellFormed
  BY QueueInvSays
<1> QED BY <1>1, IpcInvariant, QueueInvariant, PTL

-----------------------------------------------------------------------------
(* The mailboxes *)

\* What the messages of a list hold.
Contents(s) == [i \in 1 .. Len(s) |-> [from |-> msg_from[s[i]], data |-> msg_data[s[i]]]]

\* The inbox of a process is what the messages of its list hold.
InboxesRead ==
    \A q \in [Slot -> Seq(Msg)] : Lists(q) => \A p \in Slot : Inbox(p) = Contents(q[p])

\* It is, in every state.
LEMMA InboxIs == InboxesRead
<1> SUFFICES ASSUME NEW q \in [Slot -> Seq(Msg)], Lists(q), NEW p \in Slot
             PROVE  Inbox(p) = Contents(q[p])
  BY DEF InboxesRead
<1> DEFINE s == q[p]
<1>1. /\ Cardinality(Queued(p)) = Len(s)
      /\ Len(s) \in Nat
      /\ \A n \in Nat : Follow(msg_queue[p], n) = IF n < Len(s) THEN s[n + 1] ELSE NULL
  BY QueuedIs DEF Lists
<1> HIDE DEF s
<1>2. \A i \in 1 .. Len(s) : Follow(msg_queue[p], i - 1) = s[i]
  BY <1>1
<1>3. Inbox(p) = [i \in 1 .. Len(s) |->
                     LET m == Follow(msg_queue[p], i - 1)
                     IN  [from |-> msg_from[m], data |-> msg_data[m]]]
  BY <1>1 DEF Inbox
<1>4. Inbox(p) = Contents(s)
  BY <1>2, <1>3 DEF Contents
<1> QED BY <1>4 DEF s

\* While a message waits to be queued, the queues do not fill the pool.
LEMMA RoomForOne ==
    ASSUME NEW q \in [Slot -> Seq(Msg)], Once(q), NEW m \in Msg, ~InList(q, m)
    PROVE  Cardinality(UNION {{<<p, i>> : i \in 1 .. Len(q[p])} : p \in Slot}) < IPC_POOL_SIZE
<1> DEFINE H == UNION {{<<p, i>> : i \in 1 .. Len(q[p])} : p \in Slot}
           f == [h \in H |-> q[h[1]][h[2]]]
           Rest == Msg \ {m}
<1>1. \A h \in H : h[1] \in Slot /\ h[2] \in 1 .. Len(q[h[1]]) /\ h = <<h[1], h[2]>>
  OBVIOUS
<1> HIDE DEF H
<1>2. f \in [H -> Rest]
  <2> SUFFICES ASSUME NEW h \in H PROVE q[h[1]][h[2]] \in Rest
    OBVIOUS
  <2>1. q[h[1]] \in Seq(Msg)
    BY <1>1
  <2>2. q[h[1]][h[2]] \in Msg
    BY <1>1, <2>1
  <2>3. q[h[1]][h[2]] # m
    BY <1>1 DEF InList
  <2> QED BY <2>2, <2>3
<1>3. \A g, h \in H : f[g] = f[h] => g = h
  <2> SUFFICES ASSUME NEW g \in H, NEW h \in H, f[g] = f[h] PROVE g = h
    OBVIOUS
  <2>1. q[g[1]][g[2]] = q[h[1]][h[2]]
    OBVIOUS
  <2>2. g[1] = h[1] /\ g[2] = h[2]
    BY <1>1, <2>1 DEF Once
  <2> QED BY <1>1, <2>2
<1> HIDE DEF f
<1>4. f \in Injection(H, Rest)
  BY <1>2, <1>3 DEF Injection, IsInjective
<1>5. IsFiniteSet(Msg) /\ Cardinality(Msg) = IPC_POOL_SIZE
  BY FS_Interval, PoolAssumption DEF Msg
<1>6. IsFiniteSet(Rest) /\ Cardinality(Rest) = IPC_POOL_SIZE - 1
  <2>1. /\ IsFiniteSet(Msg \ {m})
        /\ Cardinality(Msg \ {m}) = IF m \in Msg THEN Cardinality(Msg) - 1 ELSE Cardinality(Msg)
    BY <1>5, FS_RemoveElement
  <2> QED BY <1>5, <2>1
<1> HIDE DEF Rest
<1>7. Cardinality(H) <= Cardinality(Rest) /\ IsFiniteSet(H)
  BY <1>4, <1>6, FS_Injection
<1>8. Cardinality(H) \in Nat
  BY <1>7, FS_CardinalityType
<1>9. Cardinality(H) < IPC_POOL_SIZE
  BY <1>6, <1>7, <1>8, PoolAssumption
<1> QED BY <1>9 DEF H

\* A step of the kernel puts one message at the end of an inbox, takes the first one
\* of an inbox, or changes no inbox.
LEMMA StepIsMailboxStep ==
    ASSUME IpcInv, QueueInv, InboxesRead, InboxesRead', [IpcNext]_allVars
    PROVE  [Boxes!MailboxNext]_([p \in Slot |-> Inbox(p)])
<1>1. PidInv'
  BY StepIsProcStep, PidStep DEF IpcInv, QueueInv
<1>2. PICK q \in [Slot -> Seq(Msg)] : Lists(q)
  BY DEF QueueInv
<1>3. \A p \in Slot : Inbox(p) = Contents(q[p])
  BY <1>2 DEF InboxesRead
<1>4. ASSUME Lists(q)', \A p \in Slot : Contents(q[p])' = Contents(q[p])
      PROVE  [Boxes!MailboxNext]_([p \in Slot |-> Inbox(p)])
  <2>1. \A p \in Slot : Inbox(p)' = Contents(q[p])'
    BY <1>4 DEF InboxesRead
  <2>2. \A p \in Slot : Inbox(p)' = Inbox(p)
    BY <1>3, <1>4, <2>1
  <2> QED BY <2>2
<1>5. CASE SendFill
  <2>1. Lists(q)' /\ call[me].m \in Msg /\ ~InList(q, call[me].m)
    BY <1>1, <1>2, <1>5, FillQueues
  <2>2. \A k \in Msg \ {call[me].m} : msg_from'[k] = msg_from[k] /\ msg_data'[k] = msg_data[k]
    BY <1>5 DEF SendFill, IpcInv, LinkTypes
  <2>3. \A p \in Slot : \A i \in 1 .. Len(q[p]) : q[p][i] \in Msg \ {call[me].m}
    BY <2>1 DEF InList
  <2>4. \A p \in Slot : Contents(q[p])' = Contents(q[p])
    BY <2>2, <2>3 DEF Contents
  <2> QED BY <1>4, <2>1, <2>4
<1>6. CASE SendEnqueue
  <2> DEFINE m == call[me].m
             t == call[me].target
  <2>1. PICK r : r = [q EXCEPT ![t] = Append(q[t], m)]
    OBVIOUS
  <2>2. t \in Slot /\ m \in Msg /\ ~InList(q, m) /\ r \in [Slot -> Seq(Msg)] /\ Lists(r)'
    BY <1>1, <1>2, <1>6, <2>1, EnqueueQueues
  <2>3. \A p \in Slot : Inbox(p)' = Contents(r[p])'
    BY <2>2 DEF InboxesRead
  <2>4. msg_from' = msg_from /\ msg_data' = msg_data
    BY <1>6 DEF SendEnqueue
  <2>5. PICK e : e = [from |-> msg_from[m], data |-> msg_data[m]]
    OBVIOUS
  <2> HIDE DEF m, t
  <2>6. e \in Envelopes
    BY <2>2, <2>5 DEF Envelopes, QueueInv, IpcInv, LinkTypes
  <2>7. \A s \in Seq(Msg) : Contents(s)' = Contents(s)
    BY <2>4 DEF Contents
  <2>8. Contents(Append(q[t], m)) = Append(Contents(q[t]), e)
    BY <2>2, <2>5 DEF Contents
  <2>9. \A p \in Slot : Inbox(p)' = IF p = t THEN Append(Inbox(p), e) ELSE Inbox(p)
    BY <1>3, <2>1, <2>2, <2>3, <2>7, <2>8
  <2>10. \A p \in Slot : Len(Inbox(p)) = Len(q[p])
    BY <1>3 DEF Contents
  <2>11. Cardinality(Boxes!Held) < IPC_POOL_SIZE
    <3>1. Boxes!Held = UNION {{<<p, i>> : i \in 1 .. Len(q[p])} : p \in Slot}
      BY <2>10 DEF Boxes!Held
    <3> QED BY <1>2, <2>2, <3>1, RoomForOne DEF Lists
  <2>12. Boxes!Put(t)
    <3> DEFINE box == [p \in Slot |-> Inbox(p)]
    <3>1. box'[t] = Append(box[t], e) /\ \A p \in Slot \ {t} : box'[p] = box[p]
      BY <2>2, <2>9
    <3>2. \E d \in Envelopes : box'[t] = Append(box[t], d)
      BY <2>6, <3>1
    <3>3. \A S : Boxes!Cardinality(S) = Cardinality(S)
      BY DEF Boxes!Cardinality, Boxes!IsFiniteSet, Cardinality, IsFiniteSet
    <3>4. Boxes!Cardinality(Boxes!Held) < IPC_POOL_SIZE
      BY <2>11, <3>3
    <3> QED BY <3>1, <3>2, <3>4 DEF Boxes!Put
  <2> QED BY <2>2, <2>12 DEF Boxes!MailboxNext
<1>7. CASE RecvTake
  <2> DEFINE t == me
  <2>1. PICK r : r = [q EXCEPT ![t] = Tail(q[t])]
    OBVIOUS
  <2>2. t \in Slot /\ q[t] # <<>> /\ r \in [Slot -> Seq(Msg)] /\ Lists(r)'
    BY <1>1, <1>2, <1>7, <2>1, TakeQueues
  <2>3. \A p \in Slot : Inbox(p)' = Contents(r[p])'
    BY <2>2 DEF InboxesRead
  <2>4. msg_from' = msg_from /\ msg_data' = msg_data
    BY <1>7 DEF RecvTake
  <2> HIDE DEF t
  <2>5. \A s \in Seq(Msg) : Contents(s)' = Contents(s)
    BY <2>4 DEF Contents
  <2>6. Contents(Tail(q[t])) = Tail(Contents(q[t])) /\ Contents(q[t]) # <<>>
    <3> DEFINE s == q[t]
               c == Contents(s)
               u == Tail(s)
    <3>1. s \in Seq(Msg) /\ s # <<>> /\ Len(s) \in Nat \ {0} /\ Len(u) = Len(s) - 1
          /\ \A i \in 1 .. Len(u) : u[i] = s[i + 1]
      BY <2>2
    <3>2. \A i \in 1 .. Len(s) : [from |-> msg_from[s[i]], data |-> msg_data[s[i]]] \in Envelopes
      BY <3>1 DEF Envelopes, QueueInv, IpcInv, LinkTypes
    <3>3. c \in Seq(Envelopes) /\ Len(c) = Len(s)
          /\ \A i \in 1 .. Len(s) : c[i] = [from |-> msg_from[s[i]], data |-> msg_data[s[i]]]
      BY <3>1, <3>2 DEF Contents
    <3>4. Contents(u) = [i \in 1 .. (Len(s) - 1) |->
                            [from |-> msg_from[u[i]], data |-> msg_data[u[i]]]]
      BY <3>1 DEF Contents
    <3> HIDE DEF c, u, s
    <3>5. c # <<>> /\ Tail(c) = [i \in 1 .. (Len(s) - 1) |-> c[i + 1]]
      <4>1. c # <<>>
        BY <3>1, <3>3
      <4>2. /\ Tail(c) \in Seq(Envelopes) /\ Len(Tail(c)) = Len(s) - 1
            /\ \A i \in 1 .. (Len(s) - 1) : Tail(c)[i] = c[i + 1]
        BY <3>3, <4>1, HeadTailProperties
      <4>3. Tail(c) \in [1 .. (Len(s) - 1) -> Envelopes]
        BY <4>2, LenProperties
      <4> QED BY <4>1, <4>2, <4>3
    <3>6. \A i \in 1 .. (Len(s) - 1) :
             c[i + 1] = [from |-> msg_from[u[i]], data |-> msg_data[u[i]]]
      BY <3>1, <3>3
    <3>7. Contents(u) = Tail(c)
      BY <3>4, <3>5, <3>6
    <3> QED BY <3>5, <3>7 DEF c, u, s
  <2>7. \A p \in Slot : Inbox(p)' = IF p = t THEN Tail(Inbox(p)) ELSE Inbox(p)
    BY <1>3, <2>1, <2>2, <2>3, <2>5, <2>6
  <2>8. Boxes!Take(t)
    BY <1>3, <2>2, <2>6, <2>7 DEF Boxes!Take
  <2> QED BY <2>2, <2>8 DEF Boxes!MailboxNext
<1>8. CASE ~SendFill /\ ~SendEnqueue /\ ~RecvTake
  <2>1. Lists(q)' /\ UNCHANGED ipcVars
    BY <1>1, <1>2, <1>8, QuietSteps DEF IpcNext, Send, Recv
  <2>2. msg_from' = msg_from /\ msg_data' = msg_data
    BY <2>1 DEF ipcVars, poolVars
  <2>3. \A p \in Slot : Contents(q[p])' = Contents(q[p])
    BY <2>2 DEF Contents
  <2> QED BY <1>4, <2>1, <2>3
<1> QED BY <1>5, <1>6, <1>7, <1>8

\* ipc_send and ipc_recv implement FIFO mailboxes that share IPC_POOL_SIZE messages.
THEOREM IpcImplementsMailbox == IpcSpec => ImplementsMailbox
<1>1. IpcInit => Boxes!MailboxInit
  <2> SUFFICES ASSUME IpcInit PROVE [p \in Slot |-> Inbox(p)] = [p \in Slot |-> <<>>]
    BY DEF Boxes!MailboxInit
  <2>1. ASSUME NEW p \in Slot PROVE Inbox(p) = <<>>
    <3>1. <<>> \in Seq(Msg) /\ Chain(msg_queue[p], <<>>) /\ Len(<<>>) = 0
      BY <2>1 DEF IpcInit, Chain
    <3>2. \A n \in Nat : Follow(msg_queue[p], n) = IF n < Len(<<>>) THEN <<>>[n + 1] ELSE NULL
      BY <3>1, FollowIs
    <3>3. \A n \in 0 .. (IPC_POOL_SIZE - 1) : Follow(msg_queue[p], n) = NULL
      BY <3>1, <3>2
    <3>4. Queued(p) = {}
      BY <3>3 DEF Queued
    <3>5. Cardinality(Queued(p)) = 0
      BY <3>4, FS_EmptySet
    <3> QED BY <3>5 DEF Inbox
  <2> QED BY <2>1
<1>2. IpcInv /\ QueueInv /\ InboxesRead /\ InboxesRead' /\ [IpcNext]_allVars
        => [Boxes!MailboxNext]_([p \in Slot |-> Inbox(p)])
  BY StepIsMailboxStep
<1>3. InboxesRead
  BY InboxIs
<1> QED BY <1>1, <1>2, <1>3, IpcInvariant, QueueInvariant, PTL
        DEF IpcSpec, ImplementsMailbox, Boxes!MailboxSpec
=============================================================================
