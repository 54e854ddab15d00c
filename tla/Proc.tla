-------------------------------- MODULE Proc --------------------------------
(***************************************************************************)
(* The process manager of the kernel: the process table, the round-robin   *)
(* scheduler, sleeping and waking, exit, and the hardware path it depends   *)
(* on (the timer interrupt, the interrupt flag, the in-service bit of the   *)
(* PIC and the context switch).                                            *)
(*                                                                         *)
(*   kernel/proc/proc.c                 table, schedule(), sleep, exit     *)
(*   kernel/arch/x86_64/idt.c           interrupt_dispatch()               *)
(*   kernel/arch/x86_64/context.asm     switch_context                     *)
(*   kernel/proc/proc_entry*.asm        first instructions of a process    *)
(*   kernel/main.c                      kernel_main(): creation and start  *)
(*                                                                         *)
(* There is one CPU, so at any instant only current_proc executes.  A call *)
(* into the kernel (proc_yield, proc_sleep, proc_exit, proc_wakeup) is one *)
(* action: it can only be interrupted where iflag /\ ~in_service holds, a   *)
(* call changes neither before it switches, and TimerOnlyInIdle below says *)
(* that no process other than the idle loop, which makes no calls, ever    *)
(* runs in such a state.                                                   *)
(***************************************************************************)
EXTENDS Integers, FiniteSetsExt

CONSTANTS PROC_MAX,   \* slots of proc_table (64 in kernel.h)
          SLICE,      \* ticks between two calls of schedule() by the timer (10)
          PIT_HZ,     \* timer frequency (100)
          WORD,       \* 2^(width of uint64_t): ms * PIT_HZ wraps at it
          SleepMs     \* the arguments processes call proc_sleep with, in ms

ASSUME ProcMaxAssumption == PROC_MAX \in Nat \ {0}
ASSUME SliceAssumption == SLICE \in Nat \ {0}
ASSUME SleepAssumption == /\ PIT_HZ \in Nat \ {0}
                          /\ WORD \in Nat \ {0}
                          /\ SleepMs \subseteq Nat

VARIABLES phase,         \* "boot": before sti(); "run"; "panic": halted for ever
          proc_state,    \* proc_table[i].state
          pid,           \* proc_table[i].pid
          next_pid,      \* the pid counter
          is_user,       \* proc_table[i].is_user
          started,       \* proc_table[i].started
          sleep_ticks,   \* proc_table[i].sleep_ticks
          current_proc,  \* slot of the current process, or NULL
          ticks,         \* the tick counter, modulo SLICE
          iflag,         \* RFLAGS.IF
          in_service,    \* IRQ0 raised and no EOI sent yet: the PIC holds it back
          rsp0,          \* slot whose kernel stack the TSS names, or NULL
          ctx,           \* where the saved context of a process resumes
          sys            \* progress of a user process through int 0x80

tableVars == <<pid, next_pid, is_user>>
cpuVars   == <<current_proc, iflag, in_service, rsp0, ctx, started>>
vars      == <<phase, proc_state, tableVars, sleep_ticks, cpuVars, ticks, sys>>

Slot == 0 .. (PROC_MAX - 1)
NULL == -1

\* kernel_main creates the idle process first, so it owns slot 0.
IDLE == 0

States == {"UNUSED", "READY", "RUNNING", "SLEEPING", "ZOMBIE"}

\* entry: proc_entrypoint or proc_entry_user, not run yet; run: it is the one
\* executing; irq: inside schedule() called by the timer handler; call: inside
\* schedule() called by the process itself.
Contexts == {"entry", "run", "irq", "call"}

\* none: in its own code; dispatch: syscall_handler has still to act;
\* return: only the way back to ring 3 (iretq) is left.
SysStates == {"none", "dispatch", "return"}

\* The PIC lets IRQ0 alone through, nothing is in service yet, and IF is clear.
pic_init == iflag = FALSE /\ in_service = FALSE

\* proc_init, with everything else as the loader leaves it in .bss; interrupts
\* are off until kernel_main executes sti().
Init ==
    /\ phase = "boot"
    /\ proc_state = [p \in Slot |-> "UNUSED"]
    /\ pid = [p \in Slot |-> 0]
    /\ next_pid = 1
    /\ is_user = [p \in Slot |-> FALSE]
    /\ started = [p \in Slot |-> FALSE]
    /\ sleep_ticks = [p \in Slot |-> 0]
    /\ current_proc = NULL
    /\ ticks = 0
    /\ pic_init
    /\ rsp0 = NULL
    /\ ctx = [p \in Slot |-> "entry"]
    /\ sys = [p \in Slot |-> "none"]

-----------------------------------------------------------------------------
(* Creation: only kernel_main creates processes, before interrupts are on. *)

Unused == {p \in Slot : proc_state[p] = "UNUSED"}

\* alloc_proc and alloc_proc_slot: the first UNUSED slot of the table.
alloc_proc == Min(Unused)

\* The part of proc_create and proc_create_elf that the scheduler sees.
NewProcess(p) ==
    /\ proc_state' = [proc_state EXCEPT ![p] = "READY"]
    /\ pid' = [pid EXCEPT ![p] = next_pid]
    /\ next_pid' = next_pid + 1
    /\ sleep_ticks' = [sleep_ticks EXCEPT ![p] = 0]
    /\ UNCHANGED <<phase, current_proc, iflag, in_service, rsp0, ctx, ticks,
                   sys>>

\* A kernel thread: proc_entrypoint enables interrupts and calls its entry.
proc_create ==
    /\ phase = "boot"
    /\ Unused # {}
    /\ NewProcess(alloc_proc)
    /\ UNCHANGED <<is_user, started>>

\* A user process, which enters ring 3 through proc_entry_user.  kernel_main
\* creates the idle thread before any other process.
proc_create_elf ==
    /\ phase = "boot"
    /\ proc_state[IDLE] # "UNUSED"
    /\ Unused # {}
    /\ NewProcess(alloc_proc)
    /\ is_user' = [is_user EXCEPT ![alloc_proc] = TRUE]
    /\ started' = [started EXCEPT ![alloc_proc] = FALSE]

Panic ==
    /\ phase' = "panic"
    /\ iflag' = FALSE
    /\ UNCHANGED <<proc_state, tableVars, sleep_ticks, current_proc, in_service,
                   rsp0, ctx, started, ticks, sys>>

\* A full table or no memory for a stack or a page table: kernel_main panics on
\* the NULL result, alloc_kernel_stack_for_proc and proc_create_elf themselves.
CreateFails == phase = "boot" /\ Panic

\* kernel_main becomes the idle process and enables interrupts.
StartScheduler ==
    /\ phase = "boot"
    /\ proc_state[IDLE] # "UNUSED"
    /\ phase' = "run"
    /\ current_proc' = IDLE
    /\ proc_state' = [proc_state EXCEPT ![IDLE] = "RUNNING"]
    /\ ctx' = [ctx EXCEPT ![IDLE] = "run"]
    /\ iflag' = TRUE
    /\ UNCHANGED <<tableVars, sleep_ticks, in_service, rsp0, started, ticks, sys>>

-----------------------------------------------------------------------------
(* schedule() and switch_context *)

\* Distances, in slots after start, at which schedule() meets a READY process;
\* the last one, PROC_MAX, is the current process itself.
Candidates(st, start) ==
    {n \in 1 .. PROC_MAX : st[(start + n) % PROC_MAX] = "READY"}

\* Mutant: the search starts at slot 0 every time, a fixed priority.
NextReadyFromZero(st, start) ==
    LET others == {p \in Slot \ {start} : st[p] = "READY"}
    IN  IF others = {} THEN start ELSE Min(others)

NextReady(st, start) == (start + Min(Candidates(st, start))) % PROC_MAX

\* Mutant: the process that gives way keeps its RUNNING state.
DemoteNothing(st) == st

DemoteRunning(st) ==
    [p \in Slot |-> IF p = current_proc /\ st[p] = "RUNNING" THEN "READY" ELSE st[p]]

\* Mutant: the TSS keeps the stack of the process that ran before.
KeepRsp0(p) == rsp0

\* gdt_set_tss_rsp0(p->kernel_rsp): each process has a stack of its own.
gdt_set_tss_rsp0(p) == p

\* Mutant: the EOI is not sent when the suspended handler is resumed.
NoEoi(serving, resumes) == serving

\* Whether IRQ0 is in service once a process has resumed: only the tail of the
\* timer handler, after sched_tick, sends the EOI.
pic_send_eoi(serving, resumes) == serving /\ resumes # "irq"

\* proc_entrypoint executes sti, proc_entry_user an iretq with IF set, and the tail
\* of the timer handler the iretq of the interrupted process.
EnablesInterrupts(resumes) == resumes \in {"entry", "irq"}

\* switch_context(&old->context, &p->context) after the assignments of
\* schedule().  RFLAGS is not part of the saved context: a process resumed in
\* the middle of a call inherits the flag of the one that gave way.  One that
\* the timer had suspended returns from sched_tick and sends the EOI.
switch_context(st, p, why, serving) ==
    LET resumes == IF p = current_proc THEN why ELSE ctx[p]
    IN  /\ current_proc' = p
        /\ proc_state' = [st EXCEPT ![p] = "RUNNING"]
        /\ rsp0' = gdt_set_tss_rsp0(p)
        /\ started' = [started EXCEPT ![p] = @ \/ is_user[p]]
        /\ ctx' = [q \in Slot |-> CASE q = p -> "run"
                                    [] q = current_proc /\ q # p -> why
                                    [] OTHER -> ctx[q]]
        /\ iflag' = (EnablesInterrupts(resumes) \/ (why # "irq" /\ iflag))
        /\ in_service' = pic_send_eoi(serving, resumes)

\* schedule(), called with the process states st, by the timer handler
\* (why = "irq") or by the process itself (why = "call").  When nothing is
\* READY it returns to its caller, which carries on whatever its state.
schedule(st, why, serving) ==
    LET demoted == DemoteRunning(st)
    IN  IF Candidates(demoted, current_proc) # {}
        THEN switch_context(demoted, NextReady(demoted, current_proc), why, serving)
        ELSE /\ proc_state' = IF demoted[current_proc] = "READY"
                              THEN [demoted EXCEPT ![current_proc] = "RUNNING"]
                              ELSE demoted
             /\ UNCHANGED cpuVars

-----------------------------------------------------------------------------
(* The timer interrupt *)

\* Mutant: off by one, the last tick is never counted.
CountdownStopsAtOne(p) == IF proc_state[p] = "SLEEPING" /\ sleep_ticks[p] > 1
                          THEN sleep_ticks[p] - 1 ELSE sleep_ticks[p]

\* sched_tick: count the sleepers down; those that reach 0 become READY.
Countdown(p) == IF proc_state[p] = "SLEEPING" /\ sleep_ticks[p] > 0
                THEN sleep_ticks[p] - 1 ELSE sleep_ticks[p]
WakeExpired(p) == IF proc_state[p] = "SLEEPING" /\ Countdown(p) = 0
                  THEN "READY" ELSE proc_state[p]

\* Mutant: the EOI is sent before sched_tick(), as most kernels do.
EoiFirst == FALSE

\* Is IRQ0 still in service when the timer handler calls schedule()?  It is:
\* pic_send_eoi comes after sched_tick() in interrupt_dispatch.
ServingInTick == TRUE

\* IRQ0: ticks++, sched_tick(), and only then, when control comes back to this
\* very handler, pic_send_eoi and iretq.  A switch of process therefore leaves
\* the interrupt in service.
timer_interrupt ==
    /\ phase = "run" /\ iflag /\ ~in_service
    /\ ticks' = (ticks + 1) % SLICE
    /\ sleep_ticks' = [p \in Slot |-> Countdown(p)]
    /\ IF (ticks + 1) % SLICE = 0
       THEN schedule([p \in Slot |-> WakeExpired(p)], "irq", ServingInTick)
       ELSE /\ proc_state' = [p \in Slot |-> WakeExpired(p)]
            /\ UNCHANGED cpuVars
    /\ UNCHANGED <<phase, tableVars, sys>>

-----------------------------------------------------------------------------
(* Calls made by the current process: directly by a kernel thread, through *)
(* int 0x80 by a user process.  The idle loop of kernel_main makes none.   *)

\* int 0x80 is an interrupt gate: the CPU clears IF.
int80 ==
    /\ phase = "run"
    /\ current_proc # IDLE /\ is_user[current_proc] /\ sys[current_proc] = "none"
    /\ sys' = [sys EXCEPT ![current_proc] = "dispatch"]
    /\ iflag' = FALSE
    /\ UNCHANGED <<phase, proc_state, tableVars, sleep_ticks, current_proc,
                   in_service, rsp0, ctx, started, ticks>>

\* The end of isr_common: iretq restores the flags of the user process.
iretq ==
    /\ phase = "run"
    /\ current_proc # IDLE /\ sys[current_proc] = "return"
    /\ sys' = [sys EXCEPT ![current_proc] = "none"]
    /\ iflag' = TRUE
    /\ UNCHANGED <<phase, proc_state, tableVars, sleep_ticks, current_proc,
                   in_service, rsp0, ctx, started, ticks>>

\* The current process is at a point where it calls into the kernel.
InKernel ==
    /\ phase = "run"
    /\ current_proc # IDLE
    /\ is_user[current_proc] => sys[current_proc] = "dispatch"

\* The handler is done: a user process has only the way back left.
HandlerDone ==
    sys' = [sys EXCEPT ![current_proc] = IF is_user[current_proc] THEN "return"
                                                                  ELSE @]

\* SYS_WRITE, SYS_GETPID, SYS_GETPPID, an unknown number, or an error return.
other_syscall ==
    /\ InKernel
    /\ HandlerDone
    /\ UNCHANGED <<phase, proc_state, tableVars, sleep_ticks, cpuVars, ticks>>

proc_yield ==
    /\ InKernel
    /\ schedule(proc_state, "call", in_service)
    /\ HandlerDone
    /\ UNCHANGED <<phase, tableVars, sleep_ticks, ticks>>

\* Mutant: the product is taken in int64_t.
SleepTicksSigned(ms) ==
    LET p == (ms * PIT_HZ) % WORD
        t == (IF 2 * p < WORD THEN p ELSE p - WORD) \div 1000
    IN  IF t = 0 THEN 1 ELSE t

\* The tick count proc_sleep computes, in uint64_t arithmetic.
SleepTicks(ms) ==
    LET t == ((ms * PIT_HZ) % WORD) \div 1000 IN IF t = 0 THEN 1 ELSE t

\* The body of proc_sleep; its caller says how its own handler goes on.
SleepFor(ms) ==
    /\ InKernel
    /\ sleep_ticks' = [sleep_ticks EXCEPT ![current_proc] = SleepTicks(ms)]
    /\ schedule([proc_state EXCEPT ![current_proc] = "SLEEPING"], "call", in_service)
    /\ UNCHANGED <<phase, tableVars, ticks>>

proc_sleep(ms) == SleepFor(ms) /\ HandlerDone

\* The proc_sleep(10) of ipc_recv: its loop goes on after it, so the handler is
\* not done.
recv_sleep == SleepFor(10) /\ UNCHANGED sys

\* proc_exit: the slot stays ZOMBIE, nothing in the kernel reaps it.
proc_exit ==
    /\ InKernel
    /\ schedule([proc_state EXCEPT ![current_proc] = "ZOMBIE"], "call", in_service)
    /\ HandlerDone
    /\ UNCHANGED <<phase, tableVars, sleep_ticks, ticks>>

\* Mutants: proc_wakeup does not ask whether its target sleeps, or forgets it.
WokenAlways(p) == [proc_state EXCEPT ![p] = "READY"]
WokenNever(p) == proc_state

\* The states after proc_wakeup(p); sleep_ticks keeps what was left of it.
Woken(p) == IF proc_state[p] = "SLEEPING" THEN [proc_state EXCEPT ![p] = "READY"]
                                          ELSE proc_state

\* ipc_send wakes its target once the message is queued.
proc_wakeup(p) ==
    /\ InKernel
    /\ proc_state[p] # "UNUSED"
    /\ proc_state' = Woken(p)
    /\ HandlerDone
    /\ UNCHANGED <<phase, tableVars, sleep_ticks, cpuVars, ticks>>

\* A CPU exception, in a user process or in a kernel thread: interrupt_dispatch
\* panics for every one of them.
exception ==
    /\ phase = "run"
    /\ current_proc # IDLE
    /\ Panic

\* panic() never returns: cli, then hlt in a loop.
Halted == phase = "panic" /\ UNCHANGED vars

-----------------------------------------------------------------------------
SleepCalls == recv_sleep \/ \E ms \in SleepMs : proc_sleep(ms)

Next ==
    \/ proc_create \/ proc_create_elf \/ CreateFails \/ StartScheduler
    \/ timer_interrupt
    \/ int80 \/ iretq \/ other_syscall
    \/ proc_yield \/ SleepCalls \/ proc_exit
    \/ \E p \in Slot : proc_wakeup(p)
    \/ exception \/ Halted

Spec == Init /\ [][Next]_vars

-----------------------------------------------------------------------------
(* Safety *)

\* Every variable holds a value the code can give it.
TypeOK ==
    /\ phase \in {"boot", "run", "panic"}
    /\ proc_state \in [Slot -> States]
    /\ pid \in [Slot -> Nat]
    /\ next_pid \in Nat
    /\ is_user \in [Slot -> BOOLEAN]
    /\ started \in [Slot -> BOOLEAN]
    /\ sleep_ticks \in [Slot -> Nat]
    /\ current_proc \in Slot \cup {NULL}
    /\ ticks \in 0 .. (SLICE - 1)
    /\ iflag \in BOOLEAN
    /\ in_service \in BOOLEAN
    /\ rsp0 \in Slot \cup {NULL}
    /\ ctx \in [Slot -> Contexts]
    /\ sys \in [Slot -> SysStates]

\* The current process, and it alone, is RUNNING: schedule() never returns to a
\* process that has just gone to sleep or exited (its search cannot fail, the
\* idle process is always there to be found), and no process that lost the CPU
\* is forgotten in the RUNNING state, where no search would find it again.
CurrentRunning == \A p \in Slot : proc_state[p] = "RUNNING" <=> p = current_proc

\* Because the EOI waits for the suspended handler to be resumed, and the idle
\* process is the only one ever suspended in it, the timer is held back exactly
\* while another process runs: such a process is never preempted, which is what
\* makes the unlocked kernel data (msg_alloc, the process table) consistent.
TimerOnlyInIdle == phase = "run" => (in_service <=> current_proc # IDLE)

\* The idle process only waits for interrupts (hlt), so it must never run with
\* the timer held back or IF clear: the machine would stop for ever.
IdleInterruptible ==
    phase = "run" /\ current_proc = IDLE => iflag /\ ~in_service

\* A user process in its own code can be interrupted, and it enters the kernel
\* on its own stack: the TSS never names the stack of another process, whose
\* suspended frames would be overwritten.
UserTrapsOnOwnStack ==
    phase = "run" /\ is_user[current_proc]
        => /\ rsp0 = current_proc
           /\ sys[current_proc] = "none" => iflag

\* proc_exit does not return ("not reached" in syscall_handler): an exited
\* process is never READY again, whatever messages are sent to it, and never runs.
ExitIsFinal ==
    [][\A p \in Slot : proc_state[p] = "ZOMBIE" =>
           proc_state'[p] = "ZOMBIE" /\ current_proc' # p]_vars

-----------------------------------------------------------------------------
(* Liveness.  The timer keeps ticking and interrupt handlers run to their  *)
(* end; nothing makes a process give the CPU up but itself.                *)

GiveUp == proc_yield \/ SleepCalls \/ proc_exit

\* The handler of a system call runs to its end: nothing stops it with IF clear.
HandlerStep ==
    /\ phase = "run" /\ is_user[current_proc]
    /\ GiveUp \/ other_syscall \/ \E p \in Slot : proc_wakeup(p)

HardwareFairness ==
    /\ WF_vars(timer_interrupt)
    /\ WF_vars(iretq)
    /\ WF_vars(HandlerStep)

TimerSpec == Spec /\ HardwareFairness

\* No starvation among processes that cooperate: every READY process runs.
ReadyRuns ==
    \A p \in Slot : phase = "run" /\ proc_state[p] = "READY"
                        ~> proc_state[p] = "RUNNING" \/ phase = "panic"

\* Every sleep ends, although time stands still while another process runs.
SleepEnds ==
    \A p \in Slot : proc_state[p] = "SLEEPING"
                        ~> proc_state[p] # "SLEEPING" \/ phase = "panic"

\* proc.c:252 says of sched_tick that the end of a time slice schedules (10
\* ticks, 100 ms): a process does not keep the CPU for ever while another waits.
TimesliceEnds ==
    \A p, q \in Slot \ {IDLE} :
        current_proc = p /\ p # q /\ proc_state[q] = "READY" /\ phase = "run"
            ~> current_proc # p \/ proc_state[q] # "READY" \/ phase = "panic"
=============================================================================
