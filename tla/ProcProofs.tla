----------------------------- MODULE ProcProofs -----------------------------
(***************************************************************************)
(* Proofs about the process manager, for every size of the process table    *)
(* and every length of the time slice: type correctness and the safety      *)
(* properties of module Proc.                                              *)
(***************************************************************************)
EXTENDS RoundRobin, SearchLemmas

-----------------------------------------------------------------------------
(* The inductive invariant *)

\* While kernel_main creates processes nothing runs and nothing has run.
BootInv ==
    phase = "boot" =>
        /\ current_proc = NULL
        /\ ~in_service
        /\ \A p \in Slot : /\ proc_state[p] \in {"UNUSED", "READY"}
                           /\ ctx[p] = "entry"
                           /\ sys[p] = "none"

\* Once interrupts are on: the idle process can always be dispatched, it is the
\* only one suspended inside the timer handler, and a user process suspended in
\* a call is inside a system call.
RunInv ==
    phase = "run" =>
        /\ current_proc \in Slot
        /\ proc_state[IDLE] \in {"READY", "RUNNING"}
        /\ \A p \in Slot : ctx[p] = "run" <=> p = current_proc
        /\ current_proc # IDLE => ctx[IDLE] = "irq"
        /\ \A p \in Slot \ {IDLE} : ctx[p] # "irq"
        /\ \A p \in Slot : is_user[p] /\ ctx[p] = "call" => sys[p] # "none"

ProcInv ==
    /\ TypeOK
    /\ ~is_user[IDLE]
    /\ CurrentRunning
    /\ BootInv
    /\ RunInv
    /\ TimerOnlyInIdle
    /\ IdleInterruptible
    /\ UserTrapsOnOwnStack
-----------------------------------------------------------------------------
(* The search of schedule() *)

\* The index of schedule()'s loop, (start + n) % PROC_MAX, written without %.
LEMMA LoopIndex ==
    ASSUME NEW c \in Slot, NEW n \in 1 .. PROC_MAX
    PROVE  /\ (c + n) % PROC_MAX = IF c + n < PROC_MAX THEN c + n ELSE c + n - PROC_MAX
           /\ (c + n) % PROC_MAX \in Slot
           /\ Distance(c, (c + n) % PROC_MAX) = n
<1>1. PICK a \in 0 .. (2 * PROC_MAX - 1) : a = c + n
  BY ProcMaxAssumption DEF Slot
<1>2. a % PROC_MAX = IF a < PROC_MAX THEN a ELSE a - PROC_MAX
  BY OneTurn, ProcMaxAssumption
<1>3. c \in Nat /\ c < PROC_MAX /\ n \in Nat /\ n >= 1 /\ n <= PROC_MAX
  BY ProcMaxAssumption DEF Slot
<1>4. /\ a % PROC_MAX \in Slot
      /\ Distance(c, a % PROC_MAX) = n
  BY <1>1, <1>2, <1>3, ProcMaxAssumption DEF Slot, Distance
<1> QED BY <1>1, <1>2, <1>3, <1>4, ProcMaxAssumption

\* Every slot is met by the loop, at its distance.
LEMMA LoopReaches ==
    ASSUME NEW c \in Slot, NEW q \in Slot
    PROVE  /\ Distance(c, q) \in 1 .. PROC_MAX
           /\ (c + Distance(c, q)) % PROC_MAX = q
<1>1. Distance(c, q) \in 1 .. PROC_MAX
  BY ProcMaxAssumption DEF Slot, Distance
<1>2. c + Distance(c, q) = q \/ c + Distance(c, q) = q + PROC_MAX
  BY ProcMaxAssumption DEF Slot, Distance
<1>3. PICK a \in 0 .. (2 * PROC_MAX - 1) : a = c + Distance(c, q)
  BY <1>1, ProcMaxAssumption DEF Slot
<1>4. a % PROC_MAX = IF a < PROC_MAX THEN a ELSE a - PROC_MAX
  BY OneTurn, ProcMaxAssumption
<1>5. (a < PROC_MAX => a = q) /\ (~(a < PROC_MAX) => a - PROC_MAX = q)
  BY <1>2, <1>3, ProcMaxAssumption DEF Slot
<1>6. a % PROC_MAX = q
  BY <1>4, <1>5
<1> QED BY <1>1, <1>3, <1>6

\* If any process is READY the search finds one, and it finds the nearest.
LEMMA SearchFindsNearest ==
    ASSUME NEW st \in [Slot -> States], NEW c \in Slot, NEW r \in Slot, st[r] = "READY"
    PROVE  /\ Candidates(st, c) # {}
           /\ NextReady(st, c) \in Slot
           /\ st[NextReady(st, c)] = "READY"
           /\ \A q \in Slot : st[q] = "READY" =>
                 Distance(c, NextReady(st, c)) <= Distance(c, q)
<1> DEFINE C == Candidates(st, c)
<1>1. ASSUME NEW q \in Slot, st[q] = "READY" PROVE Distance(c, q) \in C
  BY <1>1, LoopReaches DEF Candidates
<1>2. C # {} /\ C \in SUBSET Nat
  BY <1>1, ProcMaxAssumption DEF Candidates
<1>3. Min(C) \in C /\ \A n \in C : Min(C) <= n
  <2> HIDE DEF C
  <2> QED BY <1>2, MinIsLeast
<1>4. Min(C) \in 1 .. PROC_MAX /\ st[(c + Min(C)) % PROC_MAX] = "READY"
  BY <1>3 DEF Candidates
<1>5. NextReady(st, c) \in Slot /\ Distance(c, NextReady(st, c)) = Min(C)
  BY <1>4, LoopIndex DEF NextReady
<1>6. st[NextReady(st, c)] = "READY"
  BY <1>4 DEF NextReady
<1> HIDE DEF C
<1> QED BY <1>1, <1>2, <1>3, <1>5, <1>6 DEF C

-----------------------------------------------------------------------------
(* schedule() *)

\* The states schedule() is called with: typed, the current process is the only
\* one that may be RUNNING, and the idle process is READY or is the current one.
CallerOK(st) ==
    /\ st \in [Slot -> States]
    /\ \A p \in Slot : st[p] = "RUNNING" => p = current_proc
    /\ st[IDLE] = "READY" \/ (st[IDLE] = "RUNNING" /\ current_proc = IDLE)

\* The timer handler calls schedule() from the idle process, with the interrupt
\* in service; any other call comes from another process.
Caller(why, serving) ==
    \/ why = "irq" /\ serving = TRUE /\ current_proc = IDLE /\ sys' = sys
    \/ /\ why = "call" /\ serving = in_service /\ current_proc # IDLE
       /\ is_user[current_proc] => sys'[current_proc] # "none"
       /\ \A p \in Slot \ {current_proc} : sys'[p] = sys[p]

\* Slot 0 exists in every table, and the null pointer is no slot.
LEMMA IdleIsSlot == IDLE \in Slot /\ NULL \notin Slot
  BY ProcMaxAssumption DEF IDLE, Slot, NULL

\* schedule() always switches: it never comes back to a caller that sleeps or has
\* exited, because the idle process is there to be found.
LEMMA ScheduleSwitches ==
    ASSUME NEW st, NEW why, NEW serving, current_proc \in Slot, CallerOK(st),
           schedule(st, why, serving)
    PROVE  \E p \in Slot :
              /\ DemoteRunning(st)[p] = "READY"
              /\ \A q \in Slot : DemoteRunning(st)[q] = "READY" =>
                    Distance(current_proc, p) <= Distance(current_proc, q)
              /\ switch_context(DemoteRunning(st), p, why, serving)
<1> DEFINE d == DemoteRunning(st)
<1>1. d \in [Slot -> States] /\ d[IDLE] = "READY"
  BY IdleIsSlot DEF CallerOK, DemoteRunning, States
<1> HIDE DEF d
<1>2. /\ Candidates(d, current_proc) # {}
      /\ NextReady(d, current_proc) \in Slot
      /\ d[NextReady(d, current_proc)] = "READY"
      /\ \A q \in Slot : d[q] = "READY" =>
            Distance(current_proc, NextReady(d, current_proc)) <= Distance(current_proc, q)
  BY <1>1, IdleIsSlot, SearchFindsNearest
<1>3. switch_context(d, NextReady(d, current_proc), why, serving)
  BY <1>2 DEF schedule, d
<1> QED BY <1>2, <1>3 DEF d

\* What schedule() establishes, whoever calls it.
LEMMA ScheduleKeeps ==
    ASSUME ProcInv, phase = "run", phase' = "run", is_user' = is_user,
           NEW st, NEW why, NEW serving, CallerOK(st), Caller(why, serving),
           schedule(st, why, serving)
    PROVE  /\ proc_state' \in [Slot -> States]
           /\ current_proc' \in Slot /\ rsp0' \in Slot
           /\ iflag' \in BOOLEAN /\ in_service' \in BOOLEAN
           /\ ctx' \in [Slot -> Contexts] /\ started' \in [Slot -> BOOLEAN]
           /\ CurrentRunning' /\ RunInv'
           /\ TimerOnlyInIdle' /\ IdleInterruptible' /\ UserTrapsOnOwnStack'
<1>1. current_proc \in Slot
  BY DEF ProcInv, RunInv
<1> DEFINE d == DemoteRunning(st)
<1>2. PICK p \in Slot : d[p] = "READY" /\ switch_context(d, p, why, serving)
  BY <1>1, ScheduleSwitches
<1>3. /\ d \in [Slot -> States]
      /\ \A q \in Slot : d[q] # "RUNNING"
      /\ d[IDLE] = "READY"
  BY IdleIsSlot DEF CallerOK, DemoteRunning, States
<1> HIDE DEF d
<1>4. /\ current_proc' = p /\ rsp0' = p
      /\ proc_state' = [d EXCEPT ![p] = "RUNNING"]
  BY <1>2 DEF switch_context, gdt_set_tss_rsp0
<1>5. proc_state' \in [Slot -> States] /\ CurrentRunning'
  BY <1>3, <1>4 DEF CurrentRunning, States
<1>6. proc_state'[IDLE] \in {"READY", "RUNNING"}
  BY <1>3, <1>4, IdleIsSlot
<1>7. started' \in [Slot -> BOOLEAN]
  BY <1>2 DEF switch_context, ProcInv, TypeOK
<1>8. why \in {"irq", "call"}
  BY DEF Caller
<1>9. ctx' = [q \in Slot |-> CASE q = p -> "run"
                               [] q = current_proc /\ q # p -> why
                               [] OTHER -> ctx[q]]
  BY <1>2 DEF switch_context
<1>10. ctx' \in [Slot -> Contexts]
  BY <1>8, <1>9 DEF ProcInv, TypeOK, Contexts
<1>11. \A q \in Slot : ctx'[q] = "run" <=> q = p
  BY <1>1, <1>8, <1>9 DEF ProcInv, RunInv
<1>12. p # IDLE => ctx'[IDLE] = "irq"
  BY <1>1, <1>9, IdleIsSlot DEF ProcInv, RunInv, Caller
<1>13. \A q \in Slot \ {IDLE} : ctx'[q] # "irq"
  BY <1>1, <1>9 DEF ProcInv, RunInv, Caller
<1>14. \A q \in Slot : is_user'[q] /\ ctx'[q] = "call" => sys'[q] # "none"
  BY <1>1, <1>9 DEF ProcInv, RunInv, Caller
<1>15. RunInv'
  BY <1>4, <1>6, <1>11, <1>12, <1>13, <1>14 DEF RunInv
<1> DEFINE resumes == IF p = current_proc THEN why ELSE ctx[p]
<1>16. /\ iflag' = (resumes \in {"entry", "irq"} \/ (why # "irq" /\ iflag))
       /\ in_service' = (serving /\ resumes # "irq")
  BY <1>2 DEF switch_context, EnablesInterrupts, pic_send_eoi
<1>17. resumes = "irq" <=> p = IDLE
  BY <1>1, IdleIsSlot DEF ProcInv, RunInv, Caller
<1>18. iflag' \in BOOLEAN /\ in_service' \in BOOLEAN
  BY <1>16 DEF ProcInv, TypeOK, Caller
<1>19. serving = TRUE
  BY DEF Caller, ProcInv, TimerOnlyInIdle, TypeOK
<1>20. TimerOnlyInIdle' /\ IdleInterruptible'
  BY <1>4, <1>16, <1>17, <1>19 DEF TimerOnlyInIdle, IdleInterruptible
<1>21. ASSUME is_user[p], sys'[p] = "none" PROVE iflag'
  <2>1. p # IDLE
    BY <1>21 DEF ProcInv
  <2>2. p # current_proc
    BY <1>21, <2>1 DEF Caller
  <2>3. ctx[p] # "call" /\ ctx[p] # "run"
    BY <1>21, <2>2, <1>1 DEF Caller, ProcInv, RunInv
  <2>4. ctx[p] = "entry" \/ ctx[p] = "irq"
    BY <2>3 DEF ProcInv, TypeOK, Contexts
  <2> QED BY <2>2, <2>4, <1>16
<1>22. UserTrapsOnOwnStack'
  BY <1>4, <1>21 DEF UserTrapsOnOwnStack
<1> QED BY <1>4, <1>5, <1>7, <1>10, <1>15, <1>18, <1>20, <1>22

-----------------------------------------------------------------------------
(* One lemma per action, or per kind of action *)

\* The boot state, with an empty table and interrupts off, is in the invariant.
LEMMA InitEstablishes == Init => ProcInv
<1> SUFFICES ASSUME Init PROVE ProcInv
  OBVIOUS
<1>1. TypeOK
  <2>1. /\ phase \in {"boot", "run", "panic"}
        /\ proc_state \in [Slot -> States]
        /\ pid \in [Slot -> Nat] /\ next_pid \in Nat
        /\ is_user \in [Slot -> BOOLEAN] /\ started \in [Slot -> BOOLEAN]
        /\ sleep_ticks \in [Slot -> Nat]
    BY DEF Init, pic_init, States
  <2>2. /\ current_proc \in Slot \cup {NULL} /\ rsp0 \in Slot \cup {NULL}
        /\ iflag \in BOOLEAN /\ in_service \in BOOLEAN
        /\ ctx \in [Slot -> Contexts] /\ sys \in [Slot -> SysStates]
    BY DEF Init, pic_init, Contexts, SysStates
  <2>3. ticks \in 0 .. (SLICE - 1)
    BY SliceAssumption DEF Init, pic_init
  <2> QED BY <2>1, <2>2, <2>3 DEF TypeOK
<1>2. ~is_user[IDLE] /\ CurrentRunning
  BY IdleIsSlot DEF Init, CurrentRunning
<1> QED BY <1>1, <1>2 DEF Init, pic_init, ProcInv, BootInv, RunInv, TimerOnlyInIdle,
                          IdleInterruptible, UserTrapsOnOwnStack

\* A new process takes a slot that nobody uses.
LEMMA AllocFindsUnused ==
    ASSUME Unused # {}
    PROVE  alloc_proc \in Slot /\ proc_state[alloc_proc] = "UNUSED"
<1>1. Unused \in SUBSET Nat
  BY ProcMaxAssumption DEF Unused, Slot
<1>2. alloc_proc \in Unused
  BY <1>1, MinIsLeast DEF alloc_proc
<1> QED BY <1>2 DEF Unused

\* proc_create and proc_create_elf fill a slot that nothing else refers to.
LEMMA CreateKeeps == ProcInv /\ (proc_create \/ proc_create_elf) => ProcInv'
<1> SUFFICES ASSUME ProcInv, proc_create \/ proc_create_elf PROVE ProcInv'
  OBVIOUS
<1> DEFINE p == alloc_proc
<1>1. /\ phase = "boot" /\ NewProcess(p)
      /\ p \in Slot /\ proc_state[p] = "UNUSED"
  BY AllocFindsUnused DEF proc_create, proc_create_elf
<1>2. /\ is_user' \in [Slot -> BOOLEAN] /\ started' \in [Slot -> BOOLEAN]
      /\ ~is_user'[IDLE]
  <2>1. CASE proc_create
    BY <2>1 DEF proc_create, ProcInv, TypeOK
  <2>2. CASE proc_create_elf
    BY <2>2, <1>1, IdleIsSlot DEF proc_create_elf, ProcInv, TypeOK
  <2> QED BY <2>1, <2>2
<1> HIDE DEF p
<1>3. TypeOK'
  <2>1. /\ phase' = phase /\ current_proc' = current_proc /\ iflag' = iflag
        /\ in_service' = in_service /\ rsp0' = rsp0 /\ ctx' = ctx
        /\ ticks' = ticks /\ sys' = sys
    BY <1>1 DEF NewProcess
  <2>2. proc_state' \in [Slot -> States]
    BY <1>1 DEF NewProcess, ProcInv, TypeOK, States
  <2>3. pid' \in [Slot -> Nat] /\ next_pid' \in Nat /\ sleep_ticks' \in [Slot -> Nat]
    BY <1>1 DEF NewProcess, ProcInv, TypeOK
  <2> QED BY <1>2, <2>1, <2>2, <2>3 DEF ProcInv, TypeOK
<1>4. CurrentRunning' /\ BootInv'
  BY <1>1, IdleIsSlot DEF NewProcess, ProcInv, TypeOK, BootInv, CurrentRunning
<1> QED BY <1>1, <1>2, <1>3, <1>4
        DEF NewProcess, ProcInv, RunInv, TimerOnlyInIdle, IdleInterruptible,
            UserTrapsOnOwnStack

\* panic() stops the machine and touches no process.
LEMMA PanicKeeps == ProcInv /\ Panic => ProcInv'
  BY DEF Panic, ProcInv, TypeOK, CurrentRunning, BootInv, RunInv, tableVars,
         TimerOnlyInIdle, IdleInterruptible, UserTrapsOnOwnStack

\* kernel_main hands the CPU to the idle process with interrupts on.
LEMMA StartKeeps == ProcInv /\ StartScheduler => ProcInv'
<1> SUFFICES ASSUME ProcInv, StartScheduler PROVE ProcInv'
  OBVIOUS
<1>1. TypeOK'
  BY IdleIsSlot DEF StartScheduler, ProcInv, TypeOK, States, Contexts, tableVars
<1>2. CurrentRunning' /\ BootInv'
  BY IdleIsSlot DEF StartScheduler, ProcInv, TypeOK, BootInv, CurrentRunning
<1>3. RunInv' /\ ~is_user'[IDLE]
  BY IdleIsSlot DEF StartScheduler, ProcInv, TypeOK, BootInv, RunInv, tableVars
<1> QED BY <1>1, <1>2, <1>3
        DEF StartScheduler, ProcInv, BootInv, TimerOnlyInIdle, IdleInterruptible,
            UserTrapsOnOwnStack, tableVars

\* The timer can interrupt the idle process only, and whatever schedule() then
\* picks, the interrupt stays in service until the idle process is back.
LEMMA TimerKeeps == ProcInv /\ timer_interrupt => ProcInv'
<1> SUFFICES ASSUME ProcInv, timer_interrupt PROVE ProcInv'
  OBVIOUS
<1> DEFINE st == [p \in Slot |-> WakeExpired(p)]
<1>1. /\ phase = "run" /\ phase' = "run" /\ iflag /\ ~in_service
      /\ pid' = pid /\ next_pid' = next_pid /\ is_user' = is_user /\ sys' = sys
  BY DEF timer_interrupt, tableVars
<1>2. current_proc = IDLE
  BY <1>1 DEF ProcInv, TimerOnlyInIdle
<1>3. ticks' \in 0 .. (SLICE - 1)
  BY SliceAssumption DEF timer_interrupt, ProcInv, TypeOK
<1>4. sleep_ticks' \in [Slot -> Nat]
  <2>1. \A p \in Slot : Countdown(p) \in Nat
    BY DEF Countdown, ProcInv, TypeOK
  <2> QED BY <2>1 DEF timer_interrupt
<1>5. /\ st \in [Slot -> States]
      /\ \A p \in Slot : st[p] = "RUNNING" <=> proc_state[p] = "RUNNING"
  BY DEF WakeExpired, ProcInv, TypeOK, States
<1>6. CallerOK(st)
  BY <1>2, <1>5, IdleIsSlot DEF CallerOK, ProcInv, CurrentRunning
<1>7. CASE schedule(st, "irq", ServingInTick)
  <2>1. Caller("irq", ServingInTick)
    BY <1>1, <1>2 DEF Caller, ServingInTick
  <2> HIDE DEF st
  <2>2. /\ proc_state' \in [Slot -> States]
        /\ current_proc' \in Slot /\ rsp0' \in Slot
        /\ iflag' \in BOOLEAN /\ in_service' \in BOOLEAN
        /\ ctx' \in [Slot -> Contexts] /\ started' \in [Slot -> BOOLEAN]
        /\ CurrentRunning' /\ RunInv'
        /\ TimerOnlyInIdle' /\ IdleInterruptible' /\ UserTrapsOnOwnStack'
    BY <1>1, <1>6, <1>7, <2>1, ScheduleKeeps
  <2>3. TypeOK' /\ BootInv' /\ ~is_user'[IDLE]
    BY <1>1, <1>3, <1>4, <2>2 DEF ProcInv, TypeOK, BootInv
  <2> QED BY <2>2, <2>3 DEF ProcInv
<1>8. CASE proc_state' = st /\ UNCHANGED cpuVars
  <2> HIDE DEF st
  <2>1. TypeOK' /\ BootInv' /\ ~is_user'[IDLE]
    BY <1>1, <1>3, <1>4, <1>5, <1>8 DEF ProcInv, TypeOK, BootInv, cpuVars
  <2>2. CurrentRunning' /\ RunInv'
    BY <1>1, <1>2, <1>5, <1>8, IdleIsSlot
       DEF ProcInv, CurrentRunning, RunInv, cpuVars
  <2>3. TimerOnlyInIdle' /\ IdleInterruptible' /\ UserTrapsOnOwnStack'
    BY <1>1, <1>8 DEF ProcInv, TimerOnlyInIdle, IdleInterruptible,
                      UserTrapsOnOwnStack, cpuVars
  <2> QED BY <2>1, <2>2, <2>3 DEF ProcInv
<1> QED BY <1>7, <1>8 DEF timer_interrupt

\* int 0x80 and the return from it change the flags of the current process only.
LEMMA GateKeeps == ProcInv /\ (int80 \/ iretq) => ProcInv'
<1> SUFFICES ASSUME ProcInv, int80 \/ iretq PROVE ProcInv'
  OBVIOUS
<1>1. /\ phase = "run" /\ phase' = phase /\ proc_state' = proc_state
      /\ pid' = pid /\ next_pid' = next_pid /\ is_user' = is_user
      /\ sleep_ticks' = sleep_ticks /\ current_proc' = current_proc
      /\ in_service' = in_service /\ rsp0' = rsp0 /\ ctx' = ctx
      /\ started' = started /\ ticks' = ticks /\ current_proc # IDLE
  BY DEF int80, iretq, tableVars
<1>2. current_proc \in Slot
  BY <1>1 DEF ProcInv, RunInv
<1>3. \/ sys' = [sys EXCEPT ![current_proc] = "dispatch"] /\ iflag' = FALSE
      \/ sys' = [sys EXCEPT ![current_proc] = "none"] /\ iflag' = TRUE
  BY DEF int80, iretq
<1>4. sys' \in [Slot -> SysStates] /\ iflag' \in BOOLEAN
  BY <1>2, <1>3 DEF ProcInv, TypeOK, SysStates
<1>5. TypeOK'
  BY <1>1, <1>4 DEF ProcInv, TypeOK
<1>6. CurrentRunning' /\ BootInv' /\ ~is_user'[IDLE] /\ TimerOnlyInIdle'
  BY <1>1 DEF ProcInv, CurrentRunning, BootInv, TimerOnlyInIdle
<1>7. RunInv'
  BY <1>1, <1>2, <1>3 DEF ProcInv, TypeOK, RunInv
<1>8. IdleInterruptible' /\ UserTrapsOnOwnStack'
  BY <1>1, <1>2, <1>3 DEF ProcInv, TypeOK, IdleInterruptible, UserTrapsOnOwnStack
<1> QED BY <1>5, <1>6, <1>7, <1>8 DEF ProcInv

\* The facts every call of a process starts from.
LEMMA InKernelFacts ==
    ASSUME ProcInv, InKernel
    PROVE  /\ phase = "run" /\ current_proc \in Slot \ {IDLE}
           /\ proc_state[current_proc] = "RUNNING"
           /\ proc_state[IDLE] = "READY"
           /\ is_user[current_proc] => sys[current_proc] # "none"
<1>1. current_proc \in Slot \ {IDLE} /\ phase = "run"
  BY DEF InKernel, ProcInv, RunInv
<1> QED BY <1>1, IdleIsSlot DEF InKernel, ProcInv, RunInv, CurrentRunning

\* How the handler of a system call leaves sys.
LEMMA HandlerFacts ==
    ASSUME ProcInv, InKernel, HandlerDone \/ sys' = sys
    PROVE  /\ sys' \in [Slot -> SysStates]
           /\ is_user[current_proc] => sys'[current_proc] # "none"
           /\ \A p \in Slot \ {current_proc} : sys'[p] = sys[p]
<1>1. CASE HandlerDone
  BY <1>1, InKernelFacts DEF HandlerDone, ProcInv, TypeOK, SysStates
<1>2. CASE sys' = sys
  BY <1>2, InKernelFacts DEF ProcInv, TypeOK
<1> QED BY <1>1, <1>2

\* A call that gives the CPU up: the process yields (stays RUNNING until
\* schedule() demotes it), sleeps or exits.
LEMMA GiveUpKeeps ==
    ASSUME ProcInv, InKernel, HandlerDone \/ sys' = sys,
           NEW st, NEW new \in States,
           st = [proc_state EXCEPT ![current_proc] = new],
           schedule(st, "call", in_service),
           UNCHANGED <<phase, tableVars, ticks>>,
           sleep_ticks' \in [Slot -> Nat]
    PROVE  ProcInv'
<1>1. /\ phase = "run" /\ current_proc \in Slot \ {IDLE}
      /\ proc_state[IDLE] = "READY"
  BY InKernelFacts
<1>2. phase' = phase /\ pid' = pid /\ next_pid' = next_pid /\ is_user' = is_user
      /\ ticks' = ticks
  BY DEF tableVars
<1>3. CallerOK(st)
  BY <1>1, IdleIsSlot DEF CallerOK, ProcInv, TypeOK, CurrentRunning
<1>4. Caller("call", in_service) /\ sys' \in [Slot -> SysStates]
  BY <1>1, HandlerFacts DEF Caller
<1>5. /\ proc_state' \in [Slot -> States]
      /\ current_proc' \in Slot /\ rsp0' \in Slot
      /\ iflag' \in BOOLEAN /\ in_service' \in BOOLEAN
      /\ ctx' \in [Slot -> Contexts] /\ started' \in [Slot -> BOOLEAN]
      /\ CurrentRunning' /\ RunInv'
      /\ TimerOnlyInIdle' /\ IdleInterruptible' /\ UserTrapsOnOwnStack'
  BY <1>1, <1>2, <1>3, <1>4, ScheduleKeeps
<1>6. TypeOK' /\ BootInv' /\ ~is_user'[IDLE]
  BY <1>1, <1>2, <1>4, <1>5 DEF ProcInv, TypeOK, BootInv
<1> QED BY <1>5, <1>6 DEF ProcInv

\* proc_sleep computes a number of ticks, whatever wraps.
LEMMA SleepTicksType == \A ms \in Nat : SleepTicks(ms) \in Nat
<1> SUFFICES ASSUME NEW ms \in Nat PROVE SleepTicks(ms) \in Nat
  OBVIOUS
<1>1. ms * PIT_HZ \in Nat
  BY SleepAssumption
<1>2. (ms * PIT_HZ) % WORD \in Nat
  BY <1>1, SleepAssumption
<1>3. ((ms * PIT_HZ) % WORD) \div 1000 \in Nat
  BY <1>2
<1> QED BY <1>3 DEF SleepTicks

\* proc_yield: the caller becomes READY again inside schedule().
LEMMA YieldKeeps == ProcInv /\ proc_yield => ProcInv'
<1> SUFFICES ASSUME ProcInv, proc_yield PROVE ProcInv'
  OBVIOUS
<1>1. InKernel /\ HandlerDone /\ UNCHANGED <<phase, tableVars, ticks>>
  BY DEF proc_yield
<1>2. proc_state = [proc_state EXCEPT ![current_proc] = "RUNNING"]
  BY <1>1, InKernelFacts DEF ProcInv, TypeOK
<1>3. "RUNNING" \in States /\ sleep_ticks' \in [Slot -> Nat]
  BY DEF proc_yield, ProcInv, TypeOK, States
<1>4. schedule(proc_state, "call", in_service)
  BY DEF proc_yield
<1> QED BY <1>1, <1>2, <1>3, <1>4, GiveUpKeeps

\* proc_exit: the caller leaves the CPU as a ZOMBIE.
LEMMA ExitKeeps == ProcInv /\ proc_exit => ProcInv'
<1> SUFFICES ASSUME ProcInv, proc_exit PROVE ProcInv'
  OBVIOUS
<1>1. InKernel /\ HandlerDone /\ UNCHANGED <<phase, tableVars, ticks>>
  BY DEF proc_exit
<1>2. "ZOMBIE" \in States /\ sleep_ticks' \in [Slot -> Nat]
  BY DEF proc_exit, ProcInv, TypeOK, States
<1>3. schedule([proc_state EXCEPT ![current_proc] = "ZOMBIE"], "call", in_service)
  BY DEF proc_exit
<1> QED BY <1>1, <1>2, <1>3, GiveUpKeeps

\* proc_sleep, whoever calls it: the caller leaves the CPU SLEEPING.
LEMMA SleepKeeps ==
    ASSUME ProcInv, NEW ms \in Nat, SleepFor(ms), HandlerDone \/ sys' = sys
    PROVE  ProcInv'
<1>1. InKernel /\ UNCHANGED <<phase, tableVars, ticks>>
  BY DEF SleepFor
<1>2. "SLEEPING" \in States /\ sleep_ticks' \in [Slot -> Nat]
  BY <1>1, InKernelFacts, SleepTicksType DEF SleepFor, ProcInv, TypeOK, States
<1>3. schedule([proc_state EXCEPT ![current_proc] = "SLEEPING"], "call", in_service)
  BY DEF SleepFor
<1> QED BY <1>1, <1>2, <1>3, GiveUpKeeps

\* A system call that changes no process, or wakes one that sleeps.
LEMMA QuietCallKeeps ==
    ASSUME ProcInv, other_syscall \/ \E p \in Slot : proc_wakeup(p)
    PROVE  ProcInv'
<1>1. InKernel /\ HandlerDone
  BY DEF other_syscall, proc_wakeup
<1>2. /\ phase' = phase /\ pid' = pid /\ next_pid' = next_pid /\ is_user' = is_user
      /\ sleep_ticks' = sleep_ticks /\ ticks' = ticks
      /\ current_proc' = current_proc /\ iflag' = iflag /\ in_service' = in_service
      /\ rsp0' = rsp0 /\ ctx' = ctx /\ started' = started
  BY DEF other_syscall, proc_wakeup, tableVars, cpuVars
<1> DEFINE Quiet == /\ proc_state' \in [Slot -> States]
                    /\ \A q \in Slot : proc_state'[q] = "RUNNING"
                                            <=> proc_state[q] = "RUNNING"
                    /\ proc_state'[IDLE] = "READY"
<1>3. Quiet
  <2>1. CASE other_syscall
    BY <2>1, <1>1, InKernelFacts DEF other_syscall, ProcInv, TypeOK
  <2>2. ASSUME NEW p \in Slot, proc_wakeup(p) PROVE Quiet
    BY <2>2, <1>1, InKernelFacts DEF proc_wakeup, Woken, ProcInv, TypeOK, States
  <2> QED BY <2>1, <2>2
<1>4. /\ phase = "run" /\ sys' \in [Slot -> SysStates]
      /\ is_user[current_proc] => sys'[current_proc] # "none"
      /\ \A p \in Slot \ {current_proc} : sys'[p] = sys[p]
  BY <1>1, InKernelFacts, HandlerFacts
<1>5. TypeOK' /\ BootInv' /\ CurrentRunning' /\ ~is_user'[IDLE]
  BY <1>2, <1>3, <1>4 DEF ProcInv, TypeOK, BootInv, CurrentRunning
<1>6. RunInv'
  BY <1>2, <1>3, <1>4 DEF ProcInv, RunInv
<1>7. TimerOnlyInIdle' /\ IdleInterruptible' /\ UserTrapsOnOwnStack'
  BY <1>2, <1>4 DEF ProcInv, TimerOnlyInIdle, IdleInterruptible, UserTrapsOnOwnStack
<1> QED BY <1>5, <1>6, <1>7 DEF ProcInv

\* A step of something else keeps the invariant.
LEMMA StutterKeeps == ProcInv /\ UNCHANGED vars => ProcInv'
  BY DEF vars, tableVars, cpuVars, ProcInv, TypeOK, CurrentRunning, BootInv, RunInv,
         TimerOnlyInIdle, IdleInterruptible, UserTrapsOnOwnStack

-----------------------------------------------------------------------------
(* Theorems *)

\* Every step of the process manager preserves the invariant.
LEMMA NextKeeps == ProcInv /\ [Next]_vars => ProcInv'
<1> SUFFICES ASSUME ProcInv, [Next]_vars PROVE ProcInv'
  OBVIOUS
<1>1. CASE proc_create \/ proc_create_elf
  BY <1>1, CreateKeeps
<1>2. CASE CreateFails \/ exception
  BY <1>2, PanicKeeps DEF CreateFails, exception
<1>3. CASE StartScheduler
  BY <1>3, StartKeeps
<1>4. CASE timer_interrupt
  BY <1>4, TimerKeeps
<1>5. CASE int80 \/ iretq
  BY <1>5, GateKeeps
<1>6. CASE other_syscall \/ \E p \in Slot : proc_wakeup(p)
  BY <1>6, QuietCallKeeps
<1>7. CASE proc_yield
  BY <1>7, YieldKeeps
<1>8. CASE proc_exit
  BY <1>8, ExitKeeps
<1>9. CASE SleepCalls
  <2>1. CASE recv_sleep
    <3>1. SleepFor(10) /\ sys' = sys
      BY <2>1 DEF recv_sleep
    <3> QED BY <3>1, SleepKeeps
  <2>2. ASSUME NEW ms \in SleepMs, proc_sleep(ms) PROVE ProcInv'
    <3>1. ms \in Nat /\ SleepFor(ms) /\ HandlerDone
      BY <2>2, SleepAssumption DEF proc_sleep
    <3> QED BY <3>1, SleepKeeps
  <2> QED BY <1>9, <2>1, <2>2 DEF SleepCalls
<1>10. CASE Halted \/ UNCHANGED vars
  BY <1>10, StutterKeeps DEF Halted
<1> QED BY <1>1, <1>2, <1>3, <1>4, <1>5, <1>6, <1>7, <1>8, <1>9, <1>10 DEF Next

\* The invariant holds in every state of every behaviour of the process manager.
THEOREM ProcInvariant == Spec => []ProcInv
<1>1. Init => ProcInv
  BY InitEstablishes
<1>2. ProcInv /\ [Next]_vars => ProcInv'
  BY NextKeeps
<1> QED BY <1>1, <1>2, PTL DEF Spec

\* Type correctness, for every table size, slice length and set of sleeps.
THEOREM TypeCorrect == Spec => []TypeOK
<1>1. ProcInv => TypeOK
  BY DEF ProcInv
<1> QED BY <1>1, ProcInvariant, PTL

\* schedule() of proc.c never returns to a process that sleeps or has exited, and
\* never loses one: exactly the current process is RUNNING.
THEOREM OneRunning == Spec => []CurrentRunning
<1>1. ProcInv => CurrentRunning
  BY DEF ProcInv
<1> QED BY <1>1, ProcInvariant, PTL

\* The late EOI of interrupt_dispatch: the timer interrupts the idle process and
\* no other, so kernel calls are never preempted.
THEOREM NeverPreempted == Spec => []TimerOnlyInIdle
<1>1. ProcInv => TimerOnlyInIdle
  BY DEF ProcInv
<1> QED BY <1>1, ProcInvariant, PTL

\* The idle loop never waits with the timer held back: the machine goes on.
THEOREM IdleCanBeWoken == Spec => []IdleInterruptible
<1>1. ProcInv => IdleInterruptible
  BY DEF ProcInv
<1> QED BY <1>1, ProcInvariant, PTL

\* gdt_set_tss_rsp0 in schedule() keeps the trap stack of the process that runs.
THEOREM OwnTrapStack == Spec => []UserTrapsOnOwnStack
<1>1. ProcInv => UserTrapsOnOwnStack
  BY DEF ProcInv
<1> QED BY <1>1, ProcInvariant, PTL

-----------------------------------------------------------------------------
(* What a step does to the processes that do not take it *)

\* A change of process goes to the nearest READY slot; the first one is the start
\* of the scheduler.
NearestFirst ==
    \/ current_proc' = current_proc
    \/ current_proc = NULL
    \/ /\ current_proc' \in Slot
       /\ \A q \in Slot : proc_state[q] = "READY" =>
              Distance(current_proc, current_proc') <= Distance(current_proc, q)

\* A process that has exited stays as it is and does not get the CPU.
ZombiesStay ==
    \A p \in Slot : proc_state[p] = "ZOMBIE" =>
        proc_state'[p] = "ZOMBIE" /\ current_proc' # p

\* No process is put to sleep by another one.
OnlySelfSleeps ==
    \A p \in Slot : proc_state'[p] = "SLEEPING" =>
        proc_state[p] = "SLEEPING" \/ p = current_proc

\* No caller of schedule() touches a process that is READY or has exited, or puts
\* another one to sleep.
SparesOthers(st) ==
    \A q \in Slot :
        /\ proc_state[q] \in {"READY", "ZOMBIE"} => st[q] = proc_state[q]
        /\ st[q] = "SLEEPING" => proc_state[q] = "SLEEPING" \/ q = current_proc

\* schedule() takes the nearest process and leaves the exited ones alone.
LEMMA ScheduleShape ==
    ASSUME NEW st, NEW why, NEW serving, current_proc \in Slot, CurrentRunning,
           CallerOK(st), SparesOthers(st), schedule(st, why, serving)
    PROVE  NearestFirst /\ ZombiesStay /\ OnlySelfSleeps
<1> DEFINE d == DemoteRunning(st)
<1>1. PICK p \in Slot :
         /\ d[p] = "READY"
         /\ \A q \in Slot : d[q] = "READY" =>
               Distance(current_proc, p) <= Distance(current_proc, q)
         /\ switch_context(d, p, why, serving)
  BY ScheduleSwitches
<1>2. /\ SparesOthers(d)
      /\ d \in [Slot -> States]
  BY DEF CallerOK, SparesOthers, DemoteRunning, CurrentRunning, States
<1> HIDE DEF d
<1>3. current_proc' = p /\ proc_state' = [d EXCEPT ![p] = "RUNNING"]
  BY <1>1 DEF switch_context
<1>4. NearestFirst
  BY <1>1, <1>2, <1>3 DEF NearestFirst, SparesOthers
<1>5. ZombiesStay /\ OnlySelfSleeps
  BY <1>1, <1>2, <1>3 DEF ZombiesStay, OnlySelfSleeps, SparesOthers
<1> QED BY <1>4, <1>5

\* A process gives the CPU up: its own state changes, and no other.
LEMMA GiveUpShape ==
    ASSUME ProcInv, InKernel, NEW st, NEW new \in States,
           st = [proc_state EXCEPT ![current_proc] = new],
           schedule(st, "call", in_service)
    PROVE  NearestFirst /\ ZombiesStay /\ OnlySelfSleeps
<1>1. /\ current_proc \in Slot \ {IDLE} /\ proc_state[IDLE] = "READY"
      /\ proc_state[current_proc] = "RUNNING" /\ CurrentRunning
  BY InKernelFacts DEF ProcInv
<1>2. CallerOK(st) /\ SparesOthers(st)
  BY <1>1, IdleIsSlot DEF CallerOK, SparesOthers, ProcInv, TypeOK, CurrentRunning
<1> QED BY <1>1, <1>2, ScheduleShape

\* Every step is as the three formulas say.
LEMMA StepShape ==
    ASSUME ProcInv, [Next]_vars
    PROVE  NearestFirst /\ ZombiesStay /\ OnlySelfSleeps
<1> USE IdleIsSlot
<1>1. \A p \in Slot : proc_state[p] = "ZOMBIE" => current_proc # p
  BY DEF ProcInv, CurrentRunning
<1>2. CASE proc_create \/ proc_create_elf
  <2>1. /\ NewProcess(alloc_proc) /\ alloc_proc \in Slot
        /\ proc_state[alloc_proc] = "UNUSED"
    BY <1>2, AllocFindsUnused DEF proc_create, proc_create_elf
  <2> QED BY <1>1, <2>1 DEF NewProcess, NearestFirst, ZombiesStay, OnlySelfSleeps,
                            ProcInv, TypeOK
<1>3. CASE CreateFails \/ exception \/ Halted \/ UNCHANGED vars
  BY <1>1, <1>3 DEF CreateFails, exception, Panic, Halted, vars, cpuVars,
                    NearestFirst, ZombiesStay, OnlySelfSleeps
<1>4. CASE StartScheduler
  BY <1>4 DEF StartScheduler, NearestFirst, ZombiesStay, OnlySelfSleeps,
              ProcInv, TypeOK, BootInv
<1>5. CASE timer_interrupt
  <2> DEFINE st == [p \in Slot |-> WakeExpired(p)]
  <2>1. /\ phase = "run" /\ current_proc = IDLE
        /\ CurrentRunning /\ proc_state \in [Slot -> States]
    BY <1>5 DEF timer_interrupt, ProcInv, TimerOnlyInIdle, TypeOK
  <2>2. CallerOK(st) /\ SparesOthers(st)
    BY <2>1 DEF CallerOK, SparesOthers, WakeExpired, CurrentRunning, States
  <2>3. CASE schedule(st, "irq", ServingInTick)
    <3> HIDE DEF st
    <3> QED BY <2>1, <2>2, <2>3, ScheduleShape
  <2>4. CASE proc_state' = st /\ UNCHANGED cpuVars
    BY <1>1, <2>2, <2>4 DEF NearestFirst, ZombiesStay, OnlySelfSleeps, SparesOthers,
                            cpuVars
  <2> QED BY <1>5, <2>3, <2>4 DEF timer_interrupt
<1>6. CASE int80 \/ iretq \/ other_syscall
  BY <1>1, <1>6 DEF int80, iretq, other_syscall, cpuVars,
                    NearestFirst, ZombiesStay, OnlySelfSleeps
<1>7. ASSUME NEW p \in Slot, proc_wakeup(p)
      PROVE  NearestFirst /\ ZombiesStay /\ OnlySelfSleeps
  BY <1>1, <1>7 DEF proc_wakeup, Woken, cpuVars, ProcInv, TypeOK,
                    NearestFirst, ZombiesStay, OnlySelfSleeps
<1>8. CASE proc_yield
  <2>1. InKernel /\ schedule(proc_state, "call", in_service)
    BY <1>8 DEF proc_yield
  <2>2. "RUNNING" \in States
        /\ proc_state = [proc_state EXCEPT ![current_proc] = "RUNNING"]
    BY <2>1, InKernelFacts DEF ProcInv, TypeOK, States
  <2> QED BY <2>1, <2>2, GiveUpShape
<1>9. CASE proc_exit
  <2>1. /\ InKernel /\ "ZOMBIE" \in States
        /\ schedule([proc_state EXCEPT ![current_proc] = "ZOMBIE"], "call", in_service)
    BY <1>9 DEF proc_exit, States
  <2> QED BY <2>1, GiveUpShape
<1>10. CASE SleepCalls
  <2>1. /\ InKernel /\ "SLEEPING" \in States
        /\ schedule([proc_state EXCEPT ![current_proc] = "SLEEPING"], "call", in_service)
    BY <1>10 DEF SleepCalls, recv_sleep, proc_sleep, SleepFor, States
  <2> QED BY <2>1, GiveUpShape
<1> QED BY <1>2, <1>3, <1>4, <1>5, <1>6, <1>7, <1>8, <1>9, <1>10 DEF Next

\* An exited process never runs again and nothing makes it READY, proc_wakeup by
\* the senders of messages included: the "not reached" after proc_exit holds.
THEOREM ExitNeverReturns == Spec => ExitIsFinal
<1>1. ProcInv /\ [Next]_vars =>
        [\A p \in Slot : proc_state[p] = "ZOMBIE" =>
             proc_state'[p] = "ZOMBIE" /\ current_proc' # p]_vars
  BY StepShape DEF ZombiesStay
<1> QED BY <1>1, ProcInvariant, PTL DEF Spec, ExitIsFinal

-----------------------------------------------------------------------------
(* Round robin *)

\* The budget of a waiting process: what it has been passed over already and the
\* slots the search still has before it make one turn of the table at most.
BypassInv ==
    /\ passed \in [Slot -> Nat]
    /\ \A p \in Slot :
          /\ proc_state[p] # "READY" \/ current_proc = NULL => passed[p] = 0
          /\ proc_state[p] = "READY" /\ current_proc \in Slot =>
                passed[p] + Distance(current_proc, p) <= PROC_MAX

\* A search that passes over p comes nearer to it by the slots it went through.
LEMMA CloserAfterDispatch ==
    ASSUME NEW c \in Slot, NEW n \in Slot, NEW p \in Slot, p # n,
           Distance(c, n) <= Distance(c, p)
    PROVE  Distance(n, p) \in Nat /\ Distance(n, p) + 1 <= Distance(c, p)
  BY ProcMaxAssumption DEF Slot, Distance

\* The slots from one process to another one are fewer than a whole turn.
LEMMA ShortOfATurn ==
    ASSUME NEW c \in Slot, NEW p \in Slot, c # p
    PROVE  Distance(c, p) \in Nat /\ Distance(c, p) + 1 <= PROC_MAX
  BY ProcMaxAssumption DEF Slot, Distance

\* Every step keeps within the budget.
LEMMA BypassKeeps ==
    ASSUME ProcInv, ProcInv', [Next]_vars, BypassInv, [RRNext]_rrVars
    PROVE  BypassInv'
<1> USE IdleIsSlot
<1>1. CASE UNCHANGED rrVars
  BY <1>1 DEF rrVars, vars, cpuVars, BypassInv
<1>2. CASE RRNext
  <2>1. /\ proc_state \in [Slot -> States] /\ passed \in [Slot -> Nat]
        /\ current_proc \in Slot \cup {NULL} /\ current_proc' \in Slot \cup {NULL}
        /\ PROC_MAX \in Nat
        /\ CurrentRunning /\ CurrentRunning'
    BY ProcMaxAssumption DEF ProcInv, TypeOK, BypassInv
  <2>2. passed' = [p \in Slot |->
            CASE proc_state'[p] # "READY" -> 0
              [] proc_state'[p] = "READY" /\ Dispatch -> passed[p] + 1
              [] OTHER -> passed[p]]
    BY <1>2 DEF RRNext, Count
  <2>3. passed' \in [Slot -> Nat]
    BY <2>1, <2>2
  <2>4. NearestFirst
    BY StepShape
  <2>5. ASSUME NEW p \in Slot
        PROVE  /\ proc_state'[p] # "READY" \/ current_proc' = NULL => passed'[p] = 0
               /\ proc_state'[p] = "READY" /\ current_proc' \in Slot =>
                     passed'[p] + Distance(current_proc', p) <= PROC_MAX
    <3>1. CASE proc_state'[p] # "READY"
      BY <3>1, <2>2
    <3>2. CASE proc_state'[p] = "READY" /\ ~Dispatch
      <4>1. passed'[p] = passed[p]
        BY <3>2, <2>2
      <4>2. current_proc = NULL \/ (current_proc \in Slot /\ current_proc' = current_proc)
        BY <3>2, <2>1 DEF Dispatch
      <4>3. CASE current_proc = NULL \/ proc_state[p] # "READY"
        <5>1. passed'[p] = 0
          BY <4>1, <4>3 DEF BypassInv
        <5>2. current_proc' \in Slot => current_proc' # p
          BY <3>2, <2>1 DEF CurrentRunning
        <5> QED BY <5>1, <5>2, <2>1, ShortOfATurn
      <4>4. CASE current_proc \in Slot /\ proc_state[p] = "READY"
        <5>1. current_proc' = current_proc
          BY <4>2, <4>4
        <5> QED BY <3>2, <4>1, <4>4, <5>1 DEF BypassInv
      <4> QED BY <4>2, <4>3, <4>4
    <3>3. CASE proc_state'[p] = "READY" /\ Dispatch
      <4>1. /\ passed'[p] = passed[p] + 1 /\ passed[p] \in Nat
            /\ current_proc \in Slot /\ current_proc' # current_proc
        BY <3>3, <2>1, <2>2 DEF Dispatch
      <4>2. current_proc' \in Slot
        BY <4>1, <2>4 DEF NearestFirst
      <4>3. current_proc' # p
        BY <3>3, <4>2, <2>1 DEF CurrentRunning
      <4>4. CASE proc_state[p] = "READY"
        <5>1. Distance(current_proc, current_proc') <= Distance(current_proc, p)
          BY <4>1, <4>4, <2>4 DEF NearestFirst
        <5>2. passed[p] + Distance(current_proc, p) <= PROC_MAX
          BY <4>1, <4>4 DEF BypassInv
        <5>3. Distance(current_proc', p) \in Nat
              /\ Distance(current_proc', p) + 1 <= Distance(current_proc, p)
          BY <5>1, <4>1, <4>2, <4>3, CloserAfterDispatch
        <5>4. Distance(current_proc, p) \in 1 .. PROC_MAX
          BY <4>1, LoopReaches
        <5> QED BY <5>2, <5>3, <5>4, <4>1, <4>2, <3>3, <2>1
      <4>5. CASE proc_state[p] # "READY"
        <5>1. passed'[p] = 1
          BY <4>1, <4>5 DEF BypassInv
        <5>2. Distance(current_proc', p) \in Nat
              /\ Distance(current_proc', p) + 1 <= PROC_MAX
          BY <4>2, <4>3, ShortOfATurn
        <5> QED BY <5>1, <5>2, <4>2, <3>3, <2>1
      <4> QED BY <4>4, <4>5
    <3> QED BY <3>1, <3>2, <3>3
  <2> QED BY <2>3, <2>5 DEF BypassInv
<1> QED BY <1>1, <1>2

\* The round robin of schedule() keeps no READY process waiting for a whole turn,
\* for every size of the table.
THEOREM NoBypass == RRSpec => []BoundedBypass
<1>1. RRInit => Init /\ BypassInv
  BY DEF RRInit, Init, BypassInv
<1>2. [RRNext]_rrVars => [Next]_vars
  BY DEF RRNext, rrVars
<1>3. RRSpec => Spec
  BY <1>1, <1>2, PTL DEF RRSpec, Spec
<1>4. ProcInv /\ ProcInv' /\ [Next]_vars /\ BypassInv /\ [RRNext]_rrVars => BypassInv'
  BY BypassKeeps
<1>5. ProcInv /\ BypassInv => BoundedBypass
  <2> SUFFICES ASSUME ProcInv, BypassInv, NEW p \in Slot
               PROVE  passed[p] < PROC_MAX
    BY DEF BoundedBypass
  <2>1. CASE proc_state[p] # "READY" \/ current_proc = NULL
    BY <2>1, ProcMaxAssumption DEF BypassInv
  <2>2. CASE proc_state[p] = "READY" /\ current_proc # NULL
    <3>1. current_proc \in Slot
      BY <2>2 DEF ProcInv, TypeOK
    <3>2. Distance(current_proc, p) \in 1 .. PROC_MAX
      BY <3>1, LoopReaches
    <3>3. passed[p] + Distance(current_proc, p) <= PROC_MAX /\ passed[p] \in Nat
      BY <2>2, <3>1 DEF BypassInv
    <3> QED BY <3>2, <3>3, ProcMaxAssumption
  <2> QED BY <2>1, <2>2
<1> QED BY <1>1, <1>2, <1>3, <1>4, <1>5, ProcInvariant, PTL DEF RRSpec
=============================================================================
