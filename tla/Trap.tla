-------------------------------- MODULE Trap --------------------------------
(***************************************************************************)
(* Registers and kernel stacks on the way through the kernel: the interrupt *)
(* stubs, interrupt_dispatch, the context switch, and the first steps of a  *)
(* process.                                                                *)
(*                                                                         *)
(*   kernel/arch/x86_64/isr_stub.asm, idt.c   frames, gates, dispatch       *)
(*   kernel/arch/x86_64/context.asm           switch_context                *)
(*   kernel/proc/proc_entry.asm, proc_entry_user.asm, main.c   first steps  *)
(*   kernel/arch/x86_64/gdt.c                 segments                      *)
(*                                                                         *)
(* A word is a triple: whose it is, what it is, and a version.  A process   *)
(* gives its registers a new version from time to time; version KERNEL is  *)
(* what compiled kernel code keeps in them for it.  Stacks grow upwards in  *)
(* the model: word d of a stack is 8*d bytes below kstack_top, so word 0 is *)
(* the first one that does not belong to it any more.                       *)
(*                                                                         *)
(* Code inside the kernel is not interrupted (Proc proves it).  Whom        *)
(* schedule() picks is left open, and so is who is interrupted in its own   *)
(* code: that it is only ever the idle loop is the subject of Proc.         *)
(***************************************************************************)
EXTENDS Integers, SequencesExt

CONSTANTS Threads,     \* kernel threads of proc_create
          Users,       \* user processes of proc_create_elf
          Skewed,      \* threads whose stack does not end at a multiple of 16 bytes
          ExtInts,     \* vectors of interrupts from outside: 32, the timer
          Faults,      \* vectors of exceptions that occur
          SoftInts,    \* vectors user code names in an int instruction
          DEPTH        \* bound: words of a kernel stack that are looked at; the deepest
                       \* way through the kernel (local word, alignment, frame, call,
                       \* switch) takes 32

IDLE == 0    \* kernel_main; its stack is the one of boot.asm
Process == {IDLE} \cup Threads \cup Users

ASSUME TrapAssumption == /\ Threads \cup Users \subseteq Nat \ {0}
                         /\ Threads \cap Users = {} /\ Skewed \subseteq Threads
                         /\ ExtInts \cup Faults \cup SoftInts \subseteq Nat
                         /\ DEPTH \in Nat /\ DEPTH >= 32

-----------------------------------------------------------------------------
(* Layouts *)

\* The order in which isr_common pushes the registers, and in which it pops them.
Pushes == <<"rax", "rbx", "rcx", "rdx", "rsi", "rdi", "rbp", "r8", "r9", "r10",
            "r11", "r12", "r13", "r14", "r15">>
Pops == <<"r15", "r14", "r13", "r12", "r11", "r10", "r9", "r8", "rbp", "rdi",
          "rsi", "rdx", "rcx", "rbx", "rax">>
Reg == {Pushes[i] : i \in DOMAIN Pushes}

\* Mutant: the registers of the frame in the order of the pushes.
FrameAsPushed == Pushes \o <<"int_no", "err_code", "rip", "cs", "rflags", "rsp", "ss">>

\* interrupt_frame_t, from low addresses to high ones.
interrupt_frame_t ==
    <<"r15", "r14", "r13", "r12", "r11", "r10", "r9", "r8", "rbp", "rdi", "rsi",
      "rdx", "rcx", "rbx", "rax", "int_no", "err_code", "rip", "cs", "rflags",
      "rsp", "ss">>

\* Mutant: rbp is forgotten.
SavesNoRbp == {"r15", "r14", "r13", "r12", "rbx"}

\* The registers switch_context stores in cpu_context_t and loads from it, besides
\* rip and rsp.
cpu_context_t == {"r15", "r14", "r13", "r12", "rbx", "rbp"}

\* The C calling convention: what a function leaves as it was.
CalleeSaved == {"rbx", "rbp", "r12", "r13", "r14", "r15"}

\* The registers a C function pushes when it is entered and pops before it returns.
Prologue == <<"r15", "r14", "r13", "r12", "rbp", "rbx">>

KERNEL == 2
Own(p, r, v) == <<p, r, v>>
Junk == <<0, "junk", 0>>
Untouched == <<0, "foreign", 0>>

-----------------------------------------------------------------------------
(* Segments and gates *)

\* gdt_init: access byte and flags of the descriptors 0 to 5.
gdt == << [access |-> \h0, gran |-> \h0], [access |-> \h9A, gran |-> \hA0],
          [access |-> \h92, gran |-> \hC0], [access |-> \hFA, gran |-> \hC0],
          [access |-> \hF2, gran |-> \hC0], [access |-> \hFA, gran |-> \hA0] >>
Descriptor(sel) == gdt[1 + sel \div 8]
Dpl(sel) == (Descriptor(sel).access \div 32) % 4
IsCode(sel) == (Descriptor(sel).access \div 8) % 2 = 1
IsLong(sel) == (Descriptor(sel).gran \div 32) % 2 = 1
Ring(sel) == sel % 4

GDT_KERNEL_CODE == \h8
GDT_KERNEL_DATA == \h10

\* The selectors enter_user_mode pushes; it loads the second into ds and es too.  0x1B is
\* the 32-bit code segment, although SEL_USER_CODE of kernel.h is the 64-bit one, 0x2B.
USER_CS == \h1B
USER_SS == \h23

\* idt_init: stubs exist for the vectors 0 to 47 and for 128, whose gate alone may
\* be named by user code.
Gates == (0 .. 47) \cup {128}
GateDpl(v) == IF v = 128 THEN 3 ELSE 0

\* Exceptions for which the CPU pushes an error code.
CpuErrorCodes == {8, 10, 11, 12, 13, 14, 17}

\* Mutant: the page fault has a stub of the other kind.
ErrNoPageFault == {8, 10, 11, 12, 13, 17}

\* Vectors with an ISR_ERR stub, which pushes no error code of its own.
ISR_ERR == {8, 10, 11, 12, 13, 14, 17}

-----------------------------------------------------------------------------
VARIABLES current,   \* current_proc
          where,     \* how far a process is, see Places
          version,   \* of what a process has in its registers
          live,      \* the registers a process may rely on
          home,      \* the stack pointer of a process in its own code
          vector,    \* the last interrupt a process has entered the kernel by
          regs,      \* the registers of the CPU
          cs, ss,    \* segment selectors of the CPU
          ds,        \* the selector in ds and in es, which are always loaded together
          rsp,       \* depth of the stack in use
          stack,     \* kernel stacks: depth -> word
          context,   \* cpu_context_t of the processes
          frame      \* the argument of interrupt_dispatch: depth of the frame

cpuVars == <<regs, cs, ss, ds, rsp>>
userVars == <<version, live, home>>
trapVars == <<current, where, userVars, vector, cpuVars, stack, context, frame>>

\* new: created; start: the first instructions; own: its own code; trap, call: in the
\* kernel, by an interrupt or by a call; exit: in proc_exit or past it; panic: halted;
\* lost: at an address that is none.
Places == {"new", "start", "own", "trap", "call", "exit", "panic", "lost"}

\* The words proc_create and proc_create_elf put into a new context.
EntryPoint(p) == <<p, "entry", 0>>
Main(p) == <<p, "main", 0>>

\* The stack pointer of a user process in ring 3: no word of its kernel stack.
USER_RSP == -8

TrapInit ==
    /\ current = IDLE
    /\ where = [p \in Process |-> IF p = IDLE THEN "own" ELSE "new"]
    /\ version = [p \in Process |-> 0]
    /\ live = [p \in Process |-> {}]
    /\ home = [p \in Process |-> IF p \in Users THEN USER_RSP ELSE 0]
    /\ vector = [p \in Process |-> 0]
    /\ regs = [r \in Reg |-> Junk]
    /\ cs = GDT_KERNEL_CODE /\ ss = GDT_KERNEL_DATA /\ ds = GDT_KERNEL_DATA
    /\ rsp = 0
    /\ stack = [p \in Process |-> [d \in 0 .. DEPTH |-> Untouched]]
    /\ context = [p \in Process |->
                    [r \in cpu_context_t \cup {"rip", "rsp"} |->
                        CASE r = "rip" -> EntryPoint(p)
                          [] r = "rsp" -> <<0, "rsp", 0>>
                          [] r = "r12" /\ p \in Threads -> Main(p)
                          [] OTHER -> <<0, "zero", 0>>]]
    /\ frame = [p \in Process |-> 0]

-----------------------------------------------------------------------------
\* A stack s after the words ws have been pushed at depth d.
Push(s, d, ws) == [i \in DOMAIN s |-> IF i \in (d + 1) .. (d + Len(ws)) THEN ws[i - d] ELSE s[i]]

\* A stack s in use up to depth d: nothing reads the words that have been popped, and
\* the model forgets them.
UpTo(s, d) == [i \in DOMAIN s |-> IF i > d THEN Untouched ELSE s[i]]

\* The registers after the words of s from depth d upwards have been popped into
\* the registers of the sequence rs.
Pop(s, d, rs) ==
    [r \in Reg |-> IF \E i \in DOMAIN rs : rs[i] = r
                   THEN s[d + 1 - (CHOOSE i \in DOMAIN rs : rs[i] = r)]
                   ELSE regs[r]]

Words(rs) == [i \in DOMAIN rs |-> regs[rs[i]]]

\* A call of a C function from depth d of the stack s: the return address, then
\* what the prologue saves.
EnterC(s, d, ret) == Push(s, d, <<ret>> \o Words(Prologue))
InC == 1 + Len(Prologue)
KernelRegs(p) == [r \in Reg |-> IF r \in CalleeSaved THEN Own(p, r, KERNEL) ELSE Junk]

\* iretq with the five words rip, cs, rflags, rsp, ss on top of the stack s at d, and with
\* the selector data in ds and es.  On the way to ring 3 the CPU replaces the selector of
\* a segment that ring 3 may not use by the null selector.
Iretq(p, s, d, data) ==
    /\ where' = [where EXCEPT ![p] = IF s[d] = <<p, "rip", version[p]>> THEN "own" ELSE "lost"]
    /\ cs' = s[d - 1][1]
    /\ rsp' = s[d - 3][3]
    /\ ss' = s[d - 4][1]
    /\ ds' = IF Ring(cs') = 3 /\ Dpl(data) < 3 THEN 0 ELSE data

-----------------------------------------------------------------------------
(* Own code *)

\* A process computes: it gives every register a new value; kernel code may also
\* take or give back a word of its stack.
Compute ==
    LET p == current IN
    /\ where[p] = "own"
    /\ version' = [version EXCEPT ![p] = 1 - @]
    /\ live' = [live EXCEPT ![p] = Reg]
    /\ regs' = [r \in Reg |-> Own(p, r, version'[p])]
    /\ IF p \in Users THEN UNCHANGED <<rsp, stack>>
       ELSE \E d \in {0, 1} :
              /\ rsp' = d
              /\ stack' = [stack EXCEPT ![p] =
                              Push(UpTo(@, 0), 0, [i \in 1 .. d |-> Own(p, "local", version'[p])])]
    /\ home' = [home EXCEPT ![p] = rsp']
    /\ UNCHANGED <<current, where, vector, cs, ss, ds, context, frame>>

\* What the CPU pushes for vector v, and what the stub of v adds.
HardwareFrame(p, v) ==
    << <<ss, "ss", 0>>, <<0, "rsp", rsp>>, <<0, "rflags", 0>>, <<cs, "cs", 0>>,
       <<p, "rip", version[p]>> >>
    \o (IF v \in CpuErrorCodes THEN << <<1, "error", 0>> >> ELSE << >>)
Stub(v) == (IF v \in ISR_ERR THEN << >> ELSE << <<0, "error", 0>> >>) \o << <<v, "vector", 0>> >>

\* The depth d, or the next one at a multiple of 16 bytes.  The header of a heap block
\* has 24 bytes, so that every other stack kmalloc returns is skewed.
Aligned(d) == IF (current \in Skewed) = (d % 2 = 1) THEN d ELSE d + 1

\* Mutant: kernel_rsp lies 16 bytes behind the end of the stack.
TrapBaseBehind == IF Ring(cs) = 3 THEN -2 ELSE Aligned(rsp)

\* Where the CPU starts to push: from ring 3 at kernel_rsp, which schedule() puts into
\* the TSS; from ring 0 on the stack in use, aligned to 16 bytes.
TrapBase == IF Ring(cs) = 3 THEN 0 ELSE Aligned(rsp)

\* Mutant: ds and es stay as they are.
DataAsItWas == ds

\* The selector isr_common loads into ds and es.  It does not save the ones they held.
IsrData == GDT_KERNEL_DATA

\* The way into interrupt_dispatch.
isr_common(v) ==
    LET p == current
        base == TrapBase
        ws == HardwareFrame(p, v) \o Stub(v) \o Words(Pushes)
        top == base + Len(ws)
    IN  /\ where[p] = "own"
        /\ where' = [where EXCEPT ![p] = "trap"]
        /\ vector' = [vector EXCEPT ![p] = v]
        /\ stack' = [stack EXCEPT ![p] = EnterC(Push(@, base, ws), top, <<p, "stub", 0>>)]
        /\ frame' = [frame EXCEPT ![p] = top]
        /\ rsp' = top + InC
        /\ regs' = KernelRegs(p)
        /\ cs' = GDT_KERNEL_CODE
        /\ ss' = IF Ring(cs) = 3 THEN 0 ELSE ss
        /\ ds' = IsrData
        /\ UNCHANGED <<current, userVars, context>>

\* An interrupt from a device, or an exception.
Interrupt == \E v \in ExtInts \cup Faults : isr_common(v)

\* int v in ring 3: a general protection fault unless the gate admits it.
SoftwareInterrupt ==
    /\ current \in Users
    /\ \E v \in SoftInts : isr_common(IF v \in Gates /\ GateDpl(v) = 3 THEN v ELSE 13)

-----------------------------------------------------------------------------
(* In the kernel *)

\* frame->f of interrupt_dispatch: the first field has the lowest address.
Index(f) == CHOOSE i \in DOMAIN interrupt_frame_t : interrupt_frame_t[i] = f
Depth(p, f) == frame[p] + 1 - Index(f)
Field(p, f) == stack[p][Depth(p, f)]
IntNo(p) == Field(p, "int_no")[1]

\* interrupt_dispatch for a CPU exception.
exception ==
    /\ where[current] = "trap" /\ IntNo(current) < 32
    /\ where' = [where EXCEPT ![current] = "panic"]
    /\ UNCHANGED <<current, userVars, vector, cpuVars, stack, context, frame>>

\* A kernel thread calls proc_yield, proc_sleep, ipc_recv, ...
KernelCall ==
    LET p == current IN
    /\ p \in Threads /\ where[p] = "own"
    /\ where' = [where EXCEPT ![p] = "call"]
    /\ stack' = [stack EXCEPT ![p] = EnterC(@, rsp, <<p, "rip", version[p]>>)]
    /\ rsp' = rsp + InC
    /\ regs' = KernelRegs(p)
    /\ UNCHANGED <<current, userVars, vector, cs, ss, ds, context, frame>>

\* proc_exit, called by a thread or as SYS_EXIT.
proc_exit ==
    /\ \/ where[current] = "call"
       \/ where[current] = "trap" /\ IntNo(current) = 128
    /\ where' = [where EXCEPT ![current] = "exit"]
    /\ UNCHANGED <<current, userVars, vector, cpuVars, stack, context, frame>>

\* Mutant: the stack pointer is stored as it is after the return.
SavesPoppedRsp(d) == d - 1

\* What switch_context stores as rsp: the place of its return address.
SavedRsp(d) == d

\* schedule() switches to q, which may be the process itself, when no other is READY.
switch_context(q) ==
    LET p == current
        d == rsp + 1
        saved == Push(stack[p], rsp, << <<p, where[p], 0>> >>)
        contexts == [context EXCEPT ![p] =
                       [r \in DOMAIN @ |-> CASE r = "rip" -> saved[d]
                                             [] r = "rsp" -> <<0, "rsp", SavedRsp(d)>>
                                             [] OTHER -> IF r \in cpu_context_t THEN regs[r] ELSE @[r]]]
        new == contexts[q]
        t == new["rsp"][3]
    IN  /\ where[p] \in {"trap", "call", "exit"}
        /\ where[p] = "trap" => IntNo(p) >= 32
        /\ where[q] # "exit"
        /\ context' = contexts
        /\ stack' = [[stack EXCEPT ![p] = saved] EXCEPT ![q] =
                         IF t = 0 THEN Push(@, -1, <<new["rip"]>>) ELSE UpTo(@, t - 1)]
        /\ rsp' = t - 1
        /\ regs' = [r \in Reg |-> IF r \in cpu_context_t THEN new[r]
                                  ELSE IF r = "rax" THEN new["rip"] ELSE regs[r]]
        /\ current' = q
        /\ where' = [where EXCEPT ![q] = CASE new["rip"] = EntryPoint(q) -> "start"
                                           [] new["rip"] = <<q, where[q], 0>> -> where[q]
                                           [] OTHER -> "lost"]
        /\ UNCHANGED <<userVars, vector, cs, ss, ds, frame>>

-----------------------------------------------------------------------------
(* The way out *)

\* The C function on top of the stack returns: registers and depth after its epilogue
\* and its ret; the word it returns to.
LeaveC(p) == [r \in Reg |-> IF r \in CalleeSaved
                            THEN Pop(stack[p], rsp, Reverse(Prologue))[r] ELSE Junk]
ReturnWord(p) == stack[p][rsp - Len(Prologue)]

\* interrupt_dispatch returns, after it has stored the result of a system call;
\* isr_common pops the registers, drops int_no and err_code, and returns.  ds and es stay
\* as they are.
isr_return ==
    LET p == current
        s == IF IntNo(p) = 128
             THEN [stack[p] EXCEPT ![Depth(p, "rax")] = <<p, "result", 0>>] ELSE stack[p]
        d == rsp - InC
    IN  /\ where[p] = "trap" /\ IntNo(p) >= 32
        /\ regs' = Pop(s, d, Pops)
        /\ Iretq(p, s, d - Len(Pops) - 2, ds)
        /\ stack' = [stack EXCEPT ![p] = UpTo(s, IF Ring(cs') = 3 THEN 0 ELSE rsp')]
        /\ live' = [live EXCEPT ![p] = IF IntNo(p) = 128 THEN @ \ {"rax"} ELSE @]
        /\ vector' = [vector EXCEPT ![p] = 0]
        /\ frame' = [frame EXCEPT ![p] = 0]
        /\ UNCHANGED <<current, version, home, context>>

\* The kernel function a thread called returns.
CallReturn ==
    LET p == current IN
    /\ where[p] = "call"
    /\ where' = [where EXCEPT ![p] =
                    IF ReturnWord(p) = <<p, "rip", version[p]>> THEN "own" ELSE "lost"]
    /\ regs' = LeaveC(p)
    /\ rsp' = rsp - InC
    /\ stack' = [stack EXCEPT ![p] = UpTo(@, rsp')]
    /\ live' = [live EXCEPT ![p] = @ \cap CalleeSaved]
    /\ UNCHANGED <<current, version, home, vector, cs, ss, ds, context, frame>>

\* proc_entrypoint: call r12.
proc_entrypoint ==
    LET p == current IN
    /\ where[p] = "start" /\ p \in Threads
    /\ stack' = [stack EXCEPT ![p] = Push(@, rsp, << <<p, "exit", 0>> >>)]
    /\ rsp' = rsp + 1
    /\ where' = [where EXCEPT ![p] = IF regs["r12"] = Main(p) THEN "own" ELSE "lost"]
    /\ UNCHANGED <<current, userVars, vector, regs, cs, ss, ds, context, frame>>

\* proc_entry_user and enter_user_mode.
proc_entry_user ==
    LET p == current
        s == Push(stack[p], rsp, << <<USER_SS, "ss", 0>>, <<0, "rsp", USER_RSP>>, <<0, "rflags", 0>>,
                                    <<USER_CS, "cs", 0>>, <<p, "rip", version[p]>> >>)
    IN  /\ where[p] = "start" /\ p \in Users
        /\ stack' = [stack EXCEPT ![p] = UpTo(s, 0)]
        /\ Iretq(p, s, rsp + 5, USER_SS)
        /\ UNCHANGED <<current, userVars, vector, regs, context, frame>>

\* The main function of a thread returns, and proc_entrypoint calls proc_exit.
MainReturns ==
    LET p == current IN
    /\ where[p] = "own" /\ p \in Threads /\ home[p] = 0
    /\ where' = [where EXCEPT ![p] = IF stack[p][rsp] = <<p, "exit", 0>> THEN "exit" ELSE "lost"]
    /\ stack' = [stack EXCEPT ![p] = EnterC(@, rsp - 1, <<p, "hang", 0>>)]
    /\ rsp' = rsp - 1 + InC
    /\ regs' = KernelRegs(p)
    /\ UNCHANGED <<current, userVars, vector, cs, ss, ds, context, frame>>

\* panic() halts.
Halted == where[current] = "panic" /\ UNCHANGED trapVars

TrapNext ==
    \/ Compute \/ Interrupt \/ SoftwareInterrupt
    \/ exception \/ KernelCall \/ proc_exit \/ (\E q \in Process : switch_context(q))
    \/ isr_return \/ CallReturn \/ proc_entrypoint \/ proc_entry_user \/ MainReturns
    \/ Halted

TrapSpec == TrapInit /\ [][TrapNext]_trapVars

-----------------------------------------------------------------------------
(* Properties *)

\* No general register is lost on the way through the kernel: back in its own code a process
\* finds what it had in them (after a system call all but rax, after a call what the
\* calling convention promises), and kernel code finds after switch_context what it
\* had in the registers cpu_context_t holds.
RegistersKept ==
    LET p == current IN
    /\ where[p] = "own" => \A r \in live[p] : regs[r] = Own(p, r, version[p])
    /\ where[p] \in {"trap", "call"} => \A r \in CalleeSaved : regs[r] = Own(p, r, KERNEL)

\* The fields of interrupt_frame_t name the words the CPU, the stub and isr_common
\* have pushed, for vectors with and without an error code, and a process keeps its
\* frame intact while it is switched away.
FrameHoldsCaller ==
    \A p \in Process : where[p] = "trap" =>
        /\ Field(p, "int_no") = <<vector[p], "vector", 0>>
        /\ Field(p, "err_code") = <<IF vector[p] \in CpuErrorCodes THEN 1 ELSE 0, "error", 0>>
        /\ Field(p, "rip") = <<p, "rip", version[p]>>
        /\ Field(p, "rsp") = <<0, "rsp", home[p]>>
        /\ \A r \in live[p] : Field(p, r) = Own(p, r, version[p])

\* Every ret, call and iretq goes where it should, and whatever way a process took
\* through the kernel its stack pointer has not drifted and its locals are there.
StackReturns ==
    LET p == current IN
    /\ \A q \in Process : where[q] # "lost"
    /\ where[p] = "own" => /\ rsp = home[p]
                           /\ rsp = 1 => stack[p][1] = Own(p, "local", version[p])

\* context.rsp of a new process is the end of its stack, so its first dispatch and its
\* first instructions store into the word behind it, the header of the next heap
\* block.  No interrupt, call or later switch does so again, until its main function
\* returns into proc_entrypoint.
WordAboveOnlyAtStart ==
    [][\A p \in Process :
          where[p] \notin {"new", "start"} /\ where'[p] # "exit" => stack'[p][0] = stack[p][0]]_trapVars

\* Whoever runs, and whoever ran before, the selectors the CPU holds fit.  Kernel code is
\* in ring 0 and in 64-bit mode, with the kernel's ds and es, also when switch_context,
\* which saves no selector, comes from a process that has been in ring 3; its ss is the
\* kernel's or, after an interrupt of ring 3, null.  A user process in its own code is in
\* ring 3, in the 32-bit segment of main.c:115; no selector of the kernel is left to it:
\* ss is its own, ds and es are until its first interrupt, and null afterwards.
SelectorsFit ==
    LET user == current \in Users /\ where[current] = "own"
        ring == IF user THEN 3 ELSE 0
    IN  /\ Ring(cs) = ring /\ Dpl(cs) = ring /\ IsCode(cs) /\ (IsLong(cs) <=> ~user)
        /\ Ring(ss) = ring /\ ~IsCode(ss)
        /\ IF user THEN Dpl(ss) = 3 /\ ds \in {0, USER_SS}
                   ELSE ss \in {0, GDT_KERNEL_DATA} /\ ds = GDT_KERNEL_DATA
=============================================================================
