----------------------------- MODULE TrapProofs -----------------------------
(***************************************************************************)
(* Proofs about the way through the kernel, for any number of processes and *)
(* any interrupts: what lies on a kernel stack while its process is in the  *)
(* kernel, whoever runs in the meantime.                                    *)
(***************************************************************************)
EXTENDS Trap, SequenceTheorems, TLAPS

\* Variables that are functions of the processes are such, and no process is lost.
TrapTypes ==
    /\ current \in Process
    /\ where \in [Process -> Places \ {"lost"}]
    /\ version \in [Process -> {0, 1}] /\ live \in [Process -> SUBSET Reg]
    /\ home \in [Process -> Int] /\ vector \in [Process -> Nat] /\ frame \in [Process -> Int]
    /\ DOMAIN stack = Process /\ DOMAIN context = Process /\ DOMAIN regs = Reg
    /\ \A p \in Process : /\ DOMAIN stack[p] = 0 .. DEPTH
                          /\ DOMAIN context[p] = cpu_context_t \cup {"rip", "rsp"}

\* How deep the stack of a process is that is in the kernel: its stack pointer, which
\* switch_context has put away with its return address on top.
KernelDepth(p) == IF p = current THEN rsp ELSE context[p]["rsp"][3] - 1

\* The word behind the end of a stack, after the first instructions of its process: what
\* proc_entrypoint or enter_user_mode have pushed there.
WordAbove(p) == IF p \in Threads THEN <<p, "exit", 0>>
                ELSE IF p \in Users THEN <<USER_SS, "ss", 0>> ELSE Untouched

\* The stack below what an interrupt or a call adds.  A process that has not run owns
\* nothing yet.
Grounded(p) ==
    /\ p \in Users => home[p] = USER_RSP
    /\ p \notin Users => home[p] \in {0, 1}
    /\ where[p] \in {"new", "start"} => live[p] = {} /\ home[p] # 1
    /\ where[p] \in {"own", "trap", "call", "panic"} => stack[p][0] = WordAbove(p)
    /\ where[p] \in {"own", "trap", "call"} /\ home[p] = 1 =>
          stack[p][1] = Own(p, "local", version[p])

\* An interrupt has left a whole frame, and above it what interrupt_dispatch saved.
Framed(p) ==
    where[p] = "trap" =>
        /\ frame[p] \in 22 .. 24 /\ frame[p] >= 22 + home[p]
        /\ KernelDepth(p) = frame[p] + InC
        /\ Field(p, "int_no") = <<vector[p], "vector", 0>>
        /\ Field(p, "err_code") = <<IF vector[p] \in CpuErrorCodes THEN 1 ELSE 0, "error", 0>>
        /\ Field(p, "rip") = <<p, "rip", version[p]>>
        /\ Field(p, "rsp") = <<0, "rsp", home[p]>>
        /\ Field(p, "cs")[1] = IF p \in Users THEN USER_CS ELSE GDT_KERNEL_CODE
        /\ IF p \in Users THEN Field(p, "ss")[1] = USER_SS
           ELSE Field(p, "ss")[1] \in {0, GDT_KERNEL_DATA}
        /\ \A r \in live[p] : Field(p, r) = Own(p, r, version[p])

\* A call has left the return address and the registers of the caller.
Called(p) ==
    where[p] = "call" =>
        /\ p \in Threads
        /\ KernelDepth(p) = home[p] + InC
        /\ stack[p][home[p] + 1] = <<p, "rip", version[p]>>
        /\ \A i \in 1 .. 6 : Prologue[i] \in live[p] =>
              stack[p][home[p] + 1 + i] = Own(p, Prologue[i], version[p])

\* A process that does not run is new or has gone through switch_context.
PutAway(p) ==
    p # current =>
        /\ where[p] \in {"new", "trap", "call", "exit"}
        /\ where[p] = "new" => /\ p # IDLE
                               /\ context[p]["rip"] = EntryPoint(p)
                               /\ context[p]["rsp"] = <<0, "rsp", 0>>
                               /\ p \in Threads => context[p]["r12"] = Main(p)
        /\ where[p] \in {"trap", "call"} =>
              /\ context[p]["rip"] = <<p, where[p], 0>> /\ context[p]["rsp"][3] \in Int
              /\ \A r \in CalleeSaved : context[p][r] = Own(p, r, KERNEL)

\* The process that runs.
Running ==
    LET p == current IN
    /\ where[p] # "new"
    /\ where[p] = "start" => /\ p # IDLE /\ rsp = -1
                             /\ p \in Threads => regs["r12"] = Main(p)
    /\ where[p] = "own" => rsp = home[p] /\ \A r \in live[p] : regs[r] = Own(p, r, version[p])
    /\ where[p] \in {"trap", "call"} => \A r \in CalleeSaved : regs[r] = Own(p, r, KERNEL)

\* The selectors of the CPU.
Selected ==
    IF current \in Users /\ where[current] = "own"
    THEN cs = USER_CS /\ ss = USER_SS /\ ds \in {0, USER_SS}
    ELSE cs = GDT_KERNEL_CODE /\ ss \in {0, GDT_KERNEL_DATA} /\ ds = GDT_KERNEL_DATA

\* The inductive invariant.
Kept(p) == Grounded(p) /\ Framed(p) /\ Called(p) /\ PutAway(p)
TrapInv == TrapTypes /\ (\A p \in Process : Kept(p)) /\ Running /\ Selected

-----------------------------------------------------------------------------
(* Layouts *)

\* The fields of interrupt_frame_t by their place, counted from the lowest address.
LEMMA Places22 ==
    /\ Index("r15") = 1 /\ Index("r14") = 2 /\ Index("r13") = 3 /\ Index("r12") = 4
    /\ Index("r11") = 5 /\ Index("r10") = 6 /\ Index("r9") = 7 /\ Index("r8") = 8
    /\ Index("rbp") = 9 /\ Index("rdi") = 10 /\ Index("rsi") = 11 /\ Index("rdx") = 12
    /\ Index("rcx") = 13 /\ Index("rbx") = 14 /\ Index("rax") = 15
    /\ Index("int_no") = 16 /\ Index("err_code") = 17 /\ Index("rip") = 18
    /\ Index("cs") = 19 /\ Index("rflags") = 20 /\ Index("rsp") = 21 /\ Index("ss") = 22
<1>1. /\ Index("r15") = 1 /\ Index("r14") = 2 /\ Index("r13") = 3 /\ Index("r12") = 4
      /\ Index("r11") = 5 /\ Index("r10") = 6 /\ Index("r9") = 7
  BY DEF Index, interrupt_frame_t
<1>2. /\ Index("r8") = 8 /\ Index("rbp") = 9 /\ Index("rdi") = 10 /\ Index("rsi") = 11
      /\ Index("rdx") = 12 /\ Index("rcx") = 13 /\ Index("rbx") = 14 /\ Index("rax") = 15
  BY DEF Index, interrupt_frame_t
<1>3. /\ Index("int_no") = 16 /\ Index("err_code") = 17 /\ Index("rip") = 18
      /\ Index("cs") = 19 /\ Index("rflags") = 20 /\ Index("rsp") = 21 /\ Index("ss") = 22
  BY DEF Index, interrupt_frame_t
<1> QED BY <1>1, <1>2, <1>3

\* The registers, and which of them a C function keeps.
LEMMA RegIs ==
    /\ Reg = {"rax", "rbx", "rcx", "rdx", "rsi", "rdi", "rbp", "r8", "r9", "r10", "r11",
              "r12", "r13", "r14", "r15"}
    /\ CalleeSaved \subseteq Reg /\ cpu_context_t = CalleeSaved
    /\ "rip" \notin Reg /\ "rsp" \notin Reg
<1>1. DOMAIN Pushes = 1 .. 15
  BY DEF Pushes
<1>2. Reg = {"rax", "rbx", "rcx", "rdx", "rsi", "rdi", "rbp", "r8", "r9", "r10", "r11",
             "r12", "r13", "r14", "r15"}
  <2>1. \A i \in 1 .. 15 : i = 1 \/ i = 2 \/ i = 3 \/ i = 4 \/ i = 5 \/ i = 6 \/ i = 7 \/ i = 8
           \/ i = 9 \/ i = 10 \/ i = 11 \/ i = 12 \/ i = 13 \/ i = 14 \/ i = 15
    OBVIOUS
  <2> QED BY <1>1, <2>1 DEF Reg, Pushes
<1> QED BY <1>2 DEF CalleeSaved, cpu_context_t

\* Where isr_common pushes a register, and where it pops it.
LEMMA PushedWhereNamed ==
    ASSUME NEW r \in Reg
    PROVE  /\ Index(r) \in 1 .. 15 /\ Pops[Index(r)] = r /\ Pushes[16 - Index(r)] = r
           /\ \A i \in 1 .. 15 : Pops[i] = r => i = Index(r)
<1>1. \A i \in 1 .. 15 : i = 1 \/ i = 2 \/ i = 3 \/ i = 4 \/ i = 5 \/ i = 6 \/ i = 7 \/ i = 8
         \/ i = 9 \/ i = 10 \/ i = 11 \/ i = 12 \/ i = 13 \/ i = 14 \/ i = 15
  OBVIOUS
<1> QED BY <1>1, RegIs, Places22 DEF Pops, Pushes

-----------------------------------------------------------------------------
(* Stacks *)

\* t is a stack that holds the words of s up to depth d, and then the words ws.
SameUpTo(t, s, d) == DOMAIN t = 0 .. DEPTH /\ \A i \in 0 .. DEPTH : i <= d => t[i] = s[i]
OnTop(t, s, d, ws) ==
    /\ SameUpTo(t, s, d)
    /\ \A k \in 1 .. Len(ws) : d + k \in 0 .. DEPTH => t[d + k] = ws[k]

\* Pushing words leaves the words below them and stores each at its depth.
LEMMA PushIs ==
    ASSUME NEW s, DOMAIN s = 0 .. DEPTH, NEW d \in Int, NEW ws, Len(ws) \in Nat
    PROVE  OnTop(Push(s, d, ws), s, d, ws)
<1>1. DOMAIN Push(s, d, ws) = 0 .. DEPTH
  BY DEF Push
<1>2. ASSUME NEW i \in 0 .. DEPTH, i <= d PROVE Push(s, d, ws)[i] = s[i]
  <2>1. i \notin (d + 1) .. (d + Len(ws))
    BY <1>2
  <2> QED BY <2>1 DEF Push
<1>3. ASSUME NEW k \in 1 .. Len(ws), d + k \in 0 .. DEPTH PROVE Push(s, d, ws)[d + k] = ws[k]
  <2>1. d + k \in (d + 1) .. (d + Len(ws)) /\ (d + k) - d = k
    OBVIOUS
  <2> QED BY <1>3, <2>1 DEF Push
<1> QED BY <1>1, <1>2, <1>3 DEF OnTop, SameUpTo

\* t consists of the words of r and then of those of s, all of them in S.
Joined(t, r, s, S) ==
    /\ t \in Seq(S) /\ Len(t) = Len(r) + Len(s)
    /\ \A k \in 1 .. Len(r) + Len(s) : t[k] = IF k <= Len(r) THEN r[k] ELSE s[k - Len(r)]

LEMMA ConcatJoins ==
    ASSUME NEW S, NEW r \in Seq(S), NEW s \in Seq(S)
    PROVE  Joined(r \o s, r, s, S)
BY ConcatProperties, Zenon DEF Joined

\* Giving words back leaves the others.
LEMMA UpToIs ==
    ASSUME NEW s, DOMAIN s = 0 .. DEPTH, NEW d \in Int
    PROVE  SameUpTo(UpTo(s, d), s, d)
BY DEF UpTo, SameUpTo

\* A call of a C function: the return address and the registers of the prologue.
Saved(ret) == <<ret>> \o Words(Prologue)

LEMMA SavedIs ==
    ASSUME NEW ret
    PROVE  /\ Len(Saved(ret)) = 7 /\ InC = 7 /\ Saved(ret)[1] = ret
           /\ \A i \in 1 .. 6 : Saved(ret)[1 + i] = regs[Prologue[i]]
<1>1. Len(Prologue) = 6 /\ DOMAIN Prologue = 1 .. 6 /\ InC = 7
  BY DEF Prologue, InC
<1>2. PICK S : S = {ret} \cup {regs[Prologue[i]] : i \in 1 .. 6}
  OBVIOUS
<1>3. /\ <<ret>> \in Seq(S) /\ Words(Prologue) \in Seq(S) /\ Len(Words(Prologue)) = 6
      /\ \A i \in 1 .. 6 : Words(Prologue)[i] = regs[Prologue[i]]
  BY <1>1, <1>2 DEF Words
<1>4. Joined(Saved(ret), <<ret>>, Words(Prologue), S)
  BY <1>3, ConcatJoins DEF Saved
<1>5. \A i \in 1 .. 6 : 1 + i \in 1 .. 7 /\ ~(1 + i <= 1) /\ (1 + i) - 1 = i
  OBVIOUS
<1> QED BY <1>1, <1>3, <1>4, <1>5 DEF Joined

\* t is the stack s with these words above depth d.
Entered(t, s, d, ret) ==
    /\ SameUpTo(t, s, d) /\ t[d + 1] = ret
    /\ \A i \in 1 .. 6 : t[d + 1 + i] = regs[Prologue[i]]

LEMMA EnterCIs ==
    ASSUME NEW s, DOMAIN s = 0 .. DEPTH, NEW d \in Int, d >= -1, d + 7 <= DEPTH, NEW ret
    PROVE  Entered(EnterC(s, d, ret), s, d, ret)
<1>1. EnterC(s, d, ret) = Push(s, d, Saved(ret))
  BY DEF EnterC, Saved
<1>2. OnTop(EnterC(s, d, ret), s, d, Saved(ret))
  BY <1>1, PushIs, SavedIs
<1>3. \A k \in 1 .. 7 : d + k \in 0 .. DEPTH
  BY TrapAssumption
<1>4. \A k \in 1 .. 7 : EnterC(s, d, ret)[d + k] = Saved(ret)[k]
  BY <1>2, <1>3, SavedIs DEF OnTop
<1>5. \A i \in 1 .. 6 : 1 + i \in 1 .. 7 /\ d + (1 + i) = d + 1 + i
  OBVIOUS
<1> QED BY <1>2, <1>4, <1>5, SavedIs DEF OnTop, Entered

\* What an interrupt pushes: the words of the CPU, of the stub and of isr_common.
Frame(p, v) == HardwareFrame(p, v) \o Stub(v) \o Words(Pushes)

\* The words of a frame in the order of the pushes.
FrameWords(f, p, v) ==
    /\ Len(f) = 22
    /\ f[1] = <<ss, "ss", 0>> /\ f[2] = <<0, "rsp", rsp>>
    /\ f[4] = <<cs, "cs", 0>> /\ f[5] = <<p, "rip", version[p]>>
    /\ f[6] = <<IF v \in CpuErrorCodes THEN 1 ELSE 0, "error", 0>>
    /\ f[7] = <<v, "vector", 0>>
    /\ \A j \in 1 .. 15 : f[7 + j] = regs[Pushes[j]]

\* The frame has a word for every field, with and without an error code.
LEMMA FrameIs ==
    ASSUME NEW p, NEW v
    PROVE  FrameWords(Frame(p, v), p, v)
<1>1. PICK h : h = << <<ss, "ss", 0>>, <<0, "rsp", rsp>>, <<0, "rflags", 0>>, <<cs, "cs", 0>>,
                      <<p, "rip", version[p]>> >>
  OBVIOUS
<1>2. PICK e, w : e = << <<IF v \in CpuErrorCodes THEN 1 ELSE 0, "error", 0>> >>
                  /\ w = << <<v, "vector", 0>> >>
  OBVIOUS
<1>3. PICK S : S = {h[i] : i \in 1 .. 5} \cup {e[1], w[1]} \cup {regs[Pushes[i]] : i \in 1 .. 15}
  OBVIOUS
<1>4. /\ Words(Pushes) \in Seq(S) /\ Len(Words(Pushes)) = 15
      /\ \A i \in 1 .. 15 : Words(Pushes)[i] = regs[Pushes[i]]
  <2>1. Len(Pushes) = 15 /\ DOMAIN Pushes = 1 .. 15
    BY DEF Pushes
  <2> QED BY <1>3, <2>1 DEF Words
<1>5. h \in Seq(S) /\ Len(h) = 5 /\ e \in Seq(S) /\ Len(e) = 1 /\ w \in Seq(S) /\ Len(w) = 1
  BY <1>1, <1>2, <1>3
<1>6. PICK head : head = HardwareFrame(p, v) \o Stub(v)
  OBVIOUS
<1>7. /\ head \in Seq(S) /\ Len(head) = 7 /\ \A k \in 1 .. 5 : head[k] = h[k]
      /\ head[6] = e[1] /\ head[7] = w[1]
  <2>1. v \in CpuErrorCodes <=> v \in ISR_ERR
    BY DEF CpuErrorCodes, ISR_ERR
  <2>2. << >> \o w = w /\ h \o << >> = h
    BY <1>5, ConcatEmptySeq
  <2>3. CASE v \in CpuErrorCodes
    <3>1. PICK he : he = h \o e
      OBVIOUS
    <3>2. head = he \o w
      BY <1>1, <1>2, <1>6, <2>1, <2>2, <2>3, <3>1 DEF HardwareFrame, Stub
    <3>3. Joined(he, h, e, S)
      BY <1>5, <3>1, ConcatJoins
    <3>4. Joined(head, he, w, S)
      <4>1. he \in Seq(S)
        BY <3>3 DEF Joined
      <4> QED BY <1>5, <3>2, <4>1, ConcatJoins
    <3> QED BY <1>5, <3>3, <3>4 DEF Joined
  <2>4. CASE v \notin CpuErrorCodes
    <3>1. PICK ew : ew = e \o w
      OBVIOUS
    <3>2. head = h \o ew
      BY <1>1, <1>2, <1>6, <2>1, <2>2, <2>4, <3>1 DEF HardwareFrame, Stub
    <3>3. Joined(ew, e, w, S)
      BY <1>5, <3>1, ConcatJoins
    <3>4. Joined(head, h, ew, S)
      <4>1. ew \in Seq(S)
        BY <3>3 DEF Joined
      <4> QED BY <1>5, <3>2, <4>1, ConcatJoins
    <3> QED BY <1>5, <3>3, <3>4 DEF Joined
  <2> QED BY <2>3, <2>4
<1>8. Frame(p, v) = head \o Words(Pushes)
  BY <1>6 DEF Frame
<1>9. Joined(Frame(p, v), head, Words(Pushes), S)
  BY <1>4, <1>7, <1>8, ConcatJoins
<1>10. Len(Frame(p, v)) = 22 /\ \A k \in 1 .. 7 : Frame(p, v)[k] = head[k]
  BY <1>4, <1>7, <1>9 DEF Joined
<1>11. ASSUME NEW j \in 1 .. 15 PROVE Frame(p, v)[7 + j] = regs[Pushes[j]]
  <2>1. 7 + j \in 1 .. 22 /\ ~(7 + j <= 7) /\ (7 + j) - 7 = j
    OBVIOUS
  <2>2. \A k \in 1 .. 22 : Frame(p, v)[k] = IF k <= 7 THEN head[k] ELSE Words(Pushes)[k - 7]
    <3>1. \A k \in 1 .. Len(head) + Len(Words(Pushes)) :
             Frame(p, v)[k] = IF k <= Len(head) THEN head[k] ELSE Words(Pushes)[k - Len(head)]
      BY <1>9, Zenon DEF Joined
    <3>2. Len(head) = 7 /\ Len(head) + Len(Words(Pushes)) = 22
      BY <1>4, <1>7
    <3> QED BY <3>1, <3>2
  <2>3. Frame(p, v)[7 + j] = Words(Pushes)[j]
    BY <2>1, <2>2
  <2> QED BY <1>4, <2>3
<1>12. /\ Frame(p, v)[1] = <<ss, "ss", 0>> /\ Frame(p, v)[2] = <<0, "rsp", rsp>>
       /\ Frame(p, v)[4] = <<cs, "cs", 0>> /\ Frame(p, v)[5] = <<p, "rip", version[p]>>
  <2>1. Frame(p, v)[1] = h[1] /\ Frame(p, v)[2] = h[2] /\ Frame(p, v)[4] = h[4]
        /\ Frame(p, v)[5] = h[5]
    BY <1>7, <1>10
  <2> QED BY <1>1, <2>1
<1>13. Frame(p, v)[6] = e[1] /\ Frame(p, v)[7] = w[1]
  BY <1>7, <1>10
<1> QED BY <1>2, <1>10, <1>11, <1>12, <1>13 DEF FrameWords

-----------------------------------------------------------------------------
(* The steps *)

\* IDLE is neither a thread nor a user process; selectors are four different numbers.
LEMMA Kinds ==
    /\ IDLE \in Process /\ IDLE \notin Threads /\ IDLE \notin Users
    /\ \A p \in Process : p = IDLE \/ p \in Threads \/ p \in Users
    /\ \A p \in Threads : p \notin Users
    /\ USER_CS = 27 /\ USER_SS = 35 /\ GDT_KERNEL_CODE = 8 /\ GDT_KERNEL_DATA = 16
    /\ USER_RSP = -8 /\ KERNEL = 2 /\ InC = 7
<1>1. USER_CS = 27 /\ USER_SS = 35 /\ GDT_KERNEL_CODE = 8 /\ GDT_KERNEL_DATA = 16
      /\ USER_RSP = -8 /\ KERNEL = 2
  BY DEF USER_CS, USER_SS, GDT_KERNEL_CODE, GDT_KERNEL_DATA, USER_RSP, KERNEL
<1>2. InC = 7
  BY DEF InC, Prologue
<1> QED BY <1>1, <1>2, TrapAssumption DEF Process, IDLE

\* The descriptors behind the selectors.
LEMMA SegmentsAre ==
    /\ Ring(27) = 3 /\ Dpl(27) = 3 /\ IsCode(27) /\ ~IsLong(27)
    /\ Ring(35) = 3 /\ Dpl(35) = 3 /\ ~IsCode(35)
    /\ Ring(8) = 0 /\ Dpl(8) = 0 /\ IsCode(8) /\ IsLong(8)
    /\ Ring(16) = 0 /\ Dpl(16) = 0 /\ ~IsCode(16) /\ Ring(0) = 0 /\ ~IsCode(0)
BY DEF Ring, Dpl, IsCode, IsLong, Descriptor, gdt

LEMMA TrapInitKept == TrapInit => TrapInv
<1> SUFFICES ASSUME TrapInit PROVE TrapInv
  OBVIOUS
<1>1. TrapTypes
  BY Kinds DEF TrapInit, TrapTypes, Places
<1>2. \A p \in Process : where[p] = IF p = current THEN "own" ELSE "new"
  BY DEF TrapInit
<1>3. ASSUME NEW p \in Process PROVE Kept(p)
  <2>1. Grounded(p)
    <3>1. 0 \in 0 .. DEPTH /\ stack[p][0] = Untouched
      BY TrapAssumption DEF TrapInit
    <3> QED BY <1>2, <3>1, Kinds DEF TrapInit, Grounded, WordAbove
  <2>2. Framed(p) /\ Called(p)
    BY <1>2 DEF Framed, Called
  <2>3. PutAway(p)
    BY <1>2, Kinds DEF TrapInit, PutAway, cpu_context_t
  <2> QED BY <2>1, <2>2, <2>3 DEF Kept
<1>4. Running /\ Selected
  BY <1>2, Kinds DEF TrapInit, Running, Selected
<1> QED BY <1>1, <1>3, <1>4 DEF TrapInv

\* Nothing that belongs to q changes, and q runs neither before nor after.
Same(q) ==
    /\ where'[q] = where[q] /\ version'[q] = version[q] /\ live'[q] = live[q]
    /\ home'[q] = home[q] /\ vector'[q] = vector[q] /\ frame'[q] = frame[q]
    /\ stack'[q] = stack[q] /\ context'[q] = context[q]

LEMMA OtherKept ==
    ASSUME TrapInv, NEW q \in Process, q # current, q # current', Same(q)
    PROVE  Kept(q)'
<1>1. Kept(q)
  BY DEF TrapInv
<1>2. Grounded(q)'
  BY <1>1 DEF Same, Kept, Grounded
<1>3. Framed(q)'
  BY <1>1 DEF Same, Kept, Framed, KernelDepth, Field, Depth
<1>4. Called(q)'
  BY <1>1 DEF Same, Kept, Called, KernelDepth
<1>5. PutAway(q)'
  BY <1>1 DEF Same, Kept, PutAway
<1> QED BY <1>2, <1>3, <1>4, <1>5 DEF Kept

\* A step of the current process leaves the others alone.
OthersSame == current' = current /\ \A q \in Process : q # current => Same(q)

LEMMA OthersKept ==
    ASSUME TrapInv, OthersSame, Kept(current)'
    PROVE  \A q \in Process : Kept(q)'
BY OtherKept DEF OthersSame

\* A process computes.
LEMMA ComputeKeeps == ASSUME TrapInv, Compute PROVE TrapInv'
<1>1. PICK p \in Process : p = current
  BY DEF TrapInv, TrapTypes
<1>2. /\ where[p] = "own" /\ current' = current /\ where' = where /\ vector' = vector
      /\ cs' = cs /\ ss' = ss /\ ds' = ds /\ context' = context /\ frame' = frame
      /\ version' = [version EXCEPT ![p] = 1 - @] /\ live' = [live EXCEPT ![p] = Reg]
      /\ regs' = [r \in Reg |-> Own(p, r, version'[p])]
      /\ home' = [home EXCEPT ![p] = rsp']
  BY <1>1 DEF Compute
<1>3. TrapTypes /\ Kept(p) /\ Running
  BY <1>1 DEF TrapInv
<1>4. /\ DOMAIN stack[p] = 0 .. DEPTH /\ DOMAIN stack = Process
      /\ rsp = home[p] /\ (p \in Users => rsp = USER_RSP)
      /\ stack[p][0] = WordAbove(p)
  BY <1>1, <1>2, <1>3 DEF TrapTypes, Running, Kept, Grounded
<1>5. /\ DOMAIN stack' = Process /\ \A q \in Process : q # p => stack'[q] = stack[q]
      /\ DOMAIN stack'[p] = 0 .. DEPTH /\ stack'[p][0] = stack[p][0]
      /\ IF p \in Users THEN rsp' = USER_RSP
         ELSE rsp' \in {0, 1} /\ (rsp' = 1 => stack'[p][1] = Own(p, "local", version'[p]))
  <2>1. CASE p \in Users
    BY <1>1, <1>4, <2>1 DEF Compute
  <2>2. CASE p \notin Users
    <3>1. PICK d \in {0, 1} :
             /\ rsp' = d
             /\ stack' = [stack EXCEPT ![p] =
                   Push(UpTo(@, 0), 0, [i \in 1 .. d |-> Own(p, "local", version'[p])])]
      BY <1>1, <2>2 DEF Compute
    <3>2. PICK w : w = Own(p, "local", version'[p])
      OBVIOUS
    <3>3. PICK ws : ws = [i \in 1 .. d |-> w] /\ Len(ws) = d /\ (d = 1 => ws[1] = w)
      <4>1. [i \in 1 .. d |-> w] \in Seq({w}) /\ Len([i \in 1 .. d |-> w]) = d
        OBVIOUS
      <4>2. d = 1 => [i \in 1 .. d |-> w][1] = w
        OBVIOUS
      <4> QED BY <4>1, <4>2, Zenon
    <3>4. PICK s : s = UpTo(stack[p], 0) /\ SameUpTo(s, stack[p], 0)
      BY <1>4, UpToIs
    <3>5. OnTop(Push(s, 0, ws), s, 0, ws)
      BY <3>3, <3>4, PushIs DEF SameUpTo
    <3>6. stack' = [stack EXCEPT ![p] = Push(s, 0, ws)]
      BY <3>1, <3>2, <3>3, <3>4
    <3> HIDE DEF Push
    <3>7. 0 \in 0 .. DEPTH /\ 1 \in 0 .. DEPTH
      BY TrapAssumption
    <3> QED BY <1>4, <2>2, <3>1, <3>2, <3>3, <3>4, <3>5, <3>6, <3>7 DEF OnTop, SameUpTo
  <2> QED BY <2>1, <2>2
<1>6. TrapTypes'
  <2>1. version' \in [Process -> {0, 1}] /\ live' \in [Process -> SUBSET Reg] /\ DOMAIN regs' = Reg
    <3>1. 1 - version[p] \in {0, 1}
      <4>1. version[p] = 0 \/ version[p] = 1
        BY <1>3 DEF TrapTypes
      <4> QED BY <4>1
    <3> QED BY <1>2, <1>3, <3>1 DEF TrapTypes
  <2>2. home' \in [Process -> Int]
    BY <1>2, <1>3, <1>5, Kinds DEF TrapTypes
  <2> QED BY <1>2, <1>3, <1>5, <2>1, <2>2 DEF TrapTypes
<1>7. OthersSame
  BY <1>1, <1>2, <1>3, <1>5 DEF OthersSame, Same, TrapTypes
<1>8. home'[p] = rsp' /\ live'[p] = Reg /\ where'[p] = "own"
  BY <1>2, <1>3 DEF TrapTypes
<1>9. Kept(p)'
  BY <1>1, <1>2, <1>4, <1>5, <1>8, Kinds DEF Kept, Grounded, Framed, Called, PutAway
<1>10. Running'
  BY <1>1, <1>2, <1>8 DEF Running
<1>11. Selected'
  BY <1>2 DEF TrapInv, Selected
<1> QED BY <1>1, <1>2, <1>6, <1>7, <1>9, <1>10, <1>11, OthersKept DEF TrapInv

\* What a C function in the kernel has in its registers.
LEMMA KernelRegsAre ==
    ASSUME NEW p
    PROVE  DOMAIN KernelRegs(p) = Reg /\ \A r \in CalleeSaved : KernelRegs(p)[r] = Own(p, r, KERNEL)
BY RegIs DEF KernelRegs

\* Where an interrupt starts to push: at the end of the stack, or at most one word above
\* the word that is in use.
LEMMA TrapBaseIs ==
    ASSUME TrapInv, where[current] = "own"
    PROVE  TrapBase \in 0 .. 2 /\ home[current] <= TrapBase /\ home[current] \in Int
<1>1. PICK p \in Process : p = current
  BY DEF TrapInv, TrapTypes
<1>2. Kept(p) /\ Running /\ Selected
  BY <1>1 DEF TrapInv
<1>3. CASE p \in Users
  <2>1. cs = 27 /\ home[p] = -8
    BY <1>1, <1>2, <1>3, Kinds DEF Kept, Grounded, Selected
  <2>2. Ring(27) = 3
    BY DEF Ring
  <2> QED BY <1>1, <2>1, <2>2 DEF TrapBase
<1>4. CASE p \notin Users
  <2>1. cs = 8 /\ home[p] \in {0, 1} /\ rsp = home[p]
    BY <1>1, <1>2, <1>4, Kinds DEF Kept, Grounded, Selected, Running
  <2>2. Ring(8) = 0
    BY DEF Ring
  <2>3. TrapBase = Aligned(rsp)
    BY <2>1, <2>2 DEF TrapBase
  <2>4. CASE home[p] = 0
    BY <1>1, <2>1, <2>3, <2>4 DEF Aligned
  <2>5. CASE home[p] = 1
    BY <1>1, <2>1, <2>3, <2>5 DEF Aligned
  <2> QED BY <2>1, <2>4, <2>5
<1> QED BY <1>3, <1>4

\* t is a stack that holds the words of s up to depth b, and then a frame.
FrameAt(t, s, b, p, v) ==
    /\ DOMAIN t = 0 .. DEPTH
    /\ \A i \in 0 .. DEPTH : i <= b => t[i] = s[i]
    /\ t[b + 1] = <<ss, "ss", 0>> /\ t[b + 2] = <<0, "rsp", rsp>>
    /\ t[b + 4] = <<cs, "cs", 0>> /\ t[b + 5] = <<p, "rip", version[p]>>
    /\ t[b + 6] = <<IF v \in CpuErrorCodes THEN 1 ELSE 0, "error", 0>>
    /\ t[b + 7] = <<v, "vector", 0>>
    /\ \A r \in Reg : t[b + 23 - Index(r)] = regs[r]

\* The stack after the frame has been pushed and interrupt_dispatch has been called.
LEMMA FramePushed ==
    ASSUME NEW p, NEW v, NEW s, DOMAIN s = 0 .. DEPTH, NEW b \in 0 .. 2, NEW t,
           t = EnterC(Push(s, b, Frame(p, v)), b + 22, <<p, "stub", 0>>)
    PROVE  FrameAt(t, s, b, p, v)
<1>0. PICK f : f = Frame(p, v) /\ FrameWords(f, p, v)
  BY FrameIs
<1>1. PICK u : u = Push(s, b, f)
  OBVIOUS
<1>2. OnTop(u, s, b, f)
  <2>1. Len(f) \in Nat /\ b \in Int
    BY <1>0 DEF FrameWords
  <2> QED BY <1>1, <2>1, PushIs
<1>3. SameUpTo(t, u, b + 22)
  <2>1. b + 22 \in Int /\ b + 22 >= -1 /\ (b + 22) + 7 <= DEPTH
    BY TrapAssumption
  <2>2. DOMAIN u = 0 .. DEPTH
    BY <1>2 DEF OnTop, SameUpTo
  <2> QED BY <1>0, <1>1, <2>1, <2>2, EnterCIs DEF Entered
<1>4. \A k \in 1 .. 22 : b + k \in 0 .. DEPTH /\ b + k <= b + 22
  BY TrapAssumption
<1>5. \A k \in 1 .. 22 : t[b + k] = f[k]
  <2>1. \A k \in 1 .. 22 : t[b + k] = u[b + k]
    BY <1>3, <1>4 DEF SameUpTo
  <2>2. \A k \in 1 .. 22 : u[b + k] = f[k]
    BY <1>0, <1>2, <1>4 DEF OnTop, FrameWords
  <2> QED BY <2>1, <2>2
<1>6. DOMAIN t = 0 .. DEPTH /\ \A i \in 0 .. DEPTH : i <= b => t[i] = s[i]
  <2>1. \A i \in 0 .. DEPTH : i <= b => i <= b + 22
    OBVIOUS
  <2> QED BY <1>2, <1>3, <2>1 DEF OnTop, SameUpTo
<1>7. ASSUME NEW r \in Reg PROVE t[b + 23 - Index(r)] = regs[r]
  <2>1. PICK j \in 1 .. 15 : Index(r) = 16 - j /\ Pushes[j] = r
    <3>1. Index(r) \in 1 .. 15 /\ Pushes[16 - Index(r)] = r
      BY PushedWhereNamed
    <3>2. 16 - Index(r) \in 1 .. 15 /\ Index(r) = 16 - (16 - Index(r))
      BY <3>1
    <3> QED BY <3>1, <3>2
  <2>2. b + 23 - Index(r) = b + (7 + j) /\ 7 + j \in 1 .. 22
    BY <2>1
  <2>3. f[7 + j] = regs[r]
    BY <1>0, <2>1 DEF FrameWords
  <2> QED BY <1>5, <2>2, <2>3
<1>8. /\ t[b + 1] = <<ss, "ss", 0>> /\ t[b + 2] = <<0, "rsp", rsp>>
      /\ t[b + 4] = <<cs, "cs", 0>> /\ t[b + 5] = <<p, "rip", version[p]>>
      /\ t[b + 6] = <<IF v \in CpuErrorCodes THEN 1 ELSE 0, "error", 0>>
      /\ t[b + 7] = <<v, "vector", 0>>
  <2>1. /\ t[b + 1] = f[1] /\ t[b + 2] = f[2] /\ t[b + 4] = f[4]
        /\ t[b + 5] = f[5] /\ t[b + 6] = f[6] /\ t[b + 7] = f[7]
    BY <1>5
  <2> QED BY <1>0, <2>1 DEF FrameWords
<1> QED BY <1>6, <1>7, <1>8 DEF FrameAt

\* The way into interrupt_dispatch.
LEMMA InterruptKeeps == ASSUME TrapInv, NEW v \in Nat, isr_common(v) PROVE TrapInv'
<1>1. PICK p \in Process : p = current
  BY DEF TrapInv, TrapTypes
<1>2. PICK b : b = TrapBase
  OBVIOUS
<1>3. Len(Frame(p, v)) = 22
  BY FrameIs DEF FrameWords
<1>4. /\ where[p] = "own" /\ current' = current
      /\ where' = [where EXCEPT ![p] = "trap"] /\ vector' = [vector EXCEPT ![p] = v]
      /\ stack' = [stack EXCEPT ![p] =
                     EnterC(Push(@, b, Frame(p, v)), b + 22, <<p, "stub", 0>>)]
      /\ frame' = [frame EXCEPT ![p] = b + 22] /\ rsp' = b + 22 + InC
      /\ regs' = KernelRegs(p) /\ cs' = GDT_KERNEL_CODE
      /\ ss' = (IF Ring(cs) = 3 THEN 0 ELSE ss) /\ ds' = GDT_KERNEL_DATA
      /\ version' = version /\ live' = live /\ home' = home /\ context' = context
  BY <1>1, <1>2, <1>3 DEF isr_common, IsrData, Frame, userVars
<1>5. b \in 0 .. 2 /\ home[p] <= b /\ home[p] \in Int
  BY <1>1, <1>2, <1>4, TrapBaseIs
<1>6. TrapTypes /\ Kept(p) /\ Running /\ Selected
  BY <1>1 DEF TrapInv
<1>7. DOMAIN stack[p] = 0 .. DEPTH /\ DOMAIN stack = Process
  BY <1>6 DEF TrapTypes
<1>8. PICK t : t = EnterC(Push(stack[p], b, Frame(p, v)), b + 22, <<p, "stub", 0>>)
  OBVIOUS
<1>9. stack' = [stack EXCEPT ![p] = t]
  BY <1>4, <1>7, <1>8
<1>10. /\ DOMAIN t = 0 .. DEPTH
       /\ \A i \in 0 .. DEPTH : i <= b => t[i] = stack[p][i]
       /\ t[b + 1] = <<ss, "ss", 0>> /\ t[b + 2] = <<0, "rsp", rsp>>
       /\ t[b + 4] = <<cs, "cs", 0>> /\ t[b + 5] = <<p, "rip", version[p]>>
       /\ t[b + 6] = <<IF v \in CpuErrorCodes THEN 1 ELSE 0, "error", 0>>
       /\ t[b + 7] = <<v, "vector", 0>>
       /\ \A r \in Reg : t[b + 23 - Index(r)] = regs[r]
  <2>1. FrameAt(t, stack[p], b, p, v)
    BY <1>5, <1>7, <1>8, FramePushed
  <2> QED BY <2>1 DEF FrameAt
<1>11. TrapTypes'
  <2>1. where' \in [Process -> Places \ {"lost"}] /\ vector' \in [Process -> Nat]
    BY <1>4, <1>6 DEF TrapTypes, Places
  <2>2. frame' \in [Process -> Int]
    BY <1>4, <1>5, <1>6 DEF TrapTypes
  <2>3. DOMAIN stack' = Process /\ (\A q \in Process : DOMAIN stack'[q] = 0 .. DEPTH)
        /\ DOMAIN regs' = Reg
    BY <1>4, <1>6, <1>9, <1>10, KernelRegsAre DEF TrapTypes
  <2> QED BY <1>4, <1>6, <2>1, <2>2, <2>3 DEF TrapTypes
<1>12. OthersSame
  BY <1>1, <1>4, <1>6, <1>9 DEF OthersSame, Same, TrapTypes
<1>13. /\ where'[p] = "trap" /\ vector'[p] = v /\ stack'[p] = t /\ frame'[p] = b + 22
       /\ current' = p /\ version'[p] = version[p] /\ live'[p] = live[p] /\ home'[p] = home[p]
  BY <1>1, <1>4, <1>6, <1>9 DEF TrapTypes
<1>14. Grounded(p)'
  <2>1. 0 \in 0 .. DEPTH /\ 1 \in 0 .. DEPTH
    BY TrapAssumption
  <2>2. t[0] = stack[p][0] /\ (home[p] = 1 => t[1] = stack[p][1])
    BY <1>5, <1>10, <2>1
  <2> QED BY <1>4, <1>6, <1>13, <2>2 DEF Kept, Grounded
<1>15. Framed(p)'
  <2>1. frame'[p] \in 22 .. 24 /\ frame'[p] >= 22 + home'[p]
    BY <1>5, <1>13
  <2>2. KernelDepth(p)' = frame'[p] + InC
    BY <1>4, <1>13 DEF KernelDepth
  <2>3. \A f : Field(p, f)' = t[b + 22 + 1 - Index(f)]
    BY <1>13 DEF Field, Depth
  <2>4. /\ Field(p, "int_no")' = t[b + 7] /\ Field(p, "err_code")' = t[b + 6]
        /\ Field(p, "rip")' = t[b + 5] /\ Field(p, "cs")' = t[b + 4]
        /\ Field(p, "rsp")' = t[b + 2] /\ Field(p, "ss")' = t[b + 1]
    BY <1>5, <2>3, Places22
  <2>5. \A r \in live'[p] : Field(p, r)' = Own(p, r, version'[p])
    <3> SUFFICES ASSUME NEW r \in live[p] PROVE Field(p, r)' = Own(p, r, version[p])
      BY <1>13
    <3>1. r \in Reg /\ regs[r] = Own(p, r, version[p])
      BY <1>1, <1>4, <1>6 DEF TrapTypes, Running
    <3>2. b + 22 + 1 - Index(r) = b + 23 - Index(r)
      BY <1>5, <3>1, PushedWhereNamed
    <3> QED BY <1>10, <2>3, <3>1, <3>2
  <2>6. /\ cs = IF p \in Users THEN USER_CS ELSE GDT_KERNEL_CODE
        /\ IF p \in Users THEN ss = USER_SS ELSE ss \in {0, GDT_KERNEL_DATA}
    BY <1>1, <1>4, <1>6 DEF Selected
  <2>7. rsp = home[p]
    BY <1>1, <1>4, <1>6 DEF Running
  <2> QED BY <1>10, <1>13, <2>1, <2>2, <2>4, <2>5, <2>6, <2>7 DEF Framed
<1>16. Called(p)' /\ PutAway(p)'
  BY <1>13 DEF Called, PutAway
<1>17. Running'
  BY <1>1, <1>4, <1>13, KernelRegsAre DEF Running
<1>18. Selected'
  <2>1. CASE p \in Users
    <3>1. cs = USER_CS
      BY <1>1, <1>4, <1>6, <2>1 DEF Selected
    <3>2. ss' = 0
      BY <1>4, <3>1, Kinds DEF Ring
    <3> QED BY <1>4, <1>13, <3>2 DEF Selected
  <2>2. CASE p \notin Users
    <3>1. ss \in {0, GDT_KERNEL_DATA}
      BY <1>1, <1>6, <2>2 DEF Selected
    <3> QED BY <1>4, <1>13, <3>1 DEF Selected
  <2> QED BY <2>1, <2>2
<1>19. Kept(p)'
  BY <1>14, <1>15, <1>16 DEF Kept
<1> QED BY <1>1, <1>4, <1>11, <1>12, <1>17, <1>18, <1>19, OthersKept DEF TrapInv

\* An exception halts, and a process that exits is past caring: nothing but the place
\* changes.
LEMMA EndKeeps ==
    ASSUME TrapInv, NEW x \in {"panic", "exit"}, where' = [where EXCEPT ![current] = x],
           where[current] \in {"trap", "call"},
           UNCHANGED <<current, userVars, vector, cpuVars, stack, context, frame>>
    PROVE  TrapInv'
<1>1. PICK p \in Process : p = current
  BY DEF TrapInv, TrapTypes
<1>2. /\ current' = current /\ version' = version /\ live' = live /\ home' = home
      /\ vector' = vector /\ regs' = regs /\ cs' = cs /\ ss' = ss /\ ds' = ds /\ rsp' = rsp
      /\ stack' = stack /\ context' = context /\ frame' = frame
  BY DEF userVars, cpuVars
<1>3. TrapTypes /\ Kept(p) /\ Running /\ Selected
  BY <1>1 DEF TrapInv
<1>4. where'[p] = x /\ \A q \in Process : q # p => where'[q] = where[q]
  BY <1>1, <1>3 DEF TrapTypes
<1>5. TrapTypes'
  BY <1>2, <1>3 DEF TrapTypes, Places
<1>6. OthersSame
  BY <1>1, <1>2, <1>4 DEF OthersSame, Same
<1>7. Kept(p)'
  <2>1. Grounded(p)'
    BY <1>2, <1>3, <1>4 DEF Kept, Grounded
  <2> QED BY <1>1, <1>2, <1>4, <2>1 DEF Kept, Framed, Called, PutAway
<1>8. Running'
  BY <1>1, <1>2, <1>4 DEF Running
<1>9. Selected'
  BY <1>1, <1>2, <1>3, <1>4 DEF Selected
<1> QED BY <1>1, <1>5, <1>6, <1>7, <1>8, <1>9, OthersKept DEF TrapInv

\* A kernel thread calls into the kernel.
LEMMA CallKeeps == ASSUME TrapInv, KernelCall PROVE TrapInv'
<1>1. PICK p \in Process : p = current
  BY DEF TrapInv, TrapTypes
<1>2. /\ p \in Threads /\ where[p] = "own" /\ current' = current
      /\ where' = [where EXCEPT ![p] = "call"]
      /\ stack' = [stack EXCEPT ![p] = EnterC(@, rsp, <<p, "rip", version[p]>>)]
      /\ rsp' = rsp + InC /\ regs' = KernelRegs(p)
      /\ version' = version /\ live' = live /\ home' = home /\ context' = context
      /\ vector' = vector /\ cs' = cs /\ ss' = ss /\ ds' = ds /\ frame' = frame
  BY <1>1 DEF KernelCall, userVars
<1>3. TrapTypes /\ Kept(p) /\ Running /\ Selected
  BY <1>1 DEF TrapInv
<1>4. p \notin Users /\ rsp = home[p] /\ rsp \in {0, 1}
  BY <1>1, <1>2, <1>3, Kinds DEF Running, Kept, Grounded
<1>5. DOMAIN stack[p] = 0 .. DEPTH /\ DOMAIN stack = Process
  BY <1>3 DEF TrapTypes
<1>6. PICK t : t = EnterC(stack[p], rsp, <<p, "rip", version[p]>>)
  OBVIOUS
<1>7. stack' = [stack EXCEPT ![p] = t]
  BY <1>2, <1>5, <1>6
<1>8. /\ SameUpTo(t, stack[p], rsp) /\ t[rsp + 1] = <<p, "rip", version[p]>>
      /\ \A i \in 1 .. 6 : t[rsp + 1 + i] = regs[Prologue[i]]
  <2>1. rsp \in Int /\ rsp >= -1 /\ rsp + 7 <= DEPTH
    BY <1>4, TrapAssumption
  <2>2. Entered(t, stack[p], rsp, <<p, "rip", version[p]>>)
    BY <1>5, <1>6, <2>1, EnterCIs
  <2> QED BY <2>2 DEF Entered
<1>9. TrapTypes'
  <2>1. DOMAIN stack' = Process /\ (\A q \in Process : DOMAIN stack'[q] = 0 .. DEPTH)
        /\ DOMAIN regs' = Reg
    BY <1>2, <1>3, <1>7, <1>8, KernelRegsAre DEF TrapTypes, SameUpTo
  <2> QED BY <1>2, <1>3, <2>1 DEF TrapTypes, Places
<1>10. OthersSame
  BY <1>1, <1>2, <1>3, <1>7 DEF OthersSame, Same, TrapTypes
<1>11. where'[p] = "call" /\ stack'[p] = t /\ current' = p
  BY <1>1, <1>2, <1>3, <1>7 DEF TrapTypes
<1>12. Grounded(p)'
  <2>1. 0 \in 0 .. DEPTH /\ 1 \in 0 .. DEPTH
    BY TrapAssumption
  <2>2. t[0] = stack[p][0] /\ (home[p] = 1 => t[1] = stack[p][1])
    BY <1>4, <1>8, <2>1 DEF SameUpTo
  <2> QED BY <1>2, <1>3, <1>11, <2>2 DEF Kept, Grounded
<1>13. Called(p)'
  <2>1. KernelDepth(p)' = home'[p] + InC
    BY <1>2, <1>4, <1>11 DEF KernelDepth
  <2>2. \A r \in live[p] : regs[r] = Own(p, r, version[p])
    BY <1>1, <1>2, <1>3 DEF Running
  <2> QED BY <1>2, <1>4, <1>8, <1>11, <2>1, <2>2 DEF Called
<1>14. Framed(p)' /\ PutAway(p)'
  BY <1>11 DEF Framed, PutAway
<1>15. Kept(p)'
  BY <1>12, <1>13, <1>14 DEF Kept
<1>16. Running'
  BY <1>2, <1>11, KernelRegsAre DEF Running
<1>17. Selected'
  BY <1>1, <1>2, <1>3, <1>4, <1>11 DEF Selected
<1> QED BY <1>1, <1>2, <1>9, <1>10, <1>15, <1>16, <1>17, OthersKept DEF TrapInv

\* The words of a frame are read where they have been pushed.
LEMMA IntNoIs ==
    ASSUME TrapInv, NEW p \in Process, where[p] = "trap"
    PROVE  IntNo(p) = vector[p] /\ vector[p] \in Nat
BY DEF TrapInv, TrapTypes, Kept, Framed, IntNo

\* What isr_common pops into the registers.
LEMMA PopIs ==
    ASSUME NEW s, NEW d \in Int, NEW r \in Reg
    PROVE  Pop(s, d, Pops)[r] = s[d + 1 - Index(r)]
<1>1. DOMAIN Pops = 1 .. 15
  BY DEF Pops
<1>2. Index(r) \in 1 .. 15 /\ Pops[Index(r)] = r /\ \A i \in 1 .. 15 : Pops[i] = r => i = Index(r)
  BY PushedWhereNamed
<1>3. (CHOOSE i \in DOMAIN Pops : Pops[i] = r) = Index(r)
  BY <1>1, <1>2
<1> QED BY <1>1, <1>2, <1>3 DEF Pop

\* interrupt_dispatch and isr_common return to the code that was interrupted.
LEMMA ReturnKeeps == ASSUME TrapInv, isr_return PROVE TrapInv'
<1>1. PICK p \in Process : p = current
  BY DEF TrapInv, TrapTypes
<1>2. PICK s : s = IF IntNo(p) = 128
                   THEN [stack[p] EXCEPT ![Depth(p, "rax")] = <<p, "result", 0>>] ELSE stack[p]
  OBVIOUS
<1>3. PICK d : d = rsp - InC
  OBVIOUS
<1>4. /\ where[p] = "trap" /\ current' = current
      /\ regs' = Pop(s, d, Pops) /\ Iretq(p, s, d - Len(Pops) - 2, ds)
      /\ stack' = [stack EXCEPT ![p] = UpTo(s, IF Ring(cs') = 3 THEN 0 ELSE rsp')]
      /\ live' = [live EXCEPT ![p] = IF IntNo(p) = 128 THEN @ \ {"rax"} ELSE @]
      /\ vector' = [vector EXCEPT ![p] = 0] /\ frame' = [frame EXCEPT ![p] = 0]
      /\ version' = version /\ home' = home /\ context' = context
  BY <1>1, <1>2, <1>3 DEF isr_return
<1>5. TrapTypes /\ Kept(p) /\ Running /\ Selected
  BY <1>1 DEF TrapInv
<1>6. Grounded(p) /\ Framed(p)
  BY <1>5 DEF Kept
<1>7. d = frame[p] /\ frame[p] \in 22 .. 24 /\ home[p] \in Int /\ frame[p] >= 22 + home[p]
  BY <1>1, <1>3, <1>4, <1>5, <1>6, Kinds DEF Framed, KernelDepth, TrapTypes
<1>8. DOMAIN stack[p] = 0 .. DEPTH /\ DOMAIN stack = Process
  BY <1>5 DEF TrapTypes
<1>9. /\ DOMAIN s = 0 .. DEPTH /\ \A i \in 0 .. DEPTH : i # frame[p] - 14 => s[i] = stack[p][i]
      /\ IntNo(p) # 128 => s = stack[p]
  <2>1. Depth(p, "rax") = frame[p] - 14
    BY <1>7, Places22 DEF Depth
  <2> QED BY <1>2, <1>8, <2>1
<1>10. /\ s[d - 17] = <<p, "rip", version[p]>> /\ s[d - 20] = <<0, "rsp", home[p]>>
       /\ s[d - 18][1] = (IF p \in Users THEN USER_CS ELSE GDT_KERNEL_CODE)
       /\ IF p \in Users THEN s[d - 21][1] = USER_SS ELSE s[d - 21][1] \in {0, GDT_KERNEL_DATA}
  <2>1. \A i \in {17, 18, 20, 21} : d - i \in 0 .. DEPTH /\ d - i # frame[p] - 14
    BY <1>7, TrapAssumption
  <2>2. \A i \in {17, 18, 20, 21} : s[d - i] = stack[p][d - i]
    BY <1>9, <2>1
  <2>3. /\ Field(p, "rip") = stack[p][d - 17] /\ Field(p, "cs") = stack[p][d - 18]
        /\ Field(p, "rsp") = stack[p][d - 20] /\ Field(p, "ss") = stack[p][d - 21]
    BY <1>7, Places22 DEF Field, Depth
  <2> QED BY <1>4, <1>6, <2>2, <2>3 DEF Framed
<1>11. /\ where' = [where EXCEPT ![p] = "own"] /\ rsp' = home[p]
       /\ cs' = (IF p \in Users THEN USER_CS ELSE GDT_KERNEL_CODE)
       /\ IF p \in Users THEN ss' = USER_SS /\ ds' = 0
          ELSE ss' \in {0, GDT_KERNEL_DATA} /\ ds' = GDT_KERNEL_DATA
  <2>1. Iretq(p, s, d - 17, ds)
    <3>1. Len(Pops) = 15
      BY DEF Pops
    <3>2. d - 15 - 2 = d - 17
      BY <1>7
    <3> QED BY <1>4, <3>1, <3>2
  <2>2. (d - 17) - 1 = d - 18 /\ (d - 17) - 3 = d - 20 /\ (d - 17) - 4 = d - 21
    BY <1>7
  <2>3. ds = GDT_KERNEL_DATA
    BY <1>1, <1>4, <1>5 DEF Selected
  <2>4. ds' = IF p \in Users THEN 0 ELSE GDT_KERNEL_DATA
    <3>1. cs' = (IF p \in Users THEN USER_CS ELSE GDT_KERNEL_CODE)
      BY <1>10, <2>1, <2>2 DEF Iretq
    <3>2. ds' = IF Ring(cs') = 3 /\ Dpl(ds) < 3 THEN 0 ELSE ds
      BY <2>1 DEF Iretq
    <3> QED BY <2>3, <3>1, <3>2, Kinds, SegmentsAre
  <2> QED BY <1>10, <2>1, <2>2, <2>4 DEF Iretq
<1>12. PICK e \in Int : e = (IF Ring(cs') = 3 THEN 0 ELSE rsp') /\ e >= 0 /\ e >= home[p]
  <2>1. CASE p \in Users
    <3>1. Ring(cs') = 3 /\ home[p] = -8
      BY <1>4, <1>6, <1>11, <2>1, Kinds DEF Ring, Grounded
    <3> QED BY <3>1
  <2>2. CASE p \notin Users
    <3>1. Ring(cs') = 0 /\ home[p] \in {0, 1}
      BY <1>4, <1>6, <1>11, <2>2, Kinds DEF Ring, Grounded
    <3> QED BY <1>11, <3>1
  <2> QED BY <2>1, <2>2
<1>13. PICK t : t = UpTo(s, e) /\ SameUpTo(t, s, e)
  BY <1>9, UpToIs
<1>14. stack' = [stack EXCEPT ![p] = t]
  BY <1>4, <1>12, <1>13
<1>15. /\ where'[p] = "own" /\ stack'[p] = t /\ current' = p /\ live'[p] \subseteq live[p]
       /\ IntNo(p) = 128 => "rax" \notin live'[p]
  BY <1>1, <1>4, <1>5, <1>11, <1>14 DEF TrapTypes
<1>16. TrapTypes'
  <2>1. DOMAIN stack' = Process /\ (\A q \in Process : DOMAIN stack'[q] = 0 .. DEPTH)
    BY <1>5, <1>13, <1>14 DEF TrapTypes, SameUpTo
  <2>2. DOMAIN regs' = Reg
    BY <1>4 DEF Pop
  <2>3. live' \in [Process -> SUBSET Reg] /\ vector' \in [Process -> Nat] /\ frame' \in [Process -> Int]
    BY <1>4, <1>5 DEF TrapTypes
  <2> QED BY <1>4, <1>5, <1>11, <2>1, <2>2, <2>3 DEF TrapTypes, Places
<1>17. OthersSame
  BY <1>1, <1>4, <1>5, <1>11, <1>14 DEF OthersSame, Same, TrapTypes
<1>18. Grounded(p)'
  <2>1. 0 \in 0 .. DEPTH /\ 1 \in 0 .. DEPTH /\ 0 # frame[p] - 14 /\ 1 # frame[p] - 14
    BY <1>7, TrapAssumption
  <2>2. t[0] = stack[p][0] /\ (home[p] = 1 => t[1] = stack[p][1])
    BY <1>9, <1>12, <1>13, <2>1 DEF SameUpTo
  <2> QED BY <1>4, <1>6, <1>15, <2>2 DEF Grounded
<1>19. Kept(p)'
  BY <1>15, <1>18 DEF Kept, Framed, Called, PutAway
<1>20. Running'
  <2>1. ASSUME NEW r \in live'[p] PROVE regs'[r] = Own(p, r, version'[p])
    <3>1. r \in live[p] /\ r \in Reg /\ (IntNo(p) = 128 => r # "rax")
      BY <1>5, <1>15, <2>1 DEF TrapTypes
    <3>2. regs'[r] = s[d + 1 - Index(r)]
      BY <1>4, <1>7, <3>1, PopIs
    <3>3. s[d + 1 - Index(r)] = stack[p][d + 1 - Index(r)]
      <4>1. CASE IntNo(p) # 128
        BY <1>9, <4>1
      <4>2. CASE r # "rax"
        <5>1. Index(r) \in 1 .. 15 /\ Index(r) # 15
          <6>1. Pops[15] = "rax"
            BY DEF Pops
          <6> QED BY <3>1, <4>2, <6>1, PushedWhereNamed
        <5>2. d + 1 - Index(r) \in 0 .. DEPTH /\ d + 1 - Index(r) # frame[p] - 14
          BY <1>7, <5>1, TrapAssumption
        <5> QED BY <1>9, <5>2
      <4> QED BY <3>1, <4>1, <4>2
    <3>4. Field(p, r) = stack[p][d + 1 - Index(r)]
      BY <1>7 DEF Field, Depth
    <3> QED BY <1>4, <1>6, <3>1, <3>2, <3>3, <3>4 DEF Framed
  <2> QED BY <1>4, <1>11, <1>15, <2>1 DEF Running
<1>21. Selected'
  BY <1>11, <1>15 DEF Selected
<1> QED BY <1>1, <1>4, <1>16, <1>17, <1>19, <1>20, <1>21, OthersKept DEF TrapInv

\* What a C function pops into a register before it returns.
LEMMA LeaveCIs ==
    ASSUME NEW p, NEW r \in CalleeSaved, rsp \in Int
    PROVE  \E i \in 1 .. 6 : Prologue[i] = r /\ LeaveC(p)[r] = stack[p][rsp - 6 + i]
<1>1. Reverse(Prologue) = <<"rbx", "rbp", "r12", "r13", "r14", "r15">>
  BY DEF Prologue, Reverse
<1>2. PICK rs : rs = Reverse(Prologue)
  OBVIOUS
<1>3. DOMAIN rs = 1 .. 6
  BY <1>1, <1>2
<1>4. \E j \in 1 .. 6 : rs[j] = r /\ Prologue[7 - j] = r
  BY <1>1, <1>2 DEF CalleeSaved, Prologue
<1>5. PICK j \in 1 .. 6 : rs[j] = r /\ Prologue[7 - j] = r
  BY <1>4
<1>6. \A k \in 1 .. 6 : rs[k] = r => k = j
  BY <1>1, <1>2, <1>5
<1>7. (CHOOSE k \in DOMAIN rs : rs[k] = r) = j
  BY <1>3, <1>5, <1>6
<1>8. r \in Reg
  BY RegIs
<1>9. LeaveC(p)[r] = stack[p][rsp + 1 - j]
  <2>1. LeaveC(p)[r] = Pop(stack[p], rsp, rs)[r]
    BY <1>2, <1>8 DEF LeaveC
  <2>2. Pop(stack[p], rsp, rs)[r] = stack[p][rsp + 1 - j]
    BY <1>3, <1>5, <1>7, <1>8 DEF Pop
  <2> QED BY <2>1, <2>2
<1>10. 7 - j \in 1 .. 6 /\ rsp - 6 + (7 - j) = rsp + 1 - j
  OBVIOUS
<1> QED BY <1>5, <1>9, <1>10

\* A kernel function returns to the thread that called it.
LEMMA CallReturnKeeps == ASSUME TrapInv, CallReturn PROVE TrapInv'
<1>1. PICK p \in Process : p = current
  BY DEF TrapInv, TrapTypes
<1>2. /\ where[p] = "call" /\ current' = current
      /\ where' = [where EXCEPT ![p] =
                      IF ReturnWord(p) = <<p, "rip", version[p]>> THEN "own" ELSE "lost"]
      /\ regs' = LeaveC(p) /\ rsp' = rsp - InC
      /\ stack' = [stack EXCEPT ![p] = UpTo(@, rsp')]
      /\ live' = [live EXCEPT ![p] = @ \cap CalleeSaved]
      /\ version' = version /\ home' = home /\ context' = context
      /\ vector' = vector /\ cs' = cs /\ ss' = ss /\ ds' = ds /\ frame' = frame
  BY <1>1 DEF CallReturn
<1>3. TrapTypes /\ Grounded(p) /\ Called(p) /\ Running /\ Selected
  BY <1>1 DEF TrapInv, Kept
<1>4. /\ p \in Threads /\ p \notin Users /\ home[p] \in {0, 1} /\ rsp = home[p] + 7
      /\ rsp' = home[p] /\ rsp \in Int
  BY <1>1, <1>2, <1>3, Kinds DEF Grounded, Called, KernelDepth
<1>5. where' = [where EXCEPT ![p] = "own"]
  <2>1. Len(Prologue) = 6 /\ rsp - 6 = home[p] + 1
    BY <1>4 DEF Prologue
  <2>2. ReturnWord(p) = <<p, "rip", version[p]>>
    BY <1>2, <1>3, <2>1 DEF ReturnWord, Called
  <2> QED BY <1>2, <2>2
<1>6. PICK t : t = UpTo(stack[p], home[p]) /\ SameUpTo(t, stack[p], home[p])
  BY <1>3, <1>4, UpToIs DEF TrapTypes
<1>7. stack' = [stack EXCEPT ![p] = t]
  BY <1>2, <1>3, <1>4, <1>6 DEF TrapTypes
<1>8. where'[p] = "own" /\ stack'[p] = t /\ current' = p /\ live'[p] = live[p] \cap CalleeSaved
  BY <1>1, <1>2, <1>3, <1>5, <1>7 DEF TrapTypes
<1>9. TrapTypes'
  <2>1. DOMAIN stack' = Process /\ (\A q \in Process : DOMAIN stack'[q] = 0 .. DEPTH)
    BY <1>3, <1>6, <1>7 DEF TrapTypes, SameUpTo
  <2>2. DOMAIN regs' = Reg
    BY <1>2 DEF LeaveC
  <2>3. live' \in [Process -> SUBSET Reg]
    BY <1>2, <1>3 DEF TrapTypes
  <2> QED BY <1>2, <1>3, <1>5, <2>1, <2>2, <2>3 DEF TrapTypes, Places
<1>10. OthersSame
  BY <1>1, <1>2, <1>3, <1>5, <1>7 DEF OthersSame, Same, TrapTypes
<1>11. Grounded(p)'
  <2>1. 0 \in 0 .. DEPTH /\ 1 \in 0 .. DEPTH
    BY TrapAssumption
  <2>2. t[0] = stack[p][0] /\ (home[p] = 1 => t[1] = stack[p][1])
    BY <1>4, <1>6, <2>1 DEF SameUpTo
  <2> QED BY <1>2, <1>3, <1>8, <2>2 DEF Grounded
<1>12. Kept(p)'
  BY <1>8, <1>11 DEF Kept, Framed, Called, PutAway
<1>13. Running'
  <2>1. ASSUME NEW r \in live'[p] PROVE regs'[r] = Own(p, r, version'[p])
    <3>1. r \in live[p] /\ r \in CalleeSaved
      BY <1>8, <2>1
    <3>2. PICK i \in 1 .. 6 : Prologue[i] = r /\ LeaveC(p)[r] = stack[p][rsp - 6 + i]
      BY <1>4, <3>1, LeaveCIs
    <3>3. rsp - 6 + i = home[p] + 1 + i
      BY <1>4
    <3> QED BY <1>2, <1>3, <3>1, <3>2, <3>3 DEF Called
  <2> QED BY <1>2, <1>4, <1>8, <2>1 DEF Running
<1>14. Selected'
  BY <1>1, <1>2, <1>3, <1>4, <1>8 DEF Selected
<1> QED BY <1>1, <1>2, <1>9, <1>10, <1>12, <1>13, <1>14, OthersKept DEF TrapInv

\* proc_entrypoint calls the main function of a thread.
LEMMA EntryKeeps == ASSUME TrapInv, proc_entrypoint PROVE TrapInv'
<1>1. PICK p \in Process : p = current
  BY DEF TrapInv, TrapTypes
<1>2. /\ where[p] = "start" /\ p \in Threads /\ current' = current
      /\ stack' = [stack EXCEPT ![p] = Push(@, rsp, << <<p, "exit", 0>> >>)]
      /\ rsp' = rsp + 1
      /\ where' = [where EXCEPT ![p] = IF regs["r12"] = Main(p) THEN "own" ELSE "lost"]
      /\ version' = version /\ home' = home /\ context' = context /\ live' = live
      /\ vector' = vector /\ cs' = cs /\ ss' = ss /\ ds' = ds /\ frame' = frame /\ regs' = regs
  BY <1>1 DEF proc_entrypoint, userVars
<1>3. TrapTypes /\ Grounded(p) /\ Running /\ Selected
  BY <1>1 DEF TrapInv, Kept
<1>4. /\ p \notin Users /\ rsp = -1 /\ rsp' = 0 /\ home[p] = 0 /\ live[p] = {}
      /\ where' = [where EXCEPT ![p] = "own"]
  <2>1. p \notin Users
    BY <1>2, Kinds
  <2>2. rsp = -1 /\ regs["r12"] = Main(p)
    BY <1>1, <1>2, <1>3 DEF Running
  <2>3. home[p] = 0 /\ live[p] = {}
    BY <1>2, <1>3, <2>1 DEF Grounded
  <2> QED BY <1>2, <2>1, <2>2, <2>3
<1>5. DOMAIN stack[p] = 0 .. DEPTH /\ DOMAIN stack = Process
  BY <1>3 DEF TrapTypes
<1>6. PICK ws : ws = << <<p, "exit", 0>> >>
  OBVIOUS
<1>7. PICK t : t = Push(stack[p], -1, ws) /\ OnTop(t, stack[p], -1, ws)
  <2>1. Len(ws) \in Nat /\ -1 \in Int
    BY <1>6
  <2> QED BY <1>5, <2>1, PushIs
<1>8. DOMAIN t = 0 .. DEPTH /\ t[0] = <<p, "exit", 0>>
  <2>1. Len(ws) = 1 /\ ws[1] = <<p, "exit", 0>> /\ -1 + 1 \in 0 .. DEPTH /\ -1 + 1 = 0
    BY <1>6, TrapAssumption
  <2> QED BY <1>7, <2>1 DEF OnTop, SameUpTo
<1>9. stack' = [stack EXCEPT ![p] = t]
  BY <1>2, <1>4, <1>5, <1>6, <1>7
<1>10. where'[p] = "own" /\ stack'[p] = t /\ current' = p
  BY <1>1, <1>2, <1>3, <1>4, <1>9 DEF TrapTypes
<1>11. TrapTypes'
  BY <1>2, <1>3, <1>4, <1>8, <1>9 DEF TrapTypes, Places
<1>12. OthersSame
  BY <1>1, <1>2, <1>3, <1>4, <1>9 DEF OthersSame, Same, TrapTypes
<1>13. Kept(p)'
  <2>1. Grounded(p)'
    <3>1. home'[p] = 0 /\ p \notin Users
      BY <1>2, <1>4
    <3>2. stack'[p][0] = WordAbove(p) /\ where'[p] = "own"
      BY <1>2, <1>8, <1>10 DEF WordAbove
    <3> QED BY <3>1, <3>2 DEF Grounded
  <2> QED BY <1>10, <2>1 DEF Kept, Framed, Called, PutAway
<1>14. Running' /\ Selected'
  BY <1>1, <1>2, <1>3, <1>4, <1>10 DEF Running, Selected
<1> QED BY <1>1, <1>2, <1>11, <1>12, <1>13, <1>14, OthersKept DEF TrapInv

\* proc_entry_user and enter_user_mode.
LEMMA EntryUserKeeps == ASSUME TrapInv, proc_entry_user PROVE TrapInv'
<1>1. PICK p \in Process : p = current
  BY DEF TrapInv, TrapTypes
<1>2. PICK ws : ws = << <<USER_SS, "ss", 0>>, <<0, "rsp", USER_RSP>>, <<0, "rflags", 0>>,
                        <<USER_CS, "cs", 0>>, <<p, "rip", version[p]>> >>
  OBVIOUS
<1>3. PICK s : s = Push(stack[p], rsp, ws)
  OBVIOUS
<1>4. /\ where[p] = "start" /\ p \in Users /\ current' = current
      /\ stack' = [stack EXCEPT ![p] = UpTo(s, 0)] /\ Iretq(p, s, rsp + 5, USER_SS)
      /\ version' = version /\ home' = home /\ context' = context /\ live' = live
      /\ vector' = vector /\ frame' = frame /\ regs' = regs
  BY <1>1, <1>2, <1>3 DEF proc_entry_user, userVars
<1>5. TrapTypes /\ Grounded(p) /\ Running /\ Selected
  BY <1>1 DEF TrapInv, Kept
<1>6. rsp = -1 /\ home[p] = USER_RSP /\ live[p] = {} /\ p \notin Threads
  BY <1>1, <1>4, <1>5, Kinds DEF Running, Grounded
<1>7. OnTop(s, stack[p], -1, ws)
  <2>1. Len(ws) \in Nat /\ -1 \in Int /\ DOMAIN stack[p] = 0 .. DEPTH
    BY <1>2, <1>5 DEF TrapTypes
  <2> QED BY <1>3, <1>6, <2>1, PushIs
<1>8. s[0] = ws[1] /\ s[1] = ws[2] /\ s[3] = ws[4] /\ s[4] = ws[5]
  <2>1. Len(ws) = 5
    BY <1>2
  <2>2. \A k \in 1 .. 5 : -1 + k \in 0 .. DEPTH
    BY TrapAssumption
  <2>3. \A k \in 1 .. 5 : s[-1 + k] = ws[k]
    BY <1>7, <2>1, <2>2 DEF OnTop
  <2>4. -1 + 1 = 0 /\ -1 + 2 = 1 /\ -1 + 4 = 3 /\ -1 + 5 = 4
    OBVIOUS
  <2> QED BY <2>3, <2>4
<1>9. /\ where' = [where EXCEPT ![p] = "own"] /\ cs' = USER_CS /\ ss' = USER_SS
      /\ rsp' = USER_RSP /\ ds' \in {0, USER_SS}
  <2>1. rsp + 5 = 4 /\ 4 - 1 = 3 /\ 4 - 3 = 1 /\ 4 - 4 = 0
    BY <1>6
  <2>2. Iretq(p, s, 4, USER_SS)
    BY <1>4, <2>1
  <2>3. /\ s[4] = <<p, "rip", version[p]>> /\ s[3] = <<USER_CS, "cs", 0>>
        /\ s[1] = <<0, "rsp", USER_RSP>> /\ s[0] = <<USER_SS, "ss", 0>>
    BY <1>2, <1>8
  <2>4. s[4] = <<p, "rip", version[p]>> /\ s[3][1] = USER_CS /\ s[1][3] = USER_RSP /\ s[0][1] = USER_SS
    BY <2>3
  <2> QED BY <2>1, <2>2, <2>4 DEF Iretq
<1>10. PICK t : t = UpTo(s, 0) /\ SameUpTo(t, s, 0)
  <2>1. DOMAIN s = 0 .. DEPTH /\ 0 \in Int
    BY <1>7 DEF OnTop, SameUpTo
  <2> QED BY <2>1, UpToIs
<1>11. stack' = [stack EXCEPT ![p] = t]
  BY <1>4, <1>10
<1>12. where'[p] = "own" /\ stack'[p] = t /\ current' = p
  BY <1>1, <1>4, <1>5, <1>9, <1>11 DEF TrapTypes
<1>13. TrapTypes'
  BY <1>4, <1>5, <1>9, <1>10, <1>11 DEF TrapTypes, Places, SameUpTo
<1>14. OthersSame
  BY <1>1, <1>4, <1>5, <1>9, <1>11 DEF OthersSame, Same, TrapTypes
<1>15. Kept(p)'
  <2>1. 0 \in 0 .. DEPTH
    BY TrapAssumption
  <2>2. t[0] = <<USER_SS, "ss", 0>>
    BY <1>2, <1>8, <1>10, <2>1 DEF SameUpTo
  <2>3. WordAbove(p) = <<USER_SS, "ss", 0>>
    BY <1>4, <1>6 DEF WordAbove
  <2>4. Grounded(p)'
    BY <1>4, <1>6, <1>12, <2>2, <2>3, Kinds DEF Grounded
  <2> QED BY <1>12, <2>4 DEF Kept, Framed, Called, PutAway
<1>16. Running' /\ Selected'
  BY <1>1, <1>4, <1>6, <1>9, <1>12 DEF Running, Selected
<1> QED BY <1>1, <1>4, <1>13, <1>14, <1>15, <1>16, OthersKept DEF TrapInv

\* The main function of a thread returns into proc_entrypoint.
LEMMA MainReturnsKeeps == ASSUME TrapInv, MainReturns PROVE TrapInv'
<1>1. PICK p \in Process : p = current
  BY DEF TrapInv, TrapTypes
<1>2. /\ where[p] = "own" /\ p \in Threads /\ home[p] = 0 /\ current' = current
      /\ where' = [where EXCEPT ![p] = IF stack[p][rsp] = <<p, "exit", 0>> THEN "exit" ELSE "lost"]
      /\ stack' = [stack EXCEPT ![p] = EnterC(@, rsp - 1, <<p, "hang", 0>>)]
      /\ regs' = KernelRegs(p)
      /\ version' = version /\ home' = home /\ context' = context /\ live' = live
      /\ vector' = vector /\ cs' = cs /\ ss' = ss /\ ds' = ds /\ frame' = frame
  BY <1>1 DEF MainReturns, userVars
<1>3. TrapTypes /\ Grounded(p) /\ Running /\ Selected
  BY <1>1 DEF TrapInv, Kept
<1>4. p \notin Users /\ rsp = 0 /\ where' = [where EXCEPT ![p] = "exit"]
  BY <1>1, <1>2, <1>3, Kinds DEF Running, Grounded, WordAbove
<1>5. PICK t : t = EnterC(stack[p], rsp - 1, <<p, "hang", 0>>) /\ DOMAIN t = 0 .. DEPTH
  <2>1. PICK ws : EnterC(stack[p], rsp - 1, <<p, "hang", 0>>) = Push(stack[p], rsp - 1, ws)
    BY DEF EnterC
  <2>2. DOMAIN Push(stack[p], rsp - 1, ws) = 0 .. DEPTH
    BY <1>3 DEF TrapTypes, Push
  <2> QED BY <2>1, <2>2
<1>6. stack' = [stack EXCEPT ![p] = t]
  BY <1>2, <1>3, <1>5 DEF TrapTypes
<1>7. where'[p] = "exit" /\ current' = p
  BY <1>1, <1>2, <1>3, <1>4 DEF TrapTypes
<1>8. TrapTypes'
  BY <1>2, <1>3, <1>4, <1>5, <1>6, KernelRegsAre DEF TrapTypes, Places
<1>9. OthersSame
  BY <1>1, <1>2, <1>3, <1>4, <1>6 DEF OthersSame, Same, TrapTypes
<1>10. Kept(p)'
  BY <1>2, <1>3, <1>7 DEF Kept, Grounded, Framed, Called, PutAway
<1>11. Running' /\ Selected'
  BY <1>1, <1>2, <1>3, <1>4, <1>7 DEF Running, Selected
<1> QED BY <1>1, <1>2, <1>8, <1>9, <1>10, <1>11, OthersKept DEF TrapInv

\* How deep the stack of a process in the kernel can be.
LEMMA DepthIs ==
    ASSUME TrapInv, NEW q \in Process, where[q] \in {"trap", "call"}
    PROVE  KernelDepth(q) \in 7 .. 31
<1>1. Kept(q)
  BY DEF TrapInv
<1>2. CASE where[q] = "trap"
  BY <1>1, <1>2, Kinds DEF Kept, Framed
<1>3. CASE where[q] = "call"
  BY <1>1, <1>3, Kinds DEF Kept, Called, Grounded
<1> QED BY <1>2, <1>3

\* A process in the kernel needs nothing above its stack pointer.
LEMMA BelowSuffices ==
    ASSUME TrapInv, NEW q \in Process, where[q] \in {"trap", "call"},
           where'[q] = where[q], version'[q] = version[q], live'[q] = live[q],
           home'[q] = home[q], vector'[q] = vector[q], frame'[q] = frame[q],
           SameUpTo(stack'[q], stack[q], KernelDepth(q)), KernelDepth(q)' = KernelDepth(q)
    PROVE  Grounded(q)' /\ Framed(q)' /\ Called(q)'
<1>1. PICK s, t, k : s = stack[q] /\ t = stack'[q] /\ k = KernelDepth(q)
  OBVIOUS
<1>2. TrapTypes /\ Grounded(q) /\ Framed(q) /\ Called(q)
  BY DEF TrapInv, Kept
<1>3. k \in 7 .. 31 /\ \A i \in 0 .. DEPTH : i <= k => t[i] = s[i]
  BY <1>1, DepthIs DEF SameUpTo
<1>4. Grounded(q)'
  <2>1. 0 \in 0 .. DEPTH /\ 1 \in 0 .. DEPTH
    BY TrapAssumption
  <2>2. t[0] = s[0] /\ t[1] = s[1]
    BY <1>3, <2>1
  <2> QED BY <1>1, <1>2, <2>2 DEF Grounded
<1>5. CASE where[q] = "trap"
  <2>1. frame[q] \in 22 .. 24 /\ k = frame[q] + 7
    BY <1>1, <1>2, <1>5, Kinds DEF Framed
  <2>2. \A i \in 1 .. 22 : frame[q] + 1 - i \in 0 .. DEPTH /\ frame[q] + 1 - i <= k
    BY <2>1, TrapAssumption
  <2>3. \A f : Index(f) \in 1 .. 22 => Field(q, f)' = Field(q, f)
    BY <1>1, <1>3, <2>2 DEF Field, Depth
  <2>4. /\ Field(q, "int_no")' = Field(q, "int_no") /\ Field(q, "err_code")' = Field(q, "err_code")
        /\ Field(q, "rip")' = Field(q, "rip") /\ Field(q, "rsp")' = Field(q, "rsp")
        /\ Field(q, "cs")' = Field(q, "cs") /\ Field(q, "ss")' = Field(q, "ss")
    BY <2>3, Places22
  <2>5. \A r \in live[q] : Field(q, r)' = Field(q, r)
    <3> SUFFICES ASSUME NEW r \in live[q] PROVE Field(q, r)' = Field(q, r)
      OBVIOUS
    <3>1. r \in Reg
      BY <1>2 DEF TrapTypes
    <3>2. Index(r) \in 1 .. 22
      BY <3>1, PushedWhereNamed
    <3> QED BY <2>3, <3>2
  <2>6. Framed(q)'
    BY <1>2, <1>5, <2>4, <2>5 DEF Framed
  <2>7. Called(q)'
    BY <1>5 DEF Called
  <2> QED BY <1>4, <2>6, <2>7
<1>6. CASE where[q] = "call"
  <2>1. home[q] \in {0, 1} /\ k = home[q] + 7
    BY <1>1, <1>2, <1>6, Kinds DEF Called, Grounded
  <2>2. \A i \in 0 .. 6 : home[q] + 1 + i \in 0 .. DEPTH /\ home[q] + 1 + i <= k
    BY <2>1, TrapAssumption
  <2>3. \A i \in 0 .. 6 : t[home[q] + 1 + i] = s[home[q] + 1 + i]
    BY <1>3, <2>2
  <2>4. t[home[q] + 1] = s[home[q] + 1]
    <3>1. 0 \in 0 .. 6 /\ home[q] + 1 + 0 = home[q] + 1
      BY <2>1
    <3> QED BY <2>3, <3>1
  <2>5. \A i \in 1 .. 6 : t[home[q] + 1 + i] = s[home[q] + 1 + i]
    BY <2>3
  <2>6. Called(q)'
    BY <1>1, <1>2, <1>6, <2>4, <2>5 DEF Called
  <2>7. Framed(q)'
    BY <1>6 DEF Framed
  <2> QED BY <1>4, <2>6, <2>7
<1> QED BY <1>5, <1>6

\* switch_context: the process that ran is put away, and the other one finds what it had.
LEMMA SwitchKeeps ==
    ASSUME TrapInv, NEW q \in Process, switch_context(q)
    PROVE  TrapInv' /\ (where[q] # "new" => where'[q] = where[q])
<1>1. PICK p \in Process : p = current
  BY DEF TrapInv, TrapTypes
<1>2. PICK w : w = <<p, where[p], 0>>
  OBVIOUS
<1>3. PICK saved : saved = Push(stack[p], rsp, <<w>>)
  OBVIOUS
<1>4. PICK c : c = [r \in DOMAIN context[p] |->
                      CASE r = "rip" -> saved[rsp + 1]
                        [] r = "rsp" -> <<0, "rsp", rsp + 1>>
                        [] OTHER -> IF r \in cpu_context_t THEN regs[r] ELSE context[p][r]]
  OBVIOUS
<1>5. PICK new : new = [context EXCEPT ![p] = c][q]
  OBVIOUS
<1>6. TrapTypes /\ Kept(p) /\ Kept(q) /\ Running /\ Selected
  BY <1>1 DEF TrapInv
<1>7. /\ where[p] \in {"trap", "call", "exit"} /\ where[q] # "exit" /\ current' = q
      /\ context' = [context EXCEPT ![p] = c]
      /\ stack' = [[stack EXCEPT ![p] = saved] EXCEPT ![q] =
                     IF new["rsp"][3] = 0 THEN Push(@, -1, <<new["rip"]>>)
                     ELSE UpTo(@, new["rsp"][3] - 1)]
      /\ rsp' = new["rsp"][3] - 1
      /\ regs' = [r \in Reg |-> IF r \in cpu_context_t THEN new[r]
                                ELSE IF r = "rax" THEN new["rip"] ELSE regs[r]]
      /\ where' = [where EXCEPT ![q] = CASE new["rip"] = EntryPoint(q) -> "start"
                                         [] new["rip"] = <<q, where[q], 0>> -> where[q]
                                         [] OTHER -> "lost"]
      /\ version' = version /\ live' = live /\ home' = home /\ vector' = vector
      /\ cs' = cs /\ ss' = ss /\ ds' = ds /\ frame' = frame
  BY <1>1, <1>2, <1>3, <1>4, <1>5, <1>6 DEF switch_context, SavedRsp, userVars, TrapTypes
<1>8. /\ DOMAIN c = cpu_context_t \cup {"rip", "rsp"} /\ c["rip"] = saved[rsp + 1]
      /\ c["rsp"] = <<0, "rsp", rsp + 1>> /\ \A r \in cpu_context_t : c[r] = regs[r]
  BY <1>4, <1>6 DEF TrapTypes, cpu_context_t
<1>9. DOMAIN saved = 0 .. DEPTH
  BY <1>3, <1>6 DEF TrapTypes, Push
<1>10. ASSUME where[p] \in {"trap", "call"}
       PROVE  /\ rsp \in 7 .. 31 /\ KernelDepth(p) = rsp /\ SameUpTo(saved, stack[p], rsp)
              /\ c["rip"] = w
  <2>1. rsp \in 7 .. 31 /\ KernelDepth(p) = rsp
    BY <1>1, <1>10, DepthIs DEF KernelDepth
  <2>2. PICK ws : ws = <<w>> /\ Len(ws) = 1 /\ ws[1] = w
    <3>1. Len(<<w>>) = 1 /\ <<w>>[1] = w
      OBVIOUS
    <3> QED BY <3>1, Zenon
  <2>3. OnTop(saved, stack[p], rsp, ws)
    <3>1. Len(ws) \in Nat /\ rsp \in Int
      BY <2>1, <2>2
    <3>2. DOMAIN stack[p] = 0 .. DEPTH
      BY <1>6 DEF TrapTypes
    <3> QED BY <1>3, <2>2, <3>1, <3>2, PushIs
  <2>4. rsp + 1 \in 0 .. DEPTH
    BY <2>1, TrapAssumption
  <2> QED BY <1>8, <2>1, <2>2, <2>3, <2>4 DEF OnTop
<1>11. \A r \in Process : r # q => where'[r] = where[r]
  BY <1>6, <1>7 DEF TrapTypes
<1>12. \A r \in Process : r # q /\ r # p => Same(r)
  BY <1>6, <1>7, <1>11 DEF TrapTypes, Same
<1>13. context'[p] = c
  BY <1>6, <1>7 DEF TrapTypes
\* What q finds when it runs.
<1>14. PICK x, t : x = where'[q] /\ t = stack'[q]
  OBVIOUS
<1>15. /\ DOMAIN t = 0 .. DEPTH /\ x \in {"start", "trap", "call"} /\ Kept(q)' /\ Running'
       /\ where[q] # "new" => x = where[q]
  <2>1. CASE q # p /\ where[q] = "new"
    <3>1. /\ new = context[q] /\ new["rip"] = EntryPoint(q) /\ new["rsp"][3] = 0 /\ q # IDLE
          /\ q \in Threads => new["r12"] = Main(q)
      BY <1>1, <1>5, <1>6, <2>1 DEF TrapTypes, Kept, PutAway
    <3>2. x = "start" /\ rsp' = -1
      <4>1. where' = [where EXCEPT ![q] = "start"]
        <5>1. new["rip"] # <<q, where[q], 0>>
          BY <2>1, <3>1 DEF EntryPoint
        <5> QED BY <1>7, <3>1, <5>1
      <4>2. 0 - 1 = -1
        OBVIOUS
      <4> QED BY <1>6, <1>7, <1>14, <3>1, <4>1, <4>2 DEF TrapTypes
    <3>3. t = Push(stack[q], -1, <<new["rip"]>>)
      BY <1>6, <1>7, <1>14, <2>1, <3>1 DEF TrapTypes
    <3>4. DOMAIN t = 0 .. DEPTH
      BY <1>6, <3>3 DEF TrapTypes, Push
    <3>5. q \in Threads => regs'["r12"] = Main(q)
      <4>1. "r12" \in Reg /\ "r12" \in cpu_context_t
        BY RegIs DEF cpu_context_t
      <4> QED BY <1>7, <3>1, <4>1
    <3>6. Grounded(q)'
      BY <1>6, <1>7, <1>14, <2>1, <3>2 DEF Kept, Grounded
    <3>7. Kept(q)'
      BY <1>7, <1>14, <3>2, <3>6 DEF Kept, Framed, Called, PutAway
    <3>8. Running'
      BY <1>7, <1>14, <3>1, <3>2, <3>5 DEF Running
    <3> QED BY <2>1, <3>2, <3>4, <3>7, <3>8
  <2>2. CASE where[q] \in {"trap", "call"}
    <3>1. PICK k \in 7 .. 31 : k = KernelDepth(q)
      BY <2>2, DepthIs
    <3>2. /\ new["rip"] = <<q, where[q], 0>> /\ new["rsp"][3] = k + 1
          /\ \A r \in CalleeSaved : new[r] = Own(q, r, KERNEL)
      <4>1. CASE q = p
        <5>1. new = c /\ c["rip"] = <<q, where[q], 0>> /\ c["rsp"][3] = k + 1
          BY <1>2, <1>5, <1>6, <1>8, <1>10, <2>2, <3>1, <4>1 DEF TrapTypes
        <5> QED BY <1>1, <1>6, <1>8, <2>2, <4>1, <5>1, RegIs DEF Running
      <4>2. CASE q # p
        <5>1. new = context[q] /\ q # current
          BY <1>1, <1>5, <1>6, <4>2 DEF TrapTypes
        <5>2. k = new["rsp"][3] - 1
          BY <3>1, <5>1 DEF KernelDepth
        <5>3. new["rsp"][3] \in Int
          BY <1>6, <2>2, <5>1 DEF Kept, PutAway
        <5>4. new["rsp"][3] = k + 1
          BY <5>2, <5>3
        <5> QED BY <1>6, <2>2, <5>1, <5>4 DEF Kept, PutAway
      <4> QED BY <4>1, <4>2
    <3>3. rsp' = k /\ new["rsp"][3] # 0
      BY <1>7, <3>2
    <3>4. x = where[q]
      <4>1. new["rip"] # EntryPoint(q)
        BY <2>2, <3>2 DEF EntryPoint
      <4>2. where' = [where EXCEPT ![q] = where[q]]
        BY <1>7, <3>2, <4>1
      <4> QED BY <1>6, <1>14, <4>2 DEF TrapTypes
    <3>5. SameUpTo(t, stack[q], k)
      <4>1. PICK s : /\ s = [stack EXCEPT ![p] = saved][q] /\ DOMAIN s = 0 .. DEPTH
                     /\ SameUpTo(s, stack[q], k)
        <5>1. CASE q = p
          <6>1. [stack EXCEPT ![p] = saved][q] = saved
            BY <1>6, <5>1 DEF TrapTypes
          <6> QED BY <1>9, <1>10, <2>2, <3>1, <5>1, <6>1
        <5>2. CASE q # p
          <6>1. [stack EXCEPT ![p] = saved][q] = stack[q]
            BY <1>6, <5>2 DEF TrapTypes
          <6> QED BY <1>6, <6>1 DEF TrapTypes, SameUpTo
        <5> QED BY <5>1, <5>2
      <4>2. t = UpTo(s, k)
        <5>1. new["rsp"][3] - 1 = k
          BY <3>2
        <5> QED BY <1>6, <1>7, <1>14, <3>3, <4>1, <5>1 DEF TrapTypes
      <4>3. SameUpTo(t, s, k)
        BY <4>1, <4>2, UpToIs
      <4> QED BY <4>1, <4>3 DEF SameUpTo
    <3>6. KernelDepth(q)' = KernelDepth(q)
      BY <1>7, <3>1, <3>3 DEF KernelDepth
    <3>7. Grounded(q)' /\ Framed(q)' /\ Called(q)'
      BY <1>7, <1>14, <2>2, <3>1, <3>4, <3>5, <3>6, BelowSuffices
    <3>8. Kept(q)'
      BY <1>7, <3>7 DEF Kept, PutAway
    <3>9. \A r \in CalleeSaved : regs'[r] = Own(q, r, KERNEL)
      BY <1>7, <3>2, RegIs
    <3>10. Running'
      BY <1>7, <1>14, <2>2, <3>4, <3>9 DEF Running
    <3> QED BY <1>14, <2>2, <3>4, <3>5, <3>8, <3>10 DEF SameUpTo
  <2>3. where[q] \in {"new", "trap", "call"} /\ (q = p => where[q] # "new")
    <3>1. q = p => where[q] \in {"trap", "call"}
      BY <1>7
    <3>2. q # p => where[q] \in {"new", "trap", "call"}
      BY <1>1, <1>6, <1>7 DEF Kept, PutAway
    <3> QED BY <3>1, <3>2
  <2> QED BY <2>1, <2>2, <2>3
\* What is left of p.
<1>16. q # p => Kept(p)'
  <2> SUFFICES ASSUME q # p PROVE Kept(p)'
    OBVIOUS
  <2>1. stack'[p] = saved /\ where'[p] = where[p] /\ p # current'
    BY <1>6, <1>7, <1>11 DEF TrapTypes
  <2>2. CASE where[p] = "exit"
    <3>1. Grounded(p)'
      BY <1>6, <1>7, <2>1, <2>2 DEF Kept, Grounded
    <3> QED BY <2>1, <2>2, <3>1 DEF Kept, Framed, Called, PutAway
  <2>3. CASE where[p] \in {"trap", "call"}
    <3>1. rsp \in 7 .. 31 /\ KernelDepth(p) = rsp /\ SameUpTo(saved, stack[p], rsp) /\ c["rip"] = w
      BY <1>10, <2>3
    <3>2. c["rsp"][3] = rsp + 1 /\ c["rsp"][3] \in Int /\ (rsp + 1) - 1 = rsp
      BY <1>8, <3>1
    <3>3. KernelDepth(p)' = KernelDepth(p)
      BY <1>13, <2>1, <3>1, <3>2 DEF KernelDepth
    <3>4. Grounded(p)' /\ Framed(p)' /\ Called(p)'
      BY <1>7, <2>1, <2>3, <3>1, <3>3, BelowSuffices
    <3>5. \A r \in CalleeSaved : c[r] = Own(p, r, KERNEL)
      BY <1>1, <1>6, <1>8, <2>3, RegIs DEF Running
    <3>6. PutAway(p)'
      BY <1>2, <1>13, <2>1, <2>3, <3>1, <3>2, <3>5 DEF PutAway
    <3> QED BY <3>4, <3>6 DEF Kept
  <2> QED BY <1>7, <2>2, <2>3
<1>17. \A r \in Process : Kept(r)'
  <2> SUFFICES ASSUME NEW r \in Process PROVE Kept(r)'
    OBVIOUS
  <2>1. CASE r # q /\ r # p
    BY <1>1, <1>7, <1>12, <2>1, OtherKept
  <2> QED BY <1>15, <1>16, <2>1
<1>18. TrapTypes'
  <2>1. where' \in [Process -> Places \ {"lost"}]
    <3>1. where' = [where EXCEPT ![q] = x]
      BY <1>6, <1>7, <1>14 DEF TrapTypes
    <3> QED BY <1>6, <1>15, <3>1 DEF TrapTypes, Places
  <2>2. DOMAIN stack' = Process /\ \A r \in Process : DOMAIN stack'[r] = 0 .. DEPTH
    BY <1>6, <1>7, <1>9, <1>14, <1>15 DEF TrapTypes
  <2>3. DOMAIN context' = Process
        /\ \A r \in Process : DOMAIN context'[r] = cpu_context_t \cup {"rip", "rsp"}
    BY <1>6, <1>7, <1>8 DEF TrapTypes
  <2>4. DOMAIN regs' = Reg
    BY <1>7
  <2> QED BY <1>6, <1>7, <2>1, <2>2, <2>3, <2>4 DEF TrapTypes
<1>19. Selected'
  BY <1>1, <1>6, <1>7, <1>14, <1>15 DEF Selected
<1> QED BY <1>14, <1>15, <1>17, <1>18, <1>19 DEF TrapInv

-----------------------------------------------------------------------------
(* The theorems *)

LEMMA TrapNextKeeps == TrapInv /\ [TrapNext]_trapVars => TrapInv'
<1> SUFFICES ASSUME TrapInv, [TrapNext]_trapVars PROVE TrapInv'
  OBVIOUS
<1>1. CASE Compute
  BY <1>1, ComputeKeeps
<1>2. CASE Interrupt
  <2>1. PICK v \in ExtInts \cup Faults : isr_common(v)
    BY <1>2 DEF Interrupt
  <2>2. v \in Nat
    BY TrapAssumption
  <2> QED BY <2>1, <2>2, InterruptKeeps
<1>3. CASE SoftwareInterrupt
  <2>1. PICK v \in SoftInts : isr_common(IF v \in Gates /\ GateDpl(v) = 3 THEN v ELSE 13)
    BY <1>3 DEF SoftwareInterrupt
  <2>2. (IF v \in Gates /\ GateDpl(v) = 3 THEN v ELSE 13) \in Nat
    BY TrapAssumption
  <2> QED BY <2>1, <2>2, InterruptKeeps
<1>4. CASE exception
  BY <1>4, EndKeeps DEF exception
<1>5. CASE KernelCall
  BY <1>5, CallKeeps
<1>6. CASE proc_exit
  BY <1>6, EndKeeps DEF proc_exit
<1>7. CASE \E q \in Process : switch_context(q)
  BY <1>7, SwitchKeeps
<1>8. CASE isr_return
  BY <1>8, ReturnKeeps
<1>9. CASE CallReturn
  BY <1>9, CallReturnKeeps
<1>10. CASE proc_entrypoint
  BY <1>10, EntryKeeps
<1>11. CASE proc_entry_user
  BY <1>11, EntryUserKeeps
<1>12. CASE MainReturns
  BY <1>12, MainReturnsKeeps
<1>13. CASE UNCHANGED trapVars
  <2>1. /\ current' = current /\ version' = version /\ live' = live /\ home' = home
        /\ vector' = vector /\ regs' = regs /\ cs' = cs /\ ss' = ss /\ ds' = ds /\ rsp' = rsp
        /\ stack' = stack /\ context' = context /\ frame' = frame /\ where' = where
    BY <1>13 DEF trapVars, userVars, cpuVars
  <2>2. TrapTypes' /\ Running' /\ Selected'
    BY <2>1 DEF TrapInv, TrapTypes, Running, Selected
  <2>3. Kept(current)
    BY DEF TrapInv, TrapTypes
  <2>4. Kept(current)'
    BY <2>1, <2>3 DEF Kept, Grounded, Framed, Called, PutAway, KernelDepth, Field, Depth
  <2>5. OthersSame
    BY <2>1 DEF OthersSame, Same
  <2> QED BY <2>2, <2>4, <2>5, OthersKept DEF TrapInv
<1> QED BY <1>1, <1>2, <1>3, <1>4, <1>5, <1>6, <1>7, <1>8, <1>9, <1>10, <1>11, <1>12, <1>13
       DEF TrapNext, Halted

\* The invariant holds in every state.
THEOREM TrapInvariant == TrapSpec => []TrapInv
BY TrapInitKept, TrapNextKeeps, PTL DEF TrapSpec

\* However interrupts, calls and switches follow on each other, a process finds in its
\* registers what it had in them.
THEOREM RegistersStayKept == TrapSpec => []RegistersKept
<1>1. TrapInv => RegistersKept
  BY DEF TrapInv, Running, RegistersKept
<1> QED BY <1>1, TrapInvariant, PTL

\* The frame of a process in the kernel names the words of the interrupted code, whoever
\* runs in the meantime.
THEOREM FrameStaysIntact == TrapSpec => []FrameHoldsCaller
<1>1. TrapInv => FrameHoldsCaller
  BY DEF TrapInv, Kept, Framed, FrameHoldsCaller
<1> QED BY <1>1, TrapInvariant, PTL

\* No return is lost, and no stack pointer drifts.
THEOREM StackPointerReturns == TrapSpec => []StackReturns
<1>1. TrapInv => StackReturns
  BY DEF TrapInv, TrapTypes, Kept, Grounded, Running, StackReturns
<1> QED BY <1>1, TrapInvariant, PTL

\* The selectors of the CPU fit whoever runs, after every interrupt, switch and iretq,
\* although neither switch_context nor isr_common saves any.
THEOREM SelectorsStayFit == TrapSpec => []SelectorsFit
<1>1. TrapInv => SelectorsFit
  <2> SUFFICES ASSUME TrapInv PROVE SelectorsFit
    OBVIOUS
  <2>1. Selected
    BY DEF TrapInv
  <2>2. CASE current \in Users /\ where[current] = "own"
    <3>1. cs = 27 /\ ss = 35 /\ ds \in {0, USER_SS}
      BY <2>1, <2>2, Kinds DEF Selected
    <3> QED BY <2>2, <3>1, SegmentsAre DEF SelectorsFit
  <2>3. CASE ~(current \in Users /\ where[current] = "own")
    <3>1. cs = 8 /\ ss \in {0, 16} /\ ss \in {0, GDT_KERNEL_DATA} /\ ds = GDT_KERNEL_DATA
      BY <2>1, <2>3, Kinds DEF Selected
    <3> QED BY <2>3, <3>1, SegmentsAre DEF SelectorsFit
  <2> QED BY <2>2, <2>3
<1> QED BY <1>1, TrapInvariant, PTL

\* A process does not start twice, and one that has exited does not come back.
LEMMA PlacesStep ==
    ASSUME TrapInv, [TrapNext]_trapVars, NEW p \in Process, where[p] \notin {"new", "start"}
    PROVE  where'[p] \notin {"new", "start"} /\ (where[p] = "exit" => where'[p] = "exit")
<1>1. where \in [Process -> Places \ {"lost"}] /\ current \in Process
  BY DEF TrapInv, TrapTypes
<1>2. CASE \E q \in Process : switch_context(q)
  <2>1. PICK q \in Process : switch_context(q)
    BY <1>2
  <2>2. CASE p = q
    BY <2>1, <2>2, SwitchKeeps
  <2>3. CASE p # q
    <3>1. where'[p] = where[p]
      BY <1>1, <2>1, <2>3 DEF switch_context
    <3> QED BY <3>1
  <2> QED BY <2>2, <2>3
<1>3. CASE where' = where
  BY <1>3
<1>4. CASE \E x \in Places \ {"new", "start"} :
             where[current] # "exit" /\ where' = [where EXCEPT ![current] = x]
  BY <1>1, <1>4
<1>5. Compute \/ Halted \/ UNCHANGED trapVars => where' = where
  BY DEF Compute, Halted, trapVars
<1>6. Interrupt \/ SoftwareInterrupt =>
         where[current] = "own" /\ where' = [where EXCEPT ![current] = "trap"]
  BY DEF Interrupt, SoftwareInterrupt, isr_common
<1>7. exception \/ proc_exit =>
         /\ where[current] \in {"trap", "call"}
         /\ \E x \in {"panic", "exit"} : where' = [where EXCEPT ![current] = x]
  BY DEF exception, proc_exit
<1>8. KernelCall => where[current] = "own" /\ where' = [where EXCEPT ![current] = "call"]
  BY DEF KernelCall
<1>9. isr_return \/ CallReturn \/ proc_entrypoint \/ proc_entry_user =>
         /\ where[current] \in {"trap", "call", "start"}
         /\ \E x \in {"own", "lost"} : where' = [where EXCEPT ![current] = x]
  BY DEF isr_return, CallReturn, proc_entrypoint, proc_entry_user, Iretq
<1>10. MainReturns =>
         /\ where[current] = "own"
         /\ \E x \in {"exit", "lost"} : where' = [where EXCEPT ![current] = x]
  BY DEF MainReturns
<1> QED BY <1>2, <1>3, <1>4, <1>5, <1>6, <1>7, <1>8, <1>9, <1>10 DEF TrapNext, Places

\* Once a process has taken its first instructions, nothing it does stores into the word
\* behind its stack before its main function returns.
THEOREM NothingAboveLater == TrapSpec => WordAboveOnlyAtStart
<1>1. ASSUME TrapInv, TrapInv', [TrapNext]_trapVars
      PROVE  \A p \in Process : where[p] \notin {"new", "start"} /\ where'[p] # "exit"
                => stack'[p][0] = stack[p][0]
  <2> SUFFICES ASSUME NEW p \in Process, where[p] \notin {"new", "start"}, where'[p] # "exit"
               PROVE  stack'[p][0] = stack[p][0]
    OBVIOUS
  <2>1. where[p] # "exit" /\ where'[p] \notin {"new", "start"}
    BY <1>1, PlacesStep
  <2>2. /\ where[p] \in {"own", "trap", "call", "panic"}
        /\ where'[p] \in {"own", "trap", "call", "panic"}
    BY <1>1, <2>1 DEF TrapInv, TrapTypes, Places
  <2>3. stack[p][0] = WordAbove(p)
    BY <1>1, <2>2 DEF TrapInv, Kept, Grounded
  <2>4. stack'[p][0] = WordAbove(p)
    BY <1>1, <2>2 DEF TrapInv, Kept, Grounded, WordAbove
  <2> QED BY <2>3, <2>4
<1> QED BY <1>1, TrapInvariant, PTL DEF TrapSpec, WordAboveOnlyAtStart
=============================================================================
