# A verification of the colix kernel

colix is a small 64-bit kernel for one x86 CPU: a boot path, a physical and a
virtual memory manager, a kernel heap, a process table with a round-robin
scheduler, message passing between processes, system calls through `int 0x80`,
an initrd with an ELF loader, and a text console. This directory holds TLA+
models of its core, the TLC configurations that check them, and TLAPS proofs of
the properties that matter most. Paths below are relative to the repository's
root; `PROJECT.json` maps every definition to the lines it stands for.

## 1. Inventory

| Component | State | Operations | Used by / uses |
|---|---|---|---|
| Process manager (`kernel/proc/proc.c`, `proc_entry*.asm`) | `proc_table`, `current_proc`, `next_pid`, the tick counter | `proc_init`, `proc_create`, `proc_create_elf`, `schedule`, `sched_tick`, `proc_yield`, `proc_sleep`, `proc_wakeup`, `proc_exit`, `proc_find` | called by `kernel_main`, the timer handler, system calls and IPC; uses the heap, the PMM, the page tables, the TSS |
| Interrupt path (`idt.c`, `isr_stub.asm`, `pic_pit.c`, `context.asm`) | gates, registers and kernel stacks, RFLAGS.IF, the PIC's in-service bit, the TSS's `rsp0`, the saved contexts | `interrupt_dispatch`, `pic_send_eoi`, `switch_context`, `int 0x80` and `iretq`, `gdt_set_tss_rsp0` | shared by everything: it decides where a process can be interrupted |
| System calls (`syscall.c`) | none of its own | `syscall_handler`: exit, write, getpid, getppid, yield, sleep, send, receive | dispatches into the process manager and IPC |
| Message passing (`ipc/ipc.c`) | `msg_pool`, `msg_used`, and a linked queue per process | `msg_alloc`, `msg_free`, `ipc_send`, `ipc_recv` | wakes and sleeps through the process manager |
| Physical memory (`mm/pmm.c`) | a bitmap of page frames, a count, the position of the last search | `pmm_init`, `pmm_alloc`, `pmm_free`, aliases | page tables, process creation, ELF loader |
| Kernel heap (`kmalloc`, `kfree` in `mm/vmm.c`) | a list of block headers, `heap_ptr` | `kmalloc`, `kfree` | kernel stacks |
| Page tables (`mm/vmm.c`) | four-level tables in memory, a static pool of 64 tables | `vmm_init`, `vmm_map`, `vmm_unmap`, `vmm_resolve`, `vmm_new_pagedir`, `vmm_free_pagedir` | process creation, ELF loader |
| Initrd and ELF loader (`initrd.c`, `elf_loader.c`) | a table of the files in a cpio archive | `initrd_init`, `initrd_find`, `initrd_read`, `elf_load_from_initrd` | called by `kernel_main`; the loader uses the PMM and the page tables |
| Boot, descriptor tables, `kernel_main` (`boot.asm`, `gdt.c`, `main.c`) | GDT, TSS, the memory map | a straight line of set-up, `parse_mmap`, the search for the boot module; then process creation and the idle loop | everything |
| Entry to user mode (`proc_entry_user.asm`, `enter_user_mode` in `main.c`) | the first frame of a user process | `proc_entry_user` | scheduler |
| Console and serial port (`vga.c`, `serial.c`) | screen memory, cursor | `vga_putc`, `kprintf`, `panic` | `SYS_WRITE`, messages |
| Shell (`sh.c`) | none | writes through `syscall` | not linked into the kernel |

What is hard about this code, and what makes each part correct:

* **Everything shared is unlocked.** The process table is changed by the timer
  handler and by system calls; `msg_alloc` tests and sets `msg_used[i]` without
  disabling interrupts; `ipc_recv` looks at its queue under `cli`, restores the
  flags, and only then goes to sleep. That is correct only if the timer cannot
  interrupt these places. Whether it can depends on three pieces of hardware
  state (IF, the PIC's in-service bit, who is suspended in the handler), so the
  models carry all three.
* **The context switch is incomplete.** `switch_context` saves no RFLAGS, and
  the EOI of the timer is sent after `sched_tick()` returns, which is after the
  suspended process has been dispatched again. A process resumed inside a call
  inherits the interrupt flag of whoever gave way.
* **`schedule()` may return to a process that is asleep or dead** if it finds
  nothing READY. Correctness rests on the idle process being there always.
* **The idle loop halts.** Dispatched with IF clear or with IRQ0 in service, the
  machine stops for good.
* **One stack layout has four descriptions**: the words the CPU pushes (five or
  six), the pushes of `isr_common`, its pops, and `interrupt_frame_t`. The depth of
  a kernel stack has to come out right after any nesting of interrupts, calls and
  switches, a switch of a process to itself included, and a new process starts
  with its stack pointer at the very end of its stack.
* **Input from outside**: the memory map and the archive come from the boot loader.
  Sizes read from them move pointers before they are compared with anything, and
  padding is relative to the archive in one place and to memory in another.
* **Limits**: a pool of 128 messages for everyone, 64 processes, a bitmap of
  131072 frames, a next-fit search that has to wrap, a heap that never splits or
  merges, a screen whose column is not wrapped after a tab.

The hazards, each at its line and with the properties that would catch it going
wrong, are listed in `PROJECT.json`.

## 2. Modules

```
Proc ── RoundRobin ── MCRoundRobin
  │        └─ ProcProofs ─┐
  ├─ MCProc               │
  └─ Ipc ── MCIpc         │
       │ └─ IpcProofs ────┘
       └─ INSTANCE Mailbox
Pmm ── Boot ── MCBoot                KHeap ── MCKHeap
  │      └─ MemoryProofs ──────────────┘
  └─ INSTANCE PageAllocator
Vmm ── Loader ── MCLoader ── MCVmm   Initrd ── MCInitrd
  │      └─ VmmProofs                  └─ InitrdProofs
  └─ INSTANCE AddressSpace
Trap ── MCTrap                       Vga ── MCVga
  └─ TrapProofs                        └─ VgaProofs
SearchLemmas, used by ProcProofs, IpcProofs, MemoryProofs and VmmProofs
```

**Proc** models the process manager and the interrupt path. Its variables are
the fields of `proc_table` the scheduler uses (`proc_state`, `pid`, `is_user`,
`started`, `sleep_ticks`), `current_proc`, `next_pid`, `ticks` (modulo the time
slice), and the hardware: `iflag`, `in_service`, `rsp0`; `ctx[p]` says where the
saved context of `p` resumes and `sys[p]` how far it is in `int 0x80`. There is
one action per function: `proc_create`, `proc_create_elf`, `StartScheduler` (the
end of `kernel_main`), `timer_interrupt` (the whole IRQ0 path with the late
EOI), `int80`, `iretq`, `proc_yield`, `proc_sleep`, `proc_wakeup`, `proc_exit`,
`exception`. `schedule` and `switch_context` are operators these actions
share. A call into the kernel is one action: it could be interrupted only where
`iflag /\ ~in_service`, and the invariant `TimerOnlyInIdle`, proved of this
model, says that never holds while a process other than idle runs. (A call does
not change either variable before it switches, so the argument is not circular:
the state in which the first interrupt could come is a state of the model.)
`kernel_main` makes itself the idle process; only it creates processes, before
interrupts are on. The module takes any number and mix of kernel threads and
user processes that use the interface freely.

**RoundRobin** adds a history variable to Proc that counts how often a READY
process has been passed over.

**Ipc** extends Proc with the pool, the linked queues and the local variables of
`ipc_send` and `ipc_recv`. Unlike Proc, it has a step boundary at each
unprotected place: between finding a free message and marking it
(`SendFind`/`SendFill`), between filling and queueing (`SendEnqueue`, under
`cli`), and between the empty queue and the sleep (`RecvEmpty`/`RecvSleep`).
`timer_interrupt` may step in at each, whenever the hardware state allows. The
scan of `msg_alloc` and the filling of the message write nothing that others
read before the marking, so no finer boundary is observable. A send with a null
data pointer keeps the bytes the slot had before, as the code does.

**Trap** looks at the same paths from below: registers, selectors and kernel
stacks, word by word. Proc decides when a process can be interrupted and who runs
next; Trap leaves both open and asks what happens to the machine's state then. Its
actions are the interrupt stubs up to `interrupt_dispatch` (`Interrupt`,
`SoftwareInterrupt`, with the CPU's own part of the frame), `exception`,
`KernelCall`, `switch_context`, the ways out (`isr_return`, `CallReturn`) and the
first and last steps of a process (`proc_entrypoint`, `proc_entry_user`,
`MainReturns`, `proc_exit`). A word is a triple of owner, role and version, so a
value that turns up in the wrong place can be told from the right one. Compiled
code is modelled by the calling convention: a prologue that saves the callee-saved
registers and an epilogue that restores them; `vector` and `home` are history. The
selectors are kept beside the general registers: `isr_common` loads `ds` and `es`
with the kernel's and nothing restores them, so the `iretq` to ring 3 leaves them
null, as the CPU does with a segment ring 3 may not use; `fs` and `gs` are loaded by
nobody. A
`ret`, `call` or `iretq` that does not find the expected address makes the process
`lost`.

**Mailbox** is what IPC promises: FIFO inboxes of bounded total size. The
mapping in Ipc reads each inbox off the linked list.

**Pmm** models the frame allocator with `bitmap` as the set of used frames;
`pmm_free` is called with every address in `Addresses`, held or not.
**PageAllocator** is its abstract specification: a set of free pages, where an
allocation is refused only if the set is empty. **Boot** puts `parse_mmap` and the
cut at 2 MB of `kernel_main` in front of Pmm, so that the regions Pmm is run with are
those the code computes from a memory map.

**KHeap** models `kmalloc` and `kfree` in arithmetic modulo `WORD`. The list of
headers is a sequence ordered by address; `held` is a history variable with the
sizes callers asked for. Callers free what they hold, once. `proc_create` is the
only caller in the present tree and asks for one size; the model asks for several.

**Vmm** models the page tables: the contents of every table, `alloc_table` with
its pool and its fall-back to the page allocator, the two loops of `vmm_init`, and
mapping, unmapping, making and freeing directories. Addresses are page numbers.
A call that may allocate up to three tables is an operator on a record (`vm`),
unrolled over the levels as in the code. Reading or writing through a pointer to a
page that is not mapped is a page fault, which halts the machine (`Faults`, `Store`). The code reaches a table by a pointer, the
hardware by its frame; `At` says where a pointer leads under the kernel's
directory, so the model shows what happens when the two differ. Protection bits
are left out. `vmm_unmap`, `vmm_resolve`, `vmm_new_pagedir` and
`vmm_free_pagedir` have no caller in the present tree; they are modelled as the
interface they are (`Client`). **AddressSpace** is the abstract specification: one flat map per
directory.

**Loader** runs `elf_load_from_initrd` on top of Vmm, in place between `vmm_init`
and the start of the scheduler, with one action per stage: the checks, a page, the
copying of a segment, the end, and the first writes of `proc_create_elf`. It
follows the code as it is compiled: `elf_loader.c` sees no declaration of `vmm_map`
and passes three arguments, so the page arrives as the directory, the frame as the
page and the flags as the frame; the flags are whatever the fourth register holds
(`Garbage`), and as `vmm_map` does not mask them the entry leads anywhere. The copying
goes over `p_filesz` bytes, which nobody compares with `p_memsz`, then zeros up to
`p_memsz`, and stops at the first page that is not mapped. What it reads, `p_offset`
bytes into the file, is not checked either and not modelled: the bytes copied are
`Text`. After a failed load the clients of Vmm go on. At its end stands `Arranged`, the
arrangement of heap, client pages and programs for which the proofs hold; MCVmm has TLC
evaluate it on the instance of the `vmm` run.

**Initrd** models the search for the boot module, the walk of `initrd_init`, one
turn per step, `initrd_find` and `initrd_read`. A header is what the code reads of
it: two fields of eight characters, parsed as the code parses them, and a name;
an address without one holds no magic number. `LaidOut` says, independently of the
code, what an archiver writes: where the intact files of a boot lie and which
characters encode their sizes.

**Vga** models `vga_putc`: the store, the wrapping at the last column, tabs,
scrolling and the hardware cursor. The memory behind the visible cells is part
of the model, since the code can reach it.

## 3. What the runs check

| Run | Instance | Result |
|---|---|---|
| `proc` | 4 slots, slices of 3 ticks, sleeps of 1 and 2 ticks, one from a product that wraps; 31,550 states | `CurrentRunning`: one process is RUNNING, the current one. `TimerOnlyInIdle`: nothing but the idle process is ever preempted. `IdleInterruptible`: the idle loop can be woken. `UserTrapsOnOwnStack`: the TSS names the stack of the process that traps. `ExitIsFinal`: no message or timer revives a zombie. `BoundedBypass`: fewer than PROC_MAX dispatches of others before a READY process runs. |
| `timeslice` | 3 slots | violation: `TimesliceEnds`, see findings |
| `ipc` | 3 slots, 2 messages, sends to any pid; 365,000 states | `PoolAccounting`, `QueueWellFormed`, `NoLostWakeup`, `QueuedAsSent`, and the refinement `ImplementsMailbox` |
| `live` | 3 slots, 1 message, slices of 2 ticks, sleeps of 1 and 2; 20,000 states | under the fairness below: `ReadyRuns` (no starvation), `SleepEnds`, `RecvReturns` (a waiting receiver with a message gets it) |
| `pmm` | pages of 4 bytes, a bitmap of 5 bits, 105 information blocks with up to two entries, all addresses; 12,480 states | `PoolAboveKernel`, `PoolIsAvailable` (the pool is a largest available entry, but for less than a page), `FreeCountExact`, `NextFitOrder`, the refinement `ImplementsPageAllocator` |
| `kheap` | a heap for five small blocks, six sizes | `HeldMemoryIsPrivate`, `UsedIsHeld` |
| `vmm` | 4 entries per table, 4 tables in the pool, 23 clean frames above the heap, the kernel's directory and one more, eleven outcomes of the search for `bin/sh`; 14,487 states | `FramesAccounted` (no frame of a table, of the heap or of a load is handed out again), the refinement `ImplementsAddressSpace` |
| `vmm_dirty` | the same, frames may hold an old table | violation: `ImplementsAddressSpace` |
| `vmm_alias` | 8 frames around the heap's addresses | violation: `FreeFramesReachable` |
| `vga` | 4 x 3 cells, tab stops every 2, tabs up to column 8; 2,891,246 states | `BeyondTextBlank` (scrolling leaves nothing of older lines behind), `TabsCrossLines` (a store beyond its line, or behind the buffer, takes tabs as wide as the lines it crosses) |
| `trap` | idle, one thread, one user process; the timer, exceptions with and without error code, `int` with an open, a closed and no gate; 149,424 states | `RegistersKept` (general registers), `FrameHoldsCaller`, `StackReturns`, `SelectorsFit` (`cs`, `ss`, `ds`, `es`), `WordAboveOnlyAtStart` |
| `initrd` | archives of up to 3 files of 3 kinds, intact, cut or damaged at any header, aligned or not; 26,473 states | `FilesInArchive`, `IntactPrefixFound` (against what an archiver wrote), `ReadStaysInFile`, and `WalkEnds` |

The runs of Proc, Ipc, Pmm, KHeap, Vmm and Vga also check a type invariant. Every property of a passing
run has a mutant in `PROJECT.json`: a definition of the model changed the way a
plausible bug would change the code, under which the property fails.

**Bounds.** Four slots are the idle process and three others, so that one can run,
one sleep and one wait; the search wraps and skips in every way. A slice of 3 lets a
sleep end inside a slice and at its end. In Ipc two processes besides idle suffice
for a sender and a receiver at every pair of places, a process that sends to itself,
to idle, to a zombie and to nobody; two messages make a queue of length two and a
pool that runs dry. In Boot and Pmm entries lie below, across and above the kernel's
end, are aligned or not, smaller and larger than the default and than the bitmap, of
type 1 or not; tags end the list or lie outside `total_size`; zero, unaligned,
foreign and repeated frees occur. The heap has room for more blocks than there are
sizes, so that reuse by a smaller request, exhaustion and reuse after exhaustion
occur. In Vmm four entries per table let mappings share tables at every level and
differ at every level; the pool is used up in the middle of `vmm_init`. `MAX_DIRS`
bounds the directories ever made; with it, frames of a freed directory are not
handed out again before the search comes round. If they were, they would be tables
with old contents, which is the case of `vmm_dirty`. With 23 frames one of the
programs uses the memory up in the middle of a load. `COL_MAX` lets tabs go on for a
whole line behind the end of the line, which is enough to store on the next line,
and behind the buffer from the last line and from the one before. In Trap, `DEPTH`
is beyond the deepest a stack gets with one interrupt above a local word (two words
above the frame, 22 of frame, 7 of C, the switch), and code keeps at most one local
word; with it, and with one stack that ends at a multiple of 16 bytes and one that
does not, every alignment of the CPU's frame happens. In Initrd the header has its
real size, the table has room for 2 of up to 3 files, and names and contents need 0
to 3 bytes of padding. The code has neither `MAX_DIRS` nor `COL_MAX`. The proofs
below remove the bounds for the safety properties of Proc, Ipc, Pmm, Boot, KHeap,
Initrd, Vga, Trap, Vmm and Loader (those of Vmm and Loader other than the type
invariant under the hypotheses of section 5); of the bounds that the code does not
have they keep `DEPTH`, which may be as large as one likes, `COL_MAX` and `MAX_DIRS`,
likewise.

**Fairness.** Weak fairness of `timer_interrupt`, of `iretq` and of the handler
of a system call: hardware that ticks, and code that runs with interrupts off to
its end. That is all `timeslice` assumes. Nothing in the kernel makes a process
give the CPU up, so `live` adds what the code leaves to the
processes: one that runs keeps making system calls, and infinitely many chances
to yield, sleep or exit are not all passed up (strong fairness, since a call may
be answered by another handler). `ReadyRuns` and `SleepEnds` are false without
it. A panic ends every promise, which the properties say. `WalkEnds` assumes weak
fairness of the steps of `kernel_main` and `initrd_init`, sequential code with
nothing to wait for.

## 4. Findings

1. **The time slice does not exist** (`timeslice`). `interrupt_dispatch` sends
   the EOI after `sched_tick()` returns (`idt.c:91`). When `schedule()` switches
   away, that happens only once the interrupted process, always the idle one, is
   dispatched again; until then the PIC holds IRQ0 back. The process switched to
   is never preempted, although `proc.c:252` says that a slice of 100 ms ends in a
   switch. The same fact makes the unlocked code in `ipc.c` safe: sending the EOI
   first without protecting `msg_alloc` and `ipc_recv` would break both.
2. **A page table may start with old contents** (`vmm_dirty`, `vmm.c:42`): when
   the pool of 64 tables is used up, `alloc_table` returns a frame without clearing
   it. The identity map of `vmm_init` uses the pool up on machines with more than
   about 128 MB.
3. **The heap is mapped over the identity map** (`vmm_alias`, `vmm.c:240`): the
   addresses from 4 to 8 MB lead to the frames from 2 to 6 MB. The frames from 6 to
   8 MB are free, and the pointers `pmm_alloc` returns for them lead into the heap.

Disagreements between comments and code that the models contain, without a run of
their own:

* `pmm.c:33` speaks of the valid pages. `pmm.c:26` rounds the base up and leaves
  the size: the last frame may end behind the region. `PoolIsAvailable` states by
  how much: less than a page.
* `vga.c:3` speaks of 80 columns by 25 rows. After tabs `vga_col` may be 80 or
  more, and the next character is stored on a later line or, when the column has
  passed the end of the last one, behind the text buffer. `TabsCrossLines` states
  that nothing else does this, and how far: n lines below only after tabs that are
  together wider than n - 1 lines.
* `main.c:70` says that `parse_mmap` returns the largest free region. It starts
  from a default of 32 MB at 1 MB, so a machine whose regions are all smaller than
  that is run with memory it may not have; `PoolIsAvailable` says nothing there. The
  fall-back at `main.c:158` cannot be reached, since the size is at least 32 MB.
* `proc.c:161` wants RSP below the end of the new stack. `context.rsp` is the end
  itself: the first dispatch stores into the next heap block's header, and so does
  the return of a thread's main function. `WordAboveOnlyAtStart` states that
  interrupts, calls and later switches do not.
* `elf_loader.c:8` says PT_LOAD segments are mapped where they belong. With the
  arguments shifted nothing is mapped there, and the contents go to whatever the
  addresses lead to: the heap, for a program linked at 4 MB by `sh.ld`.
* `proc.c:79` makes a directory for the process. The frame is cleared through
  `KERNEL_BASE`, where nothing is mapped: the machine panics with a page fault.
* `kernel.h:19` gives ring 3 the 64-bit code selector 0x2B; `enter_user_mode` pushes
  0x1B, the 32-bit one, although `gdt.c:12` too names 0x2B for 64-bit user code.
  `SelectorsFit` states what the code does: ring 3 runs in the 32-bit segment.
  `isr_stub.asm:97` loads `ds` and `es` for the kernel and the way out does not restore
  them: after its first interrupt a user process has null selectors there, which
  matter in a 32-bit segment. `SelectorsFit` states this as well, and that the kernel's
  are never left to ring 3 nor ring 3's to the kernel.
* `proc_entry_user.asm:7` reads `user_sp`, which `proc_create_elf` never sets (it sets
  `user_rsp`).
* `main.c:62` calls the idle process the one of lowest priority, but it takes its
  turn while others are READY; `main.c:44` says that a `proc_sleep(1000)` sleeps one
  second, but a message wakes its target whatever it sleeps for (`ipc.c:59`).
* cpio pads from the beginning of the archive, `initrd.c:120` pads addresses:
  `IntactPrefixFound` holds of modules at a multiple of 4 only, and the multiboot header
  does not ask for aligned modules.

## 5. Proofs

All for every value of the constants, under the assumptions declared with them.
Most only say that numbers are numbers (at least one slot, one tick per slice, one
message, one entry per table; a page of at least one byte). The others:

* `RequestAssumption` (KHeap): a request, rounded up and behind the end of the heap,
  fits a 64-bit number. `kmalloc` tests none of its sums; its only caller asks for
  the size of a kernel stack. A request near 2^64 would wrap.
* `BootAssumption`: the kernel ends below the default size of 32 MB, so the cut at
  2 MB always leaves something. `MapAssumption`: fields of a map entry are natural
  numbers.
* `TrapAssumption`: 32 words of a stack are looked at, as many as the deepest way
  through the kernel takes.
* `ArchiveAssumption` (Initrd): the first `good` files of a boot are laid out as cpio
  lays them out. It says nothing of the rest of the archive.
* `ContentAssumption` (Vmm) and `LoaderAssumption`: what a frame or a program holds,
  read as a table, leads into memory. An entry outside is not represented.

The arguments:

* **ProcProofs** proves `ProcInv`, the conjunction of the checked invariants with
  what makes them inductive. The invariants alone are not: that the idle process
  is resumed interruptible depends on where it was suspended. `RunInv` supplies
  it: the idle process is READY or RUNNING; unless it runs it is suspended in the
  timer handler (`ctx[IDLE] = "irq"`) and nobody else ever is, so a dispatch of
  idle, and no other, sends the EOI and restores IF; a user process suspended in a
  call is inside a system call, so it can inherit a cleared IF without harm.
  `BootInv` says that before `sti()` nothing runs. From `ProcInv` follow
  `TypeCorrect`, `OneRunning`, `NeverPreempted`, `IdleCanBeWoken`,
  `OwnTrapStack` and `ExitNeverReturns`. `StepShape` collects what every step
  does to the table. `NoBypass` proves `BoundedBypass` with the invariant
  `BypassInv`: the dispatches a READY process has seen plus its distance from the
  current slot are at most PROC_MAX. Each dispatch of another brings the search
  nearer by the slots it went through.
* **IpcProofs** proves that the composed system implements Proc
  (`IpcImplementsProc`), hence everything above, and, with `MidCallRuns` (a call
  past an unprotected test belongs to the process that runs) and `StillTrue`
  (what it saw there still holds), `WakeupsArrive` for `NoLostWakeup` and
  `SentUnchanged` for `QueuedAsSent`. The pool and the queues rest on `QueueInv`:
  there are sequences of messages, one per process, such that head, `next` and tail
  spell them out (`Linking`), no message is twice in them (`Once`), and a message is
  marked used exactly if it is in one or in the hands of one sender (`Marks`).
  Saying that the sequences exist replaces following the pointers, which would need
  an induction in every step; what following computes is tied to them once, by
  `EntryInduction` of SearchLemmas. From `QueueInv` follow `IpcTypeCorrect`,
  `PoolHasOneOwner` (`PoolAccounting`), `QueuesStayLinked` (`QueueWellFormed`) and the
  refinement `IpcImplementsMailbox`, where an enqueue is `Put`, a take is `Take` and
  everything else stutters; that `Put` finds room is counted with the pool.
* **MemoryProofs**, Pmm: the count is exact (`CountIsExact`), the types are kept
  (`PmmTypeCorrect`), the bitmap implements PageAllocator (`PmmRefinesPageAllocator`)
  and the search turns back last (`TurnsBackLast`). The core is `SearchFinds`: the
  search reaches every frame, so it fails only if none is free. Boot: `parse_mmap` and
  the cut turn every memory map into a region with a base other than NULL and a size
  that is not negative (`RegionPermitted`), which is all Pmm asks for; so the kernel
  runs Pmm, and its count and its refinement hold after every boot (`BootRunsPmm`).
  `BootInv` keeps the region
  `kernel_main` chose, from which `KernelStaysOut` (`PoolAboveKernel`) and
  `PoolStaysAvailable` (`PoolIsAvailable`) follow. `parse_mmap` is a recursive
  function over the entries; that its result is a largest entry is an induction over
  positions, again by `EntryInduction`.
* **MemoryProofs**, KHeap: `HeapInv` adds to the checked properties that the blocks
  lie one behind the other up to `heap_ptr` (`Layout`) and that what is held is the
  payload of a block in use that is large enough (`HeldFits`); without the second,
  reuse by a smaller request says nothing of the next one. `HeapTypeCorrect`,
  `HeldStaysPrivate` (`HeldMemoryIsPrivate`), `UsedFlagExact` (`UsedIsHeld`).
* **VmmProofs** proves `VmmTypeOK` of Vmm (`VmmTypeCorrect`) and with the loader on
  top (`LoaderTypeCorrect`). `VmType` holds of the record also in the middle of a
  call; no assumption is made on where a pointer leads, so it covers dirty frames
  and aliased ones.
* **VmmProofs**, frames and translations: `FramesStayAccounted` (`FramesAccounted`)
  and the refinement `LoaderImplementsAddressSpace` (`ImplementsAddressSpace`).
  `Arranged` is about the constants: addresses of 48 bits; clients do not map pages of
  the heap; a program starts in the heap and does not get past its end without meeting
  a page that is not mapped; its segments share no page unless what is copied reads as
  an empty table. It says nothing of where the frames are: the region the kernel falls
  back to, 2 to 33 MB, holds the addresses of the heap, and the theorems cover it.
  `Room` says up to which moment of a behaviour they speak: until the static pool of
  tables is used up, and until the loader takes a frame if memory does not start clear.
  Both parts, once lost, stay lost (`PoolGrows`, `RoomBefore`). The fall-back region
  needs about 16 of the 64 tables and a region of some 120 MB all of them. Beyond,
  frames become tables, and what the code then does depends on what they hold
  (`vmm_dirty`) and on where pointers to them lead (`vmm_alias`). The second part is
  needed because the loader takes a page of the heap for a directory, and so follows
  whatever memory held before.

  The invariant is `AddressInv`. It says that every page that can hold a table has a
  kind: the level of a table of a directory (1 to 4), the level of a table the loader
  has made below a page of the heap, which it takes for a directory (6 to 9), a frame
  loaded (5), a page of the heap copied to (10), or nothing (0). `Tree`: the entries
  of a table lead to tables of the next lower kind. `OneParent`: no table is listed
  twice, but in the kernel half by directories at the same index. Without it, writing
  an entry could show at two addresses, and freeing a directory could free what
  another uses. `Held`: what has a kind is not free. `Inside`: a table is never a frame
  of the page allocator, but for the pages of the heap the loader takes for one. Tables
  in the kernel's image are written through addresses the boot tables map, so the table
  the code writes is the one the hardware reads, wherever frames lie. `Clean`: if memory
  started clear, free frames are.
  `Fits` ties the kinds to the rest: directories are the kind 4; the pages of the heap
  have frames of their own of kind 9 or 10; what a load took is of kind 5;
  nothing is mapped but what boot code and `vmm_init` map, until clients run; a page
  was copied to by an earlier segment. The last two are why the loader's wrong first
  argument hits pages of the heap only, and why these are still empty or tables of its
  own. The kinds are not computed from the tables but asserted to exist, as the
  sequences of `QueueInv` are: a step says which page gets a kind, and nothing is
  followed. `MapKeeps` does this for `vmm_map` level by level, on either side;
  `IndicesTell` shows that the four indices determine an address.
* **VgaProofs** proves `VgaTypeOK`, `BeyondTextBlank` (`BlankBehindText`) and
  `TabsCrossLines` (`TabsAloneCross`); the invariant bounds the column by one line and
  the width of the tabs since column 0. `FinishKeeps` is the end of `vga_putc`, with its scroll.
* **TrapProofs** proves `TrapInv`, which says for every process what lies on its
  kernel stack and in its saved context, by where it is: nothing but the word above
  and perhaps a local one (`Grounded`), a whole frame and what `interrupt_dispatch`
  saved (`Framed`), the return address and registers of a caller (`Called`), the
  words of `switch_context` (`PutAway`); and what the CPU holds for the one that runs
  (`Running`, `Selected`). The checked properties speak of the process that runs, and
  what it finds was stored before others ran: the invariant carries it over. From it
  follow `RegistersStayKept`, `FrameStaysIntact`, `StackPointerReturns`,
  `SelectorsStayFit` and `NothingAboveLater`.
* **InitrdProofs** proves `FilesInArchive` (`TableInsideModule`), `ReadStaysInFile`
  (`ReadInsideFile`), and that every turn of the walk moves on by at least a header
  (`WalkForward`), for all archives. The invariant adds to `FilesInArchive` that the
  walk's position is a natural number not before the start and that the table is a
  sequence of files with natural numbers as sizes. `IntactFilesFound` proves
  `IntactPrefixFound` with `PrefixInv`: the walk stands at the header the archiver put
  behind the first k files and has recorded these, or has gone on behind the intact
  ones. It rests on `HexInverts` (`hex8_to_u32` inverts the encoding of every number
  of 32 bits, in digits of either case) and `AlignPads` (padding an address and
  padding an offset agree in an aligned module). Eight digits are unrolled rather
  than folded.
* **SearchLemmas** has what the modules share: the least and the greatest element of
  a set of naturals, arithmetic modulo one turn, and `EntryInduction`, induction over
  positions with a set in the place of the predicate.

Only model-checked: liveness (`ReadyRuns`, `SleepEnds`, `RecvReturns`, `WalkEnds`), which
is out of the prover's reach, and `FramesAccounted` and `ImplementsAddressSpace` once the
pool of tables is used up. The `vmm` run uses it up half way, with clear frames above the
heap, and both hold there; `vmm_dirty` has frames that are not clear, `vmm_alias` frames
behind the heap's addresses.

## 6. What is not modelled

* The CPU checks and the switch to long mode in `boot.asm`, and the loading of the
  TSS descriptor (`gdt.c:65` copies it behind the array, and relies on where the
  linker puts the next variable): a straight line of set-up.
* Formatting, colours, port I/O: no state the properties are about.
* Memory that process creation takes: success, or a panic, in Proc.
* Protection bits of page table entries, and the offsets at which
  `proc_entry_user.asm` reads `process_t`.
* The contents of the page frames: that the boot module may lie in memory the pool
  hands out (`main.c:161`) depends on the boot loader.
* In the present tree the user process does not reach ring 3, as Loader shows.
  `proc_hello` and `proc_sender` are commented out in `kernel_main`. Proc, Ipc and
  Trap model processes that use them, these included.
* `user_enter.asm`, `unix_gokan.h`, `elf64.h`, `boot_info.h` and `keyboard.h`, which no
  built source uses for its behaviour, and `user_trampoline`, which nobody calls.
* `sh.c`, which uses the `syscall` instruction the kernel does not enable.

## 7. Plan

What is left, in order of importance:

1. Protection bits in `Vmm` (`vmm.c:71` sets PTE_USER on upper levels only when it
   makes them), once a user mapping is reached.
2. Trap composed with Proc: the choices Trap leaves open restricted to those
   Proc makes, which would give `StackReturns` a bound on the depth.
