-------------------------------- MODULE Vmm --------------------------------
(***************************************************************************)
(* The virtual memory manager (kernel/mm/vmm.c): four levels of tables in   *)
(* memory, taken from a static pool and then from the page frames, the      *)
(* mapping loops of vmm_init, and the directories of processes.            *)
(*                                                                         *)
(* Addresses are page numbers.  Tables in the kernel image (those of        *)
(* boot.asm and pt_pool) have negative numbers; the image stays mapped      *)
(* where it is.  A frame is reached by a pointer with its own number, which *)
(* leads wherever the kernel's directory maps that page: the hardware walks *)
(* tables by frame, the code by pointer.  Of an entry the frame is kept,    *)
(* protection bits are left out.  All of it runs in kernel_main, before     *)
(* interrupts are on.                                                      *)
(***************************************************************************)
EXTENDS Integers, FiniteSetsExt

CONSTANTS ENTRIES,                   \* entries of a table (512)
          POOL,                      \* tables in pt_pool (64)
          BASE, TOTAL,               \* the frames pmm_init was given
          KHEAP_START, KHEAP_PAGES,  \* the pages of the kernel heap
          Ram,                       \* what a frame may hold before it is used
          Virt, Target,              \* pages and frames that clients map
          Watched,                   \* the pages the properties look at
          MAX_DIRS,                  \* bound: directories ever made
          None                       \* an entry that is not present

ASSUME VmmAssumption == /\ ENTRIES \in Nat \ {0} /\ ENTRIES % 2 = 0
                        /\ POOL \in Nat /\ TOTAL \in Nat \ {0}
                        /\ BASE \in Nat /\ BASE >= ENTRIES
                        /\ KHEAP_START \in Nat /\ KHEAP_PAGES \in Nat
                        /\ MAX_DIRS \in Nat /\ None \notin Int

Index == 0 .. (ENTRIES - 1)
Frame == BASE .. (BASE + TOTAL - 1)

\* pml4_table, pdp_table, pd_table and pt_table of boot.asm, and pt_pool.
PML4 == -1
PDP == -2
PD == -3
PT == -4
PoolTable(k) == -5 - k
Image == {PML4, PDP, PD, PT} \cup {PoolTable(k) : k \in 0 .. (POOL - 1)}
TablePage == Image \cup Frame

\* An entry is nothing, or the page it leads to; a page is a table of the image or
\* lies in memory.
EntryValue == Image \cup (0 .. (BASE + TOTAL - 1)) \cup {None}
Empty == [i \in Index |-> None]

ASSUME ContentAssumption == /\ Ram \subseteq [Index -> EntryValue]
                            /\ Target \subseteq 0 .. (BASE + TOTAL - 1)

\* The pages an entry of a table of level 1 (PT), 2, 3 or 4 (PML4) spans, and the
\* index of a page in such a table.
Span == <<1, ENTRIES, ENTRIES * ENTRIES, ENTRIES * ENTRIES * ENTRIES>>
Idx(v, level) == (v \div Span[level]) % ENTRIES

\* The upper half of the PML4 is the kernel's.
KernelIndex == (ENTRIES \div 2) .. (ENTRIES - 1)

VARIABLES vm,     \* everything vmm_map works on, see VmInit
          phase,  \* vmm_init's two loops, then "run"; "panic"
          va,     \* the loops' variable
          dirs,   \* directories in existence
          made    \* directories made so far, for the bound

vmmVars == <<vm, phase, va, dirs, made>>

\* setup_paging has mapped the first ENTRIES pages (2 MB) to themselves.
BootTables(ram) ==
    [t \in TablePage |-> CASE t = PML4 -> [Empty EXCEPT ![0] = PDP]
                           [] t = PDP -> [Empty EXCEPT ![0] = PD]
                           [] t = PD -> [Empty EXCEPT ![0] = PT]
                           [] t = PT -> [i \in Index |-> i]
                           [] t \in Frame -> ram
                           [] OTHER -> Empty]

\* mem: the contents of tables; pool: pt_pool_used; used and last: the bitmap and
\* the search position of the page allocator; got: what a call
\* returned; panic: it did not return.
VmInit(ram) == [mem |-> BootTables(ram), pool |-> 0, used |-> {}, last |-> BASE,
                got |-> None, panic |-> FALSE]

VmmInit ==
    /\ \E ram \in Ram : vm = VmInit(ram)
    /\ phase = "identity" /\ va = BASE
    /\ dirs = {PML4}
    /\ made = 0

-----------------------------------------------------------------------------
(* Walking and extending the tables *)

\* The entry of table t for v, if there is a table.
Entry(mem, t, v, level) == IF t = None THEN None ELSE mem[t][Idx(v, level)]

\* The frame the hardware finds for v; vmm_resolve computes it, too.
Walk(mem, d, v) ==
    LET pdp == Entry(mem, d, v, 4)
        pd == Entry(mem, pdp, v, 3)
        pt == Entry(mem, pd, v, 2)
    IN  Entry(mem, pt, v, 1)

\* Where a pointer to page t leads.
At(s, t) == IF t >= 0 THEN Walk(s.mem, PML4, t) ELSE t

\* pmm_alloc: the next free frame from the search position on.
pmm_alloc(s) ==
    LET free == Frame \ s.used
        ahead == {f \in free : f >= s.last}
        f == IF ahead # {} THEN Min(ahead) ELSE Min(free)
    IN  IF free = {} THEN [s EXCEPT !.panic = TRUE]
        ELSE [s EXCEPT !.used = @ \cup {f}, !.got = f,
                       !.last = IF f + 1 \in Frame THEN f + 1 ELSE BASE]

\* alloc_table: a cleared table of the pool; when the pool is used up, a frame
\* with whatever it holds.
alloc_table(s) ==
    IF s.pool < POOL
    THEN [s EXCEPT !.pool = @ + 1, !.got = PoolTable(s.pool),
                   !.mem[PoolTable(s.pool)] = Empty]
    ELSE pmm_alloc(s)

\* Store p in the entry of the table the pointer t leads to; a pointer to a page
\* that is not mapped is a page fault.
Store(s, t, i, p) == IF At(s, t) = None THEN [s EXCEPT !.panic = TRUE]
                     ELSE [s EXCEPT !.mem[At(s, t)][i] = p]

\* One level of vmm_map: the table below t on the way to v, made if it is missing.
Descend(s, t, v, level) ==
    IF s.panic \/ At(s, t) = None THEN [s EXCEPT !.panic = TRUE]
    ELSE LET e == Entry(s.mem, At(s, t), v, level)
             a == alloc_table(s)
         IN  IF e # None THEN [s EXCEPT !.got = e]
             ELSE IF a.panic THEN a
             ELSE Store(a, t, Idx(v, level), a.got)

vmm_map(s, d, v, p) ==
    LET pdp == Descend(s, d, v, 4)
        pd == Descend(pdp, pdp.got, v, 3)
        pt == Descend(pd, pd.got, v, 2)
    IN  IF pt.panic THEN pt ELSE Store(pt, pt.got, Idx(v, 1), p)

\* The entry the code reads through a pointer, and whether reading it is a page fault.
Peek(s, t, v, level) ==
    IF t = None \/ At(s, t) = None THEN None ELSE Entry(s.mem, At(s, t), v, level)
Faults(s, t) == t # None /\ At(s, t) = None

\* vmm_unmap: the early returns leave everything as it is.
vmm_unmap(s, d, v) ==
    LET pdp == Peek(s, d, v, 4)
        pd == Peek(s, pdp, v, 3)
        pt == Peek(s, pd, v, 2)
    IN  IF \E t \in {d, pdp, pd} : Faults(s, t) THEN [s EXCEPT !.panic = TRUE]
        ELSE IF pt = None THEN s ELSE Store(s, pt, Idx(v, 1), None)

-----------------------------------------------------------------------------
(* vmm_init *)

\* The state a call leaves behind: its result is gone, and so is the machine if it
\* did not return.
Becomes(s) ==
    /\ vm' = [s EXCEPT !.got = None]
    /\ phase' = IF s.panic THEN "panic" ELSE phase

\* Mutant: the loop goes one page too far.
BeforeEndLate == va <= BASE + TOTAL
BeforeEnd == va < BASE + TOTAL

\* First loop: every frame is mapped at its own address.
MapIdentity ==
    /\ phase = "identity" /\ BeforeEnd
    /\ Becomes(vmm_map(vm, PML4, va, va))
    /\ va' = va + 1
    /\ UNCHANGED <<dirs, made>>

StartHeap ==
    /\ phase = "identity" /\ ~BeforeEnd
    /\ phase' = "heap" /\ va' = KHEAP_START
    /\ UNCHANGED <<vm, dirs, made>>

\* Second loop: a frame for every page of the heap.
MapHeap ==
    /\ phase = "heap" /\ va < KHEAP_START + KHEAP_PAGES
    /\ LET a == pmm_alloc(vm)
       IN  Becomes(IF a.panic THEN a ELSE vmm_map(a, PML4, va, a.got))
    /\ va' = va + 1
    /\ UNCHANGED <<dirs, made>>

InitDone ==
    /\ phase = "heap" /\ va = KHEAP_START + KHEAP_PAGES
    /\ phase' = "run"
    /\ UNCHANGED <<vm, va, dirs, made>>

-----------------------------------------------------------------------------
(* The operations of clients *)

MapPage(d, v, p) ==
    /\ phase = "run"
    /\ Becomes(vmm_map(vm, d, v, p))
    /\ UNCHANGED <<va, dirs, made>>

UnmapPage(d, v) ==
    /\ phase = "run"
    /\ Becomes(vmm_unmap(vm, d, v))
    /\ UNCHANGED <<va, dirs, made>>

\* Mutant: the lower half is shared with the kernel's directory, too.
CopiedAll == Index
Copied == KernelIndex

vmm_new_pagedir ==
    /\ phase = "run" /\ made < MAX_DIRS
    /\ LET a == alloc_table(vm)
           t == At(a, a.got)
       IN  IF a.panic \/ t = None
           THEN Becomes([a EXCEPT !.panic = TRUE]) /\ UNCHANGED <<dirs, made>>
           ELSE /\ Becomes([a EXCEPT !.mem[t] = [i \in Index |->
                               IF i \in Copied THEN a.mem[PML4][i] ELSE @[i]]])
                /\ dirs' = dirs \cup {a.got}
                /\ made' = made + 1
    /\ UNCHANGED va

\* The tables listed in those of a set of tables that can be read through pointers.
Listed(tables, only) ==
    {vm.mem[At(vm, t)][i] : t \in {u \in tables : At(vm, u) # None}, i \in only} \ {None}

\* Mutant: the loop runs over the kernel's half as well.
FreedAll == Index
Freed == 0 .. (ENTRIES \div 2 - 1)

\* vmm_free_pagedir frees the tables of the user half and the directory, not the
\* pages they map; pmm_free ignores those of the image.  After a page fault it is of
\* no account what was freed before.
vmm_free_pagedir(d) ==
    /\ phase = "run" /\ d # PML4
    /\ LET pdps == Listed({d}, Freed)
           pds == Listed(pdps, Index)
           pts == Listed(pds, Index)
       IN  IF \E t \in {d} \cup pdps \cup pds : Faults(vm, t)
           THEN Becomes([vm EXCEPT !.panic = TRUE]) /\ UNCHANGED dirs
           ELSE /\ Becomes([vm EXCEPT !.used = @ \ ({d} \cup pdps \cup pds \cup pts)])
                /\ dirs' = dirs \ {d}
    /\ UNCHANGED <<va, made>>

vmm_init == MapIdentity \/ StartHeap \/ MapHeap \/ InitDone

Client ==
    \/ vmm_new_pagedir
    \/ \E d \in dirs : \/ vmm_free_pagedir(d)
                       \/ \E v \in Virt : UnmapPage(d, v) \/ \E p \in Target : MapPage(d, v, p)

VmmNext == vmm_init \/ Client

VmmSpec == VmmInit /\ [][VmmNext]_vmmVars

-----------------------------------------------------------------------------
(* Properties *)

\* Every variable holds a value the code can give it; no entry leads out of memory.
VmmTypeOK ==
    /\ vm.mem \in [TablePage -> [Index -> EntryValue]]
    /\ vm.pool \in 0 .. POOL
    /\ vm.used \subseteq Frame /\ vm.last \in Frame
    /\ phase \in {"identity", "heap", "run", "panic"}
    /\ dirs \subseteq TablePage

\* What the hardware finds for each page, by directory.
Translation == [d \in dirs |-> [v \in Watched |-> Walk(vm.mem, d, v)]]

\* The four levels of tables, shared in the kernel half, implement flat address
\* spaces: mapping, unmapping, making and freeing directories never changes what
\* another address or another process's user half translates to.
Space == INSTANCE AddressSpace
            WITH Dirs <- TablePage, Boot <- PML4, Pages <- Watched,
                 KernelHalf <- {v \in Watched : Idx(v, 4) \in KernelIndex},
                 space <- Translation
ImplementsAddressSpace == Space!SpaceSpec

\* The tables directory d is made of, as the hardware reads them.
TablesOf(d) ==
    LET below(ts) == {vm.mem[t][i] : t \in ts, i \in Index} \ {None}
        pdps == below({d})
        pds == below(pdps)
    IN  {d} \cup pdps \cup pds \cup below(pds)

\* vmm.c:41 assumes that the frames of the page allocator are mapped: the pointer
\* pmm_alloc returns for a free frame leads to that frame.
FreeFramesReachable ==
    phase = "run" => \A f \in Frame \ vm.used : Walk(vm.mem, PML4, f) = f
=============================================================================
