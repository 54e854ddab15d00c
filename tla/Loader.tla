------------------------------- MODULE Loader -------------------------------
(***************************************************************************)
(* The ELF loader (kernel/elf_loader.c) on top of the page tables of Vmm,    *)
(* and the first thing proc_create_elf does with its result.  kernel_main    *)
(* loads bin/sh right after the memory managers are up.                      *)
(*                                                                         *)
(* elf_loader.c sees no declaration of vmm_map and calls it with three       *)
(* arguments: the page to be mapped arrives as the directory, the new frame  *)
(* as the page, the flags as the frame, and the flags are whatever the       *)
(* fourth register holds.  As vmm_map does not mask them, the entry leads     *)
(* wherever these bits say.                                                  *)
(*                                                                         *)
(* A program is a record: valid (the checks on size, magic number and        *)
(* machine succeed) and its program headers, with addresses in bytes.        *)
(* sh.ld puts programs at the address of the kernel heap, so their pages do  *)
(* not hold tables.                                                         *)
(***************************************************************************)
EXTENDS Vmm, Sequences

CONSTANTS PAGE_SIZE,
          WORD,           \* 2^(width of uint64_t)
          Programs,       \* what bin/sh may be
          NotFound,       \* or that there is no such file
          Text,           \* what the copied bytes are when read as a table
          Garbage,        \* what the fourth register may hold, as a frame
          KERNEL_BASE     \* 0xFFFFFFFF80000000, as a page

ASSUME LoaderAssumption == /\ PAGE_SIZE \in Nat \ {0} /\ WORD \in Nat \ {0} /\ WORD % PAGE_SIZE = 0
                           /\ KERNEL_BASE \in Nat /\ Text \in [Index -> EntryValue]
                           /\ Garbage \subseteq 0 .. (BASE + TOTAL - 1)

VARIABLES load,     \* idle: not called yet; segments; loaded; failed: it returned false
          program,
          seg,      \* the loop over the program headers
          page,     \* the loop over the pages of a segment
          taken     \* frames that loading took

loaderVars == <<vmmVars, load, program, seg, page, taken>>

LoaderInit ==
    /\ VmmInit
    /\ load = "idle" /\ program = NotFound
    /\ seg = 1 /\ page = 0
    /\ taken = {}

PT_LOAD == 1

\* The pages the loader wants to map for a segment; the sums wrap.
PageStart(s) == s.vaddr \div PAGE_SIZE
PageEnd(s) == ((s.vaddr + s.memsz + PAGE_SIZE - 1) % WORD) \div PAGE_SIZE
Pages(s) == (PageEnd(s) - PageStart(s)) % (WORD \div PAGE_SIZE)
PageOf(s, k) == (PageStart(s) + k) % (WORD \div PAGE_SIZE)

\* The bytes it writes, and how many pages they touch: the contents are not cut to
\* the size of the segment.
Bytes(s) == IF s.filesz > s.memsz THEN s.filesz ELSE s.memsz
Touched(s) == IF Bytes(s) = 0 THEN 0
              ELSE ((s.vaddr % PAGE_SIZE) + Bytes(s) - 1) \div PAGE_SIZE + 1

Segment == program.segments[seg]
Loading == phase = "run" /\ load = "segments" /\ seg <= Len(program.segments)

\* initrd_find and the checks on the ELF header.
elf_check ==
    /\ phase = "run" /\ load = "idle"
    /\ program' \in Programs \cup {NotFound}
    /\ load' = IF program' # NotFound /\ program'.valid THEN "segments" ELSE "failed"
    /\ UNCHANGED <<vmmVars, seg, page, taken>>

next_segment == seg' = seg + 1 /\ page' = 0

skip_segment ==
    /\ Loading /\ Segment.type # PT_LOAD
    /\ next_segment
    /\ UNCHANGED <<vmmVars, load, program, taken>>

\* A frame for the next page of the segment, and the call of vmm_map; without a frame
\* the loader returns false and keeps what it has.
load_page ==
    /\ Loading /\ Segment.type = PT_LOAD /\ page < Pages(Segment)
    /\ \E flags \in Garbage :
          LET a == pmm_alloc(vm)
              s == vmm_map(a, PageOf(Segment, page), a.got, flags)
          IN  IF a.panic
              THEN load' = "failed" /\ UNCHANGED <<vm, phase, taken, page>>
              ELSE /\ Becomes(s)
                   /\ taken' = taken \cup (s.used \ vm.used)
                   /\ page' = page + 1
                   /\ UNCHANGED load
    /\ UNCHANGED <<va, dirs, made, program, seg>>

\* The touched pages up to the first that is not mapped.
Reached(s) == {k \in 0 .. (Touched(s) - 1) : \A j \in 0 .. k : At(vm, PageOf(s, j)) # None}

\* The contents and the zeros behind them are written to the addresses of the
\* segment, wherever these lead; an address that leads nowhere is a page fault.
copy_segment ==
    /\ Loading /\ Segment.type = PT_LOAD /\ page = Pages(Segment)
    /\ LET dst == {At(vm, PageOf(Segment, k)) : k \in Reached(Segment)}
       IN  Becomes([vm EXCEPT !.mem = [t \in DOMAIN @ |-> IF t \in dst THEN Text ELSE @[t]],
                              !.panic = Reached(Segment) # 0 .. (Touched(Segment) - 1)])
    /\ next_segment
    /\ UNCHANGED <<va, dirs, made, load, program, taken>>

elf_loaded ==
    /\ phase = "run" /\ load = "segments" /\ seg > Len(program.segments)
    /\ load' = "loaded"
    /\ UNCHANGED <<vmmVars, program, seg, page, taken>>

\* proc_create_elf takes a frame for a directory and clears it through an address
\* from KERNEL_BASE on, where vmm_init has mapped nothing.
proc_create_elf ==
    /\ phase = "run" /\ load = "loaded"
    /\ LET a == pmm_alloc(vm)
       IN  Becomes(IF a.panic THEN a ELSE [a EXCEPT !.panic = At(a, KERNEL_BASE + a.got) = None])
    /\ UNCHANGED <<va, dirs, made, load, program, seg, page, taken>>

\* panic() halts the machine.
Halted == phase = "panic" /\ UNCHANGED loaderVars

LoaderNext ==
    \/ vmm_init /\ UNCHANGED <<load, program, seg, page, taken>>
    \/ elf_check \/ skip_segment \/ load_page \/ copy_segment \/ elf_loaded \/ proc_create_elf
    \/ load = "failed" /\ Client /\ UNCHANGED <<load, program, seg, page, taken>>
    \/ Halted

LoaderSpec == LoaderInit /\ [][LoaderNext]_loaderVars

-----------------------------------------------------------------------------
(* Properties *)

\* The frames behind the heap's pages.
HeapPage == KHEAP_START .. (KHEAP_START + KHEAP_PAGES - 1)
HeapFrames == {Walk(vm.mem, PML4, v) : v \in HeapPage}

\* No frame in use is handed out again: not the tables of a directory in existence
\* (freeing one leaves alone what others share), not the pages of the heap, and not
\* what a load took, were it to fail halfway; nor does any of these hold a frame of
\* another.
FramesAccounted ==
    LET tables == (UNION {TablesOf(d) : d \in dirs}) \cap Frame
    IN  phase = "run" => /\ tables \cup HeapFrames \cup taken \subseteq vm.used
                         /\ tables \cap taken = {}
                         /\ HeapFrames \cap (tables \cup taken) = {}

-----------------------------------------------------------------------------
(* The arrangement of the address space for which the properties are proved *)

\* The tables are walked by four indices, and the boot tables map the first ENTRIES pages.
SamePage(v, w) == \A level \in 1 .. 4 : Idx(v, level) = Idx(w, level)
Low(v) == \A level \in 2 .. 4 : Idx(v, level) = 0

\* What vmm_init and the boot code map; the pages a segment occupies, in order.
InHeap(v) == \E w \in HeapPage : SamePage(v, w)
Mapped(v) == Low(v) \/ InHeap(v) \/ \E f \in Frame : SamePage(v, f)
Extent(s) == IF Touched(s) > Pages(s) THEN Touched(s) ELSE Pages(s)
Occupies(s, v) == s.type = PT_LOAD /\ \E k \in 0 .. (Extent(s) - 1) : SamePage(PageOf(s, k), v)
SegmentType == [type : Nat, vaddr : Nat, memsz : Nat, filesz : Nat]

\* Addresses have 48 bits; clients map no pages of the heap; a program starts in the
\* heap and does not reach beyond it without passing a page that is not mapped; unless
\* what it copies is zero, its segments share no page.  The frames may be anywhere: the
\* region boot code falls back to holds the addresses of the heap.
Arranged ==
    /\ Frame \cup HeapPage \cup Virt \cup Watched \subseteq 0 .. (ENTRIES * Span[4] - 1)
    /\ Virt \cap HeapPage = {}
    /\ \A g \in Programs :
          /\ g.segments \in Seq(SegmentType)
          /\ \A j \in 1 .. Len(g.segments) : g.segments[j].type = PT_LOAD =>
                \A k \in 0 .. (Extent(g.segments[j]) - 1) :
                   \/ InHeap(PageOf(g.segments[j], k))
                   \/ \E b \in 0 .. k : ~Mapped(PageOf(g.segments[j], b))
          /\ Text = Empty \/ \A i, j \in 1 .. Len(g.segments), v \in HeapPage :
                Occupies(g.segments[i], v) /\ Occupies(g.segments[j], v) => i = j
=============================================================================
