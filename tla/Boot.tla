-------------------------------- MODULE Boot --------------------------------
(***************************************************************************)
(* From the boot loader's memory map to the page allocator: parse_mmap and  *)
(* the part of kernel_main (kernel/main.c) that chooses the region pmm_init *)
(* is called with, in front of Pmm.                                         *)
(*                                                                         *)
(* An information block is a record: tags, and how many of them lie within  *)
(* total_size (none when the pointer is NULL or total_size too small).  A   *)
(* tag has its type and, if that is 6, the entries of a memory map.         *)
(***************************************************************************)
EXTENDS Pmm, SequencesExt

CONSTANTS Infos,          \* the information blocks
          DEFAULT_BASE,   \* 0x100000
          DEFAULT_SIZE,   \* 32 MB
          KERNEL_END,     \* 0x200000: what lies below belongs to the kernel
          FALLBACK_SIZE   \* 16 MB

ASSUME BootAssumption ==
    /\ DEFAULT_BASE \in Nat \ {0} /\ DEFAULT_SIZE \in Nat
    /\ KERNEL_END \in Nat \ {0} /\ FALLBACK_SIZE \in Nat
    /\ KERNEL_END <= DEFAULT_SIZE

VARIABLE info   \* the information block of this boot

bootVars == <<pmmVars, info>>

-----------------------------------------------------------------------------
\* The tags parse_mmap looks at: up to total_size, and up to the one that ends the list.
Visited(i) ==
    LET n == Min({i.within} \cup {k - 1 : k \in {k \in DOMAIN i.tags : i.tags[k].type = 0}})
    IN  SubSeq(i.tags, 1, n)

\* The entries of the memory maps among them, in their order.
Entries(i) ==
    LET maps == SelectSeq(Visited(i), LAMBDA t : t.type = 6)
    IN  FlattenSeq([k \in DOMAIN maps |-> maps[k].entries])

\* An entry of a memory map: base_addr and length are uint64_t, type is uint32_t.
ASSUME MapAssumption ==
    \A i \in Infos : Entries(i) \in Seq([base_addr : Nat, length : Nat, type : Nat])

\* Mutant: memory of any type is taken.
AnyLarger(best, e) == IF e.length > best[2] THEN <<e.base_addr, e.length>> ELSE best

\* One entry against the best region so far.
Larger(best, e) == IF e.type = 1 /\ e.length > best[2] THEN <<e.base_addr, e.length>> ELSE best

parse_mmap(i) ==
    LET es == Entries(i)
        best[k \in 0 .. Len(es)] == IF k = 0 THEN <<DEFAULT_BASE, DEFAULT_SIZE>>
                                    ELSE Larger(best[k - 1], es[k])
    IN  best[Len(es)]

\* Mutant: only what lies below the kernel's image is skipped.
SkipsToImage(r) ==
    IF r[1] >= DEFAULT_BASE THEN r ELSE <<DEFAULT_BASE, r[2] - (DEFAULT_BASE - r[1])>>

\* kernel_main skips the memory of the kernel.
SkipKernel(r) ==
    LET skip == KERNEL_END - r[1]
    IN  IF r[1] >= KERNEL_END THEN r
        ELSE IF skip < r[2] THEN <<r[1] + skip, r[2] - skip>>
        ELSE <<KERNEL_END, FALLBACK_SIZE>>

KernelRegion(i) == SkipKernel(parse_mmap(i))

BootInit == info \in Infos /\ pmm_init(KernelRegion(info))

BootNext == PmmNext /\ UNCHANGED info

BootSpec == BootInit /\ [][BootNext]_bootVars

-----------------------------------------------------------------------------
(* Properties *)

\* No frame the allocator manages is memory of the kernel, whatever the map says.
PoolAboveKernel == pmm_total_pages > 0 => pmm_base >= KERNEL_END

\* If the map has an available entry larger than the default, the frames lie in a
\* largest one of these, but for the last frame, which ends behind it by less than a
\* page when the entry is not aligned.
PoolIsAvailable ==
    LET found == {e \in ToSet(Entries(info)) : e.type = 1 /\ e.length > DEFAULT_SIZE}
    IN  found # {} =>
          \E e \in found :
             /\ \A g \in found : g.length <= e.length
             /\ e.base_addr <= pmm_base
             /\ pmm_base + pmm_total_pages * PAGE_SIZE < e.base_addr + e.length + PAGE_SIZE
=============================================================================
