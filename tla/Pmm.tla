-------------------------------- MODULE Pmm --------------------------------
(***************************************************************************)
(* The physical memory manager (kernel/mm/pmm.c): a bitmap with one bit per *)
(* page frame, searched from the place where the last search ended.  The    *)
(* bitmap is the set of frames whose bit is set; addresses are in bytes.    *)
(*                                                                         *)
(* The kernel calls it only from kernel_main, before interrupts are on, so  *)
(* every call is one action.  Callers may pass pmm_free any address at all. *)
(***************************************************************************)
EXTENDS Integers, FiniteSetsExt

CONSTANTS PAGE_SIZE,       \* 4096
          PMM_MAX_PAGES,   \* frames the bitmap has bits for (131072)
          Regions,         \* the <<mem_base, mem_size>> pmm_init is called with
          Addresses        \* the addresses pmm_free is called with

ASSUME PageAssumption == PAGE_SIZE \in Nat \ {0} /\ PMM_MAX_PAGES \in Nat

\* Frame 0 must not lie at NULL, which pmm_alloc returns when it finds nothing.
ASSUME RegionAssumption == Regions \subseteq (Nat \ {0}) \X Nat
ASSUME AddressAssumption == Addresses \subseteq Nat

VARIABLES bitmap,           \* frames whose bit is set: used
          pmm_base,         \* address of frame 0
          pmm_total_pages,  \* frames managed
          pmm_free_pages,   \* frames pmm_free_count() reports as free
          pmm_last_alloc,   \* where the next search starts
          region,           \* the memory the boot loader reported
          result            \* frame the last pmm_alloc returned, or NoFrame

pmmVars == <<bitmap, pmm_base, pmm_total_pages, pmm_free_pages, pmm_last_alloc,
             region, result>>

NoFrame == -1
AllFrames == 0 .. (PMM_MAX_PAGES - 1)
Frame == 0 .. (pmm_total_pages - 1)
FreeFrames == Frame \ bitmap

\* PAGE_ALIGN rounds up.
PageAlign(a) == ((a + PAGE_SIZE - 1) \div PAGE_SIZE) * PAGE_SIZE

\* Mutant: more frames than the bitmap has bits for.
TotalUnchecked(size) == size \div PAGE_SIZE

\* pmm_init: as many frames as fit in the region, no more than the bitmap holds.
TotalPages(size) == IF size \div PAGE_SIZE > PMM_MAX_PAGES THEN PMM_MAX_PAGES
                                                           ELSE size \div PAGE_SIZE

\* pmm_init, the first call: everything used, then the managed frames free.
pmm_init(r) ==
    /\ region = r
    /\ pmm_base = PageAlign(r[1])
    /\ pmm_total_pages = TotalPages(r[2])
    /\ bitmap = AllFrames \ (0 .. (pmm_total_pages - 1))
    /\ pmm_free_pages = pmm_total_pages
    /\ pmm_last_alloc = 0
    /\ result = NoFrame

PmmInit == \E r \in Regions : pmm_init(r)

\* Offsets from pmm_last_alloc at which the search meets a free frame.
Hits == {i \in Frame : (pmm_last_alloc + i) % pmm_total_pages \notin bitmap}

\* Mutant: the search does not wrap, it stops at the end of the bitmap.
HitsToEnd == {i \in Frame : /\ pmm_last_alloc + i < pmm_total_pages
                            /\ pmm_last_alloc + i \notin bitmap}

\* Mutant: the lowest free frame, first fit.
LowestFrame(hits) == Min(FreeFrames)

\* The frame at the first of these offsets.
FoundFrame(hits) == (pmm_last_alloc + Min(hits)) % pmm_total_pages

\* pmm_alloc, also under the name pmm_alloc_page: next fit.
Allocate(hits) ==
    LET frame == FoundFrame(hits)
    IN  /\ bitmap' = bitmap \cup {frame}
        /\ pmm_free_pages' = pmm_free_pages - 1
        /\ pmm_last_alloc' = (frame + 1) % pmm_total_pages
        /\ result' = frame
        /\ UNCHANGED <<pmm_base, pmm_total_pages, region>>

\* The search found nothing: NULL, and no change.
OutOfMemory ==
    /\ result' = NoFrame
    /\ UNCHANGED <<bitmap, pmm_base, pmm_total_pages, pmm_free_pages,
                   pmm_last_alloc, region>>

\* Mutant: a search that does not wrap around.
AllocNoWrap == IF HitsToEnd # {} THEN Allocate(HitsToEnd) ELSE OutOfMemory

pmm_alloc == IF Hits # {} THEN Allocate(Hits) ELSE OutOfMemory

\* The frame an address lies in.
FrameOf(a) == (a - pmm_base) \div PAGE_SIZE

\* Mutant: a frame that is free already is not noticed.
FreeUnguarded(a) == a # 0 /\ a >= pmm_base /\ FrameOf(a) < pmm_total_pages

\* The early returns of pmm_free: NULL, outside the memory, free already.
Freeable(a) ==
    /\ a # 0 /\ a >= pmm_base
    /\ FrameOf(a) < pmm_total_pages
    /\ FrameOf(a) \in bitmap

\* pmm_free, also under the name pmm_free_page.
pmm_free(a) ==
    /\ IF Freeable(a) THEN /\ bitmap' = bitmap \ {FrameOf(a)}
                           /\ pmm_free_pages' = pmm_free_pages + 1
                      ELSE UNCHANGED <<bitmap, pmm_free_pages>>
    /\ UNCHANGED <<pmm_base, pmm_total_pages, pmm_last_alloc, region, result>>

PmmNext == pmm_alloc \/ \E a \in Addresses : pmm_free(a)

PmmSpec == PmmInit /\ [][PmmNext]_pmmVars

-----------------------------------------------------------------------------
\* Every variable holds a value the code can give it; the search position stays
\* inside the managed frames and the bitmap inside its array.
PmmTypeOK ==
    /\ region \in Regions
    /\ pmm_base \in Nat
    /\ pmm_total_pages \in 0 .. PMM_MAX_PAGES
    /\ bitmap \subseteq AllFrames
    /\ pmm_free_pages \in 0 .. pmm_total_pages
    /\ pmm_last_alloc \in Frame \cup {0}
    /\ result \in Frame \cup {NoFrame}

\* pmm_free_count() is exact after any sequence of allocations and frees,
\* double frees and frees of foreign addresses included.
FreeCountExact == pmm_free_pages = Cardinality(FreeFrames)

\* Next fit hands out free frames only, and reports exhaustion only when not one
\* frame is free; a frame is out until it is given back.
PA == INSTANCE PageAllocator WITH Pages <- AllFrames, None <- NoFrame,
                                  free <- FreeFrames, granted <- result
ImplementsPageAllocator == PA!PASpec

\* The search resumes where the last one ended: an allocation goes back to frames
\* behind that place only when all those ahead of it are out, so a frame just
\* given back is not the next one to be handed out while others are free.
NextFitOrder ==
    [][\A f \in bitmap' \ bitmap : f < pmm_last_alloc =>
           \A g \in FreeFrames : g < pmm_last_alloc]_pmmVars
=============================================================================
