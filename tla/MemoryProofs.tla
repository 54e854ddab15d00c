---------------------------- MODULE MemoryProofs ----------------------------
(***************************************************************************)
(* Proofs about the allocators under kernel/mm.  The physical memory         *)
(* manager, for every page size, bitmap size, memory region and address      *)
(* freed, and the region it is given, for every memory map.  The kernel      *)
(* heap, for every size of the heap, the header and the rounding, and every  *)
(* set of requests whose sums do not wrap.                                   *)
(***************************************************************************)
EXTENDS Boot, KHeap, SearchLemmas, FiniteSetTheorems

-----------------------------------------------------------------------------
(* The physical memory manager *)

PmmInv == PmmTypeOK /\ FreeCountExact

\* The numbers the search computes with.
LEMMA SearchTypes ==
    ASSUME PmmTypeOK, Frame # {}
    PROVE  /\ pmm_total_pages \in Nat \ {0}
           /\ pmm_last_alloc \in Nat /\ pmm_last_alloc < pmm_total_pages
           /\ Frame = 0 .. (pmm_total_pages - 1)
  BY PageAssumption DEF PmmTypeOK, Frame

\* The frame the search looks at after i steps.
LEMMA SearchIndex ==
    ASSUME PmmTypeOK, NEW i \in Frame
    PROVE  /\ (pmm_last_alloc + i) % pmm_total_pages =
                 IF pmm_last_alloc + i < pmm_total_pages
                 THEN pmm_last_alloc + i ELSE pmm_last_alloc + i - pmm_total_pages
           /\ (pmm_last_alloc + i) % pmm_total_pages \in Frame
<1>1. /\ pmm_total_pages \in Nat \ {0} /\ pmm_last_alloc \in Nat
      /\ pmm_last_alloc < pmm_total_pages /\ i \in Nat /\ i < pmm_total_pages
  BY SearchTypes DEF Frame
<1>2. PICK a \in 0 .. (2 * pmm_total_pages - 1) : a = pmm_last_alloc + i
  BY <1>1
<1>3. a % pmm_total_pages = IF a < pmm_total_pages THEN a ELSE a - pmm_total_pages
  BY <1>1, OneTurn
<1>4. a % pmm_total_pages \in Frame
  BY <1>1, <1>3 DEF Frame
<1> QED BY <1>1, <1>2, <1>3, <1>4

\* The search looks at every frame: at f after Turn(f) steps.
Turn(f) == IF f >= pmm_last_alloc THEN f - pmm_last_alloc
                                  ELSE f - pmm_last_alloc + pmm_total_pages

\* No frame is left out of the search.
LEMMA SearchReaches ==
    ASSUME PmmTypeOK, NEW f \in Frame
    PROVE  Turn(f) \in Frame /\ (pmm_last_alloc + Turn(f)) % pmm_total_pages = f
<1>1. /\ pmm_total_pages \in Nat \ {0} /\ pmm_last_alloc \in Nat
      /\ pmm_last_alloc < pmm_total_pages /\ f \in Nat /\ f < pmm_total_pages
  BY SearchTypes DEF Frame
<1>2. Turn(f) \in Frame
  BY <1>1 DEF Turn, Frame
<1>3. (pmm_last_alloc + Turn(f)) % pmm_total_pages =
         IF pmm_last_alloc + Turn(f) < pmm_total_pages
         THEN pmm_last_alloc + Turn(f) ELSE pmm_last_alloc + Turn(f) - pmm_total_pages
  BY <1>2, SearchIndex
<1>4. IF pmm_last_alloc + Turn(f) < pmm_total_pages
      THEN pmm_last_alloc + Turn(f) = f
      ELSE pmm_last_alloc + Turn(f) - pmm_total_pages = f
  BY <1>1 DEF Turn
<1> QED BY <1>2, <1>3, <1>4

\* The search comes back empty only when every frame is out; otherwise it finds a
\* free frame, and the first one it meets.
LEMMA SearchFinds ==
    ASSUME PmmTypeOK
    PROVE  /\ Hits = {} <=> FreeFrames = {}
           /\ Hits # {} =>
                 /\ FoundFrame(Hits) \in FreeFrames
                 /\ FoundFrame(Hits) < pmm_last_alloc =>
                       \A g \in FreeFrames : g < pmm_last_alloc
<1>1. ASSUME NEW f \in FreeFrames PROVE Turn(f) \in Hits
  BY SearchReaches DEF FreeFrames, Hits
<1>2. ASSUME NEW i \in Hits PROVE (pmm_last_alloc + i) % pmm_total_pages \in FreeFrames
  BY SearchIndex DEF FreeFrames, Hits
<1>3. ASSUME Hits # {}
      PROVE  /\ FoundFrame(Hits) \in FreeFrames
             /\ FoundFrame(Hits) < pmm_last_alloc =>
                   \A g \in FreeFrames : g < pmm_last_alloc
  <2> DEFINE i == Min(Hits)
  <2>1. Hits \in SUBSET Nat
    BY PageAssumption DEF Hits, Frame, PmmTypeOK
  <2>2. i \in Hits /\ \A n \in Hits : i <= n
    BY <1>3, <2>1, MinIsLeast
  <2>3. i \in Frame /\ Frame # {}
    BY <2>2 DEF Hits
  <2> HIDE DEF i
  <2>4. FoundFrame(Hits) = (pmm_last_alloc + i) % pmm_total_pages
    BY DEF FoundFrame, i
  <2>5. ASSUME FoundFrame(Hits) < pmm_last_alloc, NEW g \in FreeFrames,
               ~(g < pmm_last_alloc)
        PROVE  FALSE
    <3>1. /\ pmm_total_pages \in Nat \ {0} /\ pmm_last_alloc \in Nat
          /\ i \in Nat /\ g \in Nat /\ g < pmm_total_pages
      BY <2>3, SearchTypes DEF Frame, FreeFrames
    <3>2. i <= g - pmm_last_alloc
      BY <1>1, <2>2, <2>5, <3>1 DEF Turn
    <3>3. (pmm_last_alloc + i) % pmm_total_pages = pmm_last_alloc + i
      BY <2>3, <3>1, <3>2, SearchIndex
    <3> QED BY <2>4, <2>5, <3>1, <3>3
  <2>6. ASSUME NEW g \in FreeFrames PROVE g \in Int /\ pmm_last_alloc \in Int
    BY <2>3, SearchTypes DEF Frame, FreeFrames
  <2> QED BY <1>2, <2>2, <2>4, <2>5, <2>6
<1> QED BY <1>1, <1>2, <1>3

\* The free frames are finitely many, no more than there are frames.
LEMMA FreeFinite ==
    ASSUME PmmTypeOK
    PROVE  IsFiniteSet(FreeFrames) /\ Cardinality(FreeFrames) \in 0 .. pmm_total_pages
<1>1. pmm_total_pages \in Nat
  BY PageAssumption DEF PmmTypeOK
<1>2. IsFiniteSet(Frame) /\ Cardinality(Frame) = pmm_total_pages
  <2>1. IsFiniteSet(Frame) /\ Cardinality(Frame) =
            IF 0 > pmm_total_pages - 1 THEN 0 ELSE pmm_total_pages - 1 - 0 + 1
    BY <1>1, FS_Interval DEF Frame
  <2> QED BY <1>1, <2>1
<1>3. FreeFrames \subseteq Frame
  BY DEF FreeFrames
<1>4. IsFiniteSet(FreeFrames) /\ Cardinality(FreeFrames) <= Cardinality(Frame)
  BY <1>2, <1>3, FS_Subset
<1>5. Cardinality(FreeFrames) \in Nat
  BY <1>4, FS_CardinalityType
<1> QED BY <1>1, <1>2, <1>4, <1>5

-----------------------------------------------------------------------------
(* The steps *)

\* pmm_init leaves as many free frames as it counts.
LEMMA PmmInitEstablishes == PmmInit => PmmInv
<1> SUFFICES ASSUME PmmInit PROVE PmmInv
  OBVIOUS
<1>1. PICK r \in Regions :
         /\ region = r
         /\ pmm_base = PageAlign(r[1])
         /\ pmm_total_pages = TotalPages(r[2])
         /\ bitmap = AllFrames \ (0 .. (pmm_total_pages - 1))
         /\ pmm_free_pages = pmm_total_pages
         /\ pmm_last_alloc = 0
         /\ result = NoFrame
  BY DEF PmmInit, pmm_init
<1>2. r[1] \in Nat /\ r[2] \in Nat
  BY RegionAssumption
<1>3. pmm_total_pages \in 0 .. PMM_MAX_PAGES
  <2>1. r[2] \div PAGE_SIZE \in Nat
    BY <1>2, PageAssumption
  <2> QED BY <1>1, <2>1, PageAssumption DEF TotalPages
<1>4. pmm_base \in Nat
  <2>1. r[1] + PAGE_SIZE - 1 \in Nat
    BY <1>2, PageAssumption
  <2>2. (r[1] + PAGE_SIZE - 1) \div PAGE_SIZE \in Nat
    BY <2>1, PageAssumption
  <2>3. ((r[1] + PAGE_SIZE - 1) \div PAGE_SIZE) * PAGE_SIZE \in Nat
    BY <2>2, PageAssumption
  <2> QED BY <1>1, <2>3 DEF PageAlign
<1>5. PmmTypeOK
  BY <1>1, <1>3, <1>4, PageAssumption DEF PmmTypeOK, Frame, AllFrames
<1>6. FreeFrames = 0 .. (pmm_total_pages - 1)
  BY <1>1 DEF FreeFrames, Frame
<1>7. Cardinality(FreeFrames) =
         IF 0 > pmm_total_pages - 1 THEN 0 ELSE pmm_total_pages - 1 - 0 + 1
  BY <1>3, <1>6, PageAssumption, FS_Interval
<1>8. FreeCountExact
  BY <1>1, <1>3, <1>7, PageAssumption DEF FreeCountExact
<1> QED BY <1>5, <1>8 DEF PmmInv

\* What pmm_alloc does to the free frames when it finds one.
LEMMA AllocTakes ==
    ASSUME PmmInv, Hits # {}, Allocate(Hits)
    PROVE  /\ FoundFrame(Hits) \in FreeFrames
           /\ FreeFrames' = FreeFrames \ {FoundFrame(Hits)}
           /\ result' = FoundFrame(Hits)
           /\ PmmInv'
<1> DEFINE f == FoundFrame(Hits)
<1>1. f \in FreeFrames
  BY SearchFinds DEF PmmInv
<1> HIDE DEF f
<1>2. /\ bitmap' = bitmap \cup {f} /\ pmm_free_pages' = pmm_free_pages - 1
      /\ pmm_last_alloc' = (f + 1) % pmm_total_pages /\ result' = f
      /\ pmm_base' = pmm_base /\ pmm_total_pages' = pmm_total_pages /\ region' = region
  BY DEF Allocate, f
<1>3. Frame' = Frame /\ FreeFrames' = FreeFrames \ {f}
  BY <1>2 DEF Frame, FreeFrames
<1>4. /\ f \in Frame /\ f \in AllFrames /\ f \in Nat
      /\ pmm_total_pages \in Nat \ {0} /\ f < pmm_total_pages
  BY <1>1, PageAssumption DEF FreeFrames, Frame, AllFrames, PmmInv, PmmTypeOK
<1>5. pmm_last_alloc' \in Frame
  <2>1. PICK a \in 0 .. (2 * pmm_total_pages - 1) : a = f + 1
    BY <1>4
  <2>2. a % pmm_total_pages = IF a < pmm_total_pages THEN a ELSE a - pmm_total_pages
    BY <1>4, OneTurn
  <2>3. a % pmm_total_pages \in Frame
    BY <1>4, <2>1, <2>2 DEF Frame
  <2> QED BY <1>2, <2>1, <2>3
<1>6. /\ IsFiniteSet(FreeFrames)
      /\ Cardinality(FreeFrames) = pmm_free_pages
      /\ Cardinality(FreeFrames') = pmm_free_pages - 1
  BY <1>1, <1>3, FreeFinite, FS_RemoveElement DEF PmmInv, FreeCountExact
<1>7. pmm_free_pages # 0
  BY <1>1, <1>6, FS_EmptySet
<1>8. PmmTypeOK'
  BY <1>2, <1>3, <1>4, <1>5, <1>7 DEF PmmInv, PmmTypeOK
<1>9. FreeCountExact'
  BY <1>2, <1>6 DEF FreeCountExact
<1> QED BY <1>1, <1>2, <1>3, <1>8, <1>9 DEF PmmInv, f

\* pmm_alloc without a hit, and an unchanged state.
LEMMA NothingAllocated ==
    ASSUME PmmInv,
           OutOfMemory \/ UNCHANGED pmmVars
    PROVE  PmmInv' /\ FreeFrames' = FreeFrames
<1>1. /\ bitmap' = bitmap /\ pmm_base' = pmm_base /\ region' = region
      /\ pmm_total_pages' = pmm_total_pages /\ pmm_free_pages' = pmm_free_pages
      /\ pmm_last_alloc' = pmm_last_alloc
      /\ result' \in {result, NoFrame}
  BY DEF OutOfMemory, pmmVars
<1>2. Frame' = Frame /\ FreeFrames' = FreeFrames
  BY <1>1 DEF Frame, FreeFrames
<1> QED BY <1>1, <1>2 DEF PmmInv, PmmTypeOK, FreeCountExact

\* What pmm_free does: it gives back a frame that was out, or nothing.
LEMMA FreeReturns ==
    ASSUME PmmInv, NEW a \in Addresses, pmm_free(a)
    PROVE  /\ PmmInv' /\ result' = result
           /\ \/ FreeFrames' = FreeFrames
              \/ /\ FrameOf(a) \in AllFrames \ FreeFrames
                 /\ FreeFrames' = FreeFrames \cup {FrameOf(a)}
           /\ bitmap' \subseteq bitmap
<1>1. /\ pmm_base' = pmm_base /\ pmm_total_pages' = pmm_total_pages
      /\ pmm_last_alloc' = pmm_last_alloc /\ region' = region /\ result' = result
      /\ Frame' = Frame
  BY DEF pmm_free, Frame
<1>2. CASE ~Freeable(a)
  <2>1. bitmap' = bitmap /\ pmm_free_pages' = pmm_free_pages
    BY <1>2 DEF pmm_free
  <2>2. FreeFrames' = FreeFrames
    BY <1>1, <2>1 DEF FreeFrames
  <2> QED BY <1>1, <2>1, <2>2 DEF PmmInv, PmmTypeOK, FreeCountExact
<1>3. CASE Freeable(a)
  <2> DEFINE f == FrameOf(a)
  <2>1. f \in Frame /\ f \in bitmap
    <3>1. a - pmm_base \in Nat
      BY <1>3, AddressAssumption DEF Freeable, PmmInv, PmmTypeOK
    <3>2. f \in Nat
      BY <3>1, PageAssumption DEF FrameOf
    <3> HIDE DEF f
    <3>3. f < pmm_total_pages /\ f \in bitmap
      BY <1>3 DEF Freeable, f
    <3> QED BY <3>2, <3>3, PageAssumption DEF Frame, PmmInv, PmmTypeOK
  <2> HIDE DEF f
  <2>2. bitmap' = bitmap \ {f} /\ pmm_free_pages' = pmm_free_pages + 1
    BY <1>3 DEF pmm_free, f
  <2>3. FreeFrames' = FreeFrames \cup {f} /\ f \notin FreeFrames /\ f \in AllFrames
    BY <1>1, <2>1, <2>2 DEF FreeFrames, PmmInv, PmmTypeOK
  <2>4. IsFiniteSet(FreeFrames) /\ Cardinality(FreeFrames) = pmm_free_pages
    BY FreeFinite DEF PmmInv, FreeCountExact
  <2>5. Cardinality(FreeFrames') = pmm_free_pages + 1
    BY <2>3, <2>4, FS_AddElement
  <2>6. pmm_free_pages' \in 0 .. pmm_total_pages
    <3>1. FreeFrames' \subseteq Frame
      BY <2>1, <2>3 DEF FreeFrames
    <3>2. pmm_total_pages \in Nat
      BY PageAssumption DEF PmmInv, PmmTypeOK
    <3>3. IsFiniteSet(Frame) /\ Cardinality(Frame) =
              IF 0 > pmm_total_pages - 1 THEN 0 ELSE pmm_total_pages - 1 - 0 + 1
      BY <3>2, FS_Interval DEF Frame
    <3>4. Cardinality(FreeFrames') <= Cardinality(Frame)
      BY <3>1, <3>3, FS_Subset
    <3> QED BY <2>2, <2>5, <3>2, <3>3, <3>4 DEF PmmInv, PmmTypeOK
  <2>7. PmmTypeOK' /\ FreeCountExact'
    BY <1>1, <2>2, <2>5, <2>6 DEF PmmInv, PmmTypeOK, FreeCountExact
  <2> QED BY <1>1, <2>2, <2>3, <2>7 DEF PmmInv, f
<1> QED BY <1>2, <1>3

\* Every step keeps the invariant.
LEMMA PmmNextKeeps == ASSUME PmmInv, [PmmNext]_pmmVars PROVE PmmInv'
<1>1. CASE pmm_alloc
  BY <1>1, AllocTakes, NothingAllocated DEF pmm_alloc
<1>2. ASSUME NEW a \in Addresses, pmm_free(a) PROVE PmmInv'
  BY <1>2, FreeReturns
<1>3. CASE UNCHANGED pmmVars
  BY <1>3, NothingAllocated
<1> QED BY <1>1, <1>2, <1>3 DEF PmmNext

-----------------------------------------------------------------------------
(* Theorems *)

\* The invariant holds after any sequence of allocations and frees.
THEOREM PmmInvariant == PmmSpec => []PmmInv
<1>1. PmmInit => PmmInv
  BY PmmInitEstablishes
<1>2. PmmInv /\ [PmmNext]_pmmVars => PmmInv'
  BY PmmNextKeeps
<1> QED BY <1>1, <1>2, PTL DEF PmmSpec

\* pmm_free_count() is the number of free frames, double frees and frees of
\* addresses outside the memory included.
THEOREM CountIsExact == PmmSpec => []FreeCountExact
<1>1. PmmInv => FreeCountExact
  BY DEF PmmInv
<1> QED BY <1>1, PmmInvariant, PTL

\* The bitmap implements the page allocator: a frame is handed out only when free,
\* NULL is returned only when none is.
THEOREM PmmRefinesPageAllocator == PmmSpec => ImplementsPageAllocator
<1>1. PmmInit => PA!PAInit
  <2> SUFFICES ASSUME PmmInit PROVE FreeFrames \subseteq AllFrames /\ result = NoFrame
    BY DEF PA!PAInit
  <2>1. PmmTypeOK
    BY PmmInitEstablishes DEF PmmInv
  <2>2. Frame \subseteq AllFrames
    BY <2>1, PageAssumption DEF PmmTypeOK, Frame, AllFrames
  <2> QED BY <2>2 DEF FreeFrames, PmmInit, pmm_init
<1>2. ASSUME PmmInv, [PmmNext]_pmmVars PROVE [PA!PANext]_<<FreeFrames, result>>
  <2>1. CASE pmm_alloc /\ Hits # {}
    <3>1. /\ FoundFrame(Hits) \in FreeFrames
          /\ FreeFrames' = FreeFrames \ {FoundFrame(Hits)}
          /\ result' = FoundFrame(Hits)
      BY <1>2, <2>1, AllocTakes DEF pmm_alloc
    <3>2. FoundFrame(Hits) \in AllFrames
      BY <1>2, <3>1, PageAssumption DEF FreeFrames, Frame, AllFrames, PmmInv, PmmTypeOK
    <3> QED BY <3>1, <3>2 DEF PA!PANext, PA!Grant
  <2>2. CASE pmm_alloc /\ Hits = {}
    <3>1. FreeFrames = {}
      BY <1>2, <2>2, SearchFinds DEF PmmInv
    <3>2. OutOfMemory
      BY <2>2 DEF pmm_alloc
    <3>3. result' = NoFrame /\ FreeFrames' = FreeFrames
      BY <1>2, <3>2, NothingAllocated DEF OutOfMemory
    <3> QED BY <3>1, <3>3 DEF PA!PANext, PA!Refuse
  <2>3. ASSUME NEW a \in Addresses, pmm_free(a)
        PROVE  [PA!PANext]_<<FreeFrames, result>>
    <3>1. /\ result' = result
          /\ \/ FreeFrames' = FreeFrames
             \/ /\ FrameOf(a) \in AllFrames \ FreeFrames
                /\ FreeFrames' = FreeFrames \cup {FrameOf(a)}
      BY <1>2, <2>3, FreeReturns
    <3> QED BY <3>1 DEF PA!PANext, PA!Release
  <2>4. CASE UNCHANGED pmmVars
    BY <1>2, <2>4, NothingAllocated DEF pmmVars
  <2> QED BY <1>2, <2>1, <2>2, <2>3, <2>4 DEF PmmNext
<1> QED BY <1>1, <1>2, PmmInvariant, PTL DEF PmmSpec, ImplementsPageAllocator, PA!PASpec

\* Next fit: an allocation turns back only when nothing ahead is free.
THEOREM TurnsBackLast == PmmSpec => NextFitOrder
<1>1. ASSUME PmmInv, [PmmNext]_pmmVars
      PROVE  [\A f \in bitmap' \ bitmap : f < pmm_last_alloc =>
                 \A g \in FreeFrames : g < pmm_last_alloc]_pmmVars
  <2> SUFFICES ASSUME NEW f \in bitmap' \ bitmap, f < pmm_last_alloc
               PROVE  \A g \in FreeFrames : g < pmm_last_alloc
    OBVIOUS
  <2>1. CASE pmm_alloc /\ Hits # {}
    <3>1. f = FoundFrame(Hits)
      BY <2>1 DEF pmm_alloc, Allocate
    <3> QED BY <1>1, <2>1, <3>1, SearchFinds DEF PmmInv
  <2>2. CASE pmm_alloc /\ Hits = {}
    BY <2>2 DEF pmm_alloc, OutOfMemory
  <2>3. ASSUME NEW a \in Addresses, pmm_free(a) PROVE FALSE
    BY <1>1, <2>3, FreeReturns
  <2>4. CASE UNCHANGED pmmVars
    BY <2>4 DEF pmmVars
  <2> QED BY <1>1, <2>1, <2>2, <2>3, <2>4 DEF PmmNext
<1> QED BY <1>1, PmmInvariant, PTL DEF PmmSpec, NextFitOrder

\* The search position stays among the managed frames, the bitmap in its array.
THEOREM PmmTypeCorrect == PmmSpec => []PmmTypeOK
<1>1. PmmInv => PmmTypeOK
  BY DEF PmmInv
<1> QED BY <1>1, PmmInvariant, PTL

-----------------------------------------------------------------------------
(* The region kernel_main hands to pmm_init *)

Entry == [base_addr : Nat, length : Nat, type : Nat]

\* What the loop of parse_mmap has found in the first k entries: the default, or an
\* available entry larger than it, and none of them is larger than what it has.
Found(es, k, r) ==
    /\ r \in Nat \X Nat /\ r[2] >= DEFAULT_SIZE
    /\ \A j \in 1 .. k : es[j].type = 1 => es[j].length <= r[2]
    /\ \/ r = <<DEFAULT_BASE, DEFAULT_SIZE>>
       \/ \E j \in 1 .. k : /\ es[j].type = 1 /\ es[j].length > DEFAULT_SIZE
                            /\ r = <<es[j].base_addr, es[j].length>>

\* One turn of the loop.
LEMMA LargerFinds ==
    ASSUME NEW es \in Seq(Entry), NEW k \in 1 .. Len(es), NEW r, Found(es, k - 1, r)
    PROVE  Found(es, k, Larger(r, es[k]))
<1>1. /\ es[k].base_addr \in Nat /\ es[k].length \in Nat /\ es[k].type \in Nat
      /\ DEFAULT_SIZE \in Nat /\ r \in Nat \X Nat /\ r[2] \in Nat /\ k \in Nat
      /\ \A j \in 1 .. Len(es) : es[j].length \in Nat
  <2>1. k \in Nat /\ DEFAULT_SIZE \in Nat /\ \A j \in 1 .. Len(es) : es[j] \in Entry
    BY BootAssumption
  <2>2. \A j \in 1 .. Len(es) :
           es[j].base_addr \in Nat /\ es[j].length \in Nat /\ es[j].type \in Nat
    BY <2>1 DEF Entry
  <2>3. r \in Nat \X Nat /\ r[2] \in Nat
    BY DEF Found
  <2> QED BY <2>1, <2>2, <2>3
<1>2. CASE es[k].type = 1 /\ es[k].length > r[2]
  <2> DEFINE q == <<es[k].base_addr, es[k].length>>
  <2>1. Larger(r, es[k]) = q /\ q[2] = es[k].length /\ q \in Nat \X Nat
    BY <1>1, <1>2 DEF Larger
  <2>2. \A j \in 1 .. k : es[j].type = 1 => es[j].length <= es[k].length
    <3> SUFFICES ASSUME NEW j \in 1 .. k, es[j].type = 1 PROVE es[j].length <= es[k].length
      OBVIOUS
    <3>1. CASE j = k
      BY <1>1, <3>1
    <3>2. CASE j # k
      <4>1. j \in 1 .. (k - 1) /\ es[j].length \in Nat
        BY <1>1, <3>2
      <4>2. es[j].length <= r[2]
        BY <4>1 DEF Found
      <4> QED BY <1>1, <1>2, <4>1, <4>2
    <3> QED BY <3>1, <3>2
  <2>3. es[k].length > DEFAULT_SIZE /\ k \in 1 .. k
    BY <1>1, <1>2 DEF Found
  <2> HIDE DEF q
  <2> QED BY <1>1, <1>2, <2>1, <2>2, <2>3 DEF Found, q
<1>3. CASE ~(es[k].type = 1 /\ es[k].length > r[2])
  <2>1. Larger(r, es[k]) = r
    BY <1>3 DEF Larger
  <2>2. \A j \in 1 .. k : es[j].type = 1 => es[j].length <= r[2]
    <3> SUFFICES ASSUME NEW j \in 1 .. k, es[j].type = 1 PROVE es[j].length <= r[2]
      OBVIOUS
    <3>1. CASE j = k
      BY <1>1, <1>3, <3>1
    <3>2. CASE j # k
      <4>1. j \in 1 .. (k - 1)
        BY <1>1, <3>2
      <4> QED BY <4>1 DEF Found
    <3> QED BY <3>1, <3>2
  <2>3. \A j \in 1 .. (k - 1) : j \in 1 .. k
    BY <1>1
  <2> QED BY <2>1, <2>2, <2>3 DEF Found
<1> QED BY <1>2, <1>3

\* The loop of parse_mmap ends with a largest available entry, or the default.
LEMMA ParseFinds ==
    ASSUME NEW i \in Infos
    PROVE  Found(Entries(i), Len(Entries(i)), parse_mmap(i))
<1> DEFINE es == Entries(i)
           n == Len(es)
           d == <<DEFAULT_BASE, DEFAULT_SIZE>>
           Body(m, f) == [k \in 0 .. m |-> IF k = 0 THEN d ELSE Larger(f[k - 1], es[k])]
           w == CHOOSE f : f = Body(n, f)
<1>1. es \in Seq(Entry) /\ n \in Nat
  BY MapAssumption DEF Entry
<1>2. parse_mmap(i) = w[n]
  BY DEF parse_mmap
<1> HIDE DEF es, d, n
<1>3. \E f : f = Body(n, f)
  <2> DEFINE S == {m \in 0 .. n : \E f : f = Body(m, f)}
  <2>1. 0 \in S
    <3> DEFINE g == [k \in 0 .. 0 |-> d]
    <3>1. g = Body(0, g)
      OBVIOUS
    <3>2. 0 \in 0 .. n
      BY <1>1
    <3> HIDE DEF g, Body
    <3> QED BY <3>1, <3>2
  <2>2. ASSUME NEW m \in 0 .. (n - 1), m \in S PROVE m + 1 \in S
    <3>1. PICK f : f = Body(m, f)
      BY <2>2
    <3> DEFINE g == [k \in 0 .. (m + 1) |-> IF k = m + 1 THEN Larger(f[m], es[m + 1]) ELSE f[k]]
    <3>2. ASSUME NEW k \in 0 .. (m + 1) PROVE g[k] = Body(m + 1, g)[k]
      <4>1. m \in Nat /\ m \in 0 .. (m + 1) /\ m # m + 1 /\ m + 1 # 0 /\ (m + 1) - 1 = m
        BY <1>1
      <4>2. CASE k = m + 1
        <5>1. g[m] = f[m]
          BY <4>1
        <5> QED BY <4>1, <4>2, <5>1
      <4>3. CASE k = 0
        <5>1. f[0] = d
          BY <3>1, <4>1
        <5> QED BY <4>1, <4>3, <5>1
      <4>4. CASE k # m + 1 /\ k # 0
        <5>1. k \in 0 .. m /\ k - 1 \in 0 .. (m + 1) /\ k - 1 # m + 1
          BY <4>1, <4>4
        <5>2. f[k] = Larger(f[k - 1], es[k])
          BY <3>1, <4>4, <5>1
        <5>3. g[k - 1] = f[k - 1] /\ g[k] = f[k]
          BY <4>4, <5>1
        <5> QED BY <4>4, <5>2, <5>3
      <4> QED BY <4>2, <4>3, <4>4
    <3>3. g = Body(m + 1, g)
      BY <3>2
    <3>4. m + 1 \in 0 .. n
      BY <1>1
    <3> HIDE DEF g, Body
    <3> QED BY <3>3, <3>4
  <2>3. n \in S
    <3> HIDE DEF S
    <3>1. \A m \in 0 .. n : m \in S
      BY <1>1, <2>1, <2>2, EntryInduction
    <3>2. n \in 0 .. n
      BY <1>1
    <3> QED BY <3>1, <3>2
  <2> QED BY <2>3
<1>4. w = Body(n, w)
  <2> HIDE DEF Body
  <2> QED BY <1>3
<1> HIDE DEF w
<1>5. /\ w[0] = d
      /\ \A k \in 1 .. n : w[k] = Larger(w[k - 1], es[k])
  BY <1>1, <1>4
<1> DEFINE T == {k \in 0 .. n : Found(es, k, w[k])}
<1>6. 0 \in T
  <2>1. Found(es, 0, d)
    BY BootAssumption DEF Found, d
  <2> QED BY <1>1, <1>5, <2>1
<1>7. ASSUME NEW k \in 0 .. (n - 1), k \in T PROVE k + 1 \in T
  <2>1. k + 1 \in 1 .. n /\ (k + 1) - 1 = k /\ k + 1 \in 0 .. n
    BY <1>1
  <2>2. Found(es, (k + 1) - 1, w[k])
    BY <1>7, <2>1
  <2>3. Found(es, k + 1, Larger(w[k], es[k + 1]))
    BY <1>1, <2>1, <2>2, LargerFinds DEF n
  <2>4. w[k + 1] = Larger(w[k], es[k + 1])
    BY <1>5, <2>1
  <2> QED BY <2>1, <2>3, <2>4
<1>8. n \in T
  <2> HIDE DEF T
  <2>1. \A k \in 0 .. n : k \in T
    BY <1>1, <1>6, <1>7, EntryInduction
  <2>2. n \in 0 .. n
    BY <1>1
  <2> QED BY <2>1, <2>2
<1> QED BY <1>2, <1>8 DEF es, n

\* The region pmm_init was called with is the one kernel_main chose, and the
\* allocator never manages anything else.
BootInv ==
    /\ info \in Infos /\ region = KernelRegion(info)
    /\ pmm_base = PageAlign(region[1]) /\ pmm_total_pages = TotalPages(region[2])

\* PAGE_ALIGN goes up by less than a page; the frames fit in the size they are counted of.
LEMMA PagesFit ==
    /\ \A a \in Nat : PageAlign(a) \in Nat /\ a <= PageAlign(a) /\ PageAlign(a) < a + PAGE_SIZE
    /\ \A size \in Nat : /\ TotalPages(size) \in Nat
                         /\ TotalPages(size) * PAGE_SIZE \in Nat
                         /\ TotalPages(size) * PAGE_SIZE <= size
<1>1. ASSUME NEW k \in Nat
      PROVE  /\ k \div PAGE_SIZE \in Nat /\ (k \div PAGE_SIZE) * PAGE_SIZE \in Nat
             /\ (k \div PAGE_SIZE) * PAGE_SIZE <= k
             /\ k < (k \div PAGE_SIZE) * PAGE_SIZE + PAGE_SIZE
  BY PageAssumption
<1>2. ASSUME NEW a \in Nat
      PROVE  PageAlign(a) \in Nat /\ a <= PageAlign(a) /\ PageAlign(a) < a + PAGE_SIZE
  <2>1. PICK k \in Nat : k = a + PAGE_SIZE - 1
    BY PageAssumption
  <2>2. PageAlign(a) = (k \div PAGE_SIZE) * PAGE_SIZE
    BY <2>1 DEF PageAlign
  <2>3. PICK u \in Nat : u = PageAlign(a) /\ u <= k /\ k < u + PAGE_SIZE
    BY <1>1, <2>2
  <2> QED BY <2>1, <2>3, PageAssumption
<1>3. ASSUME NEW size \in Nat
      PROVE  /\ TotalPages(size) \in Nat /\ TotalPages(size) * PAGE_SIZE \in Nat
             /\ TotalPages(size) * PAGE_SIZE <= size
  <2>1. PICK t \in Nat : t = size \div PAGE_SIZE
    BY <1>1
  <2>2. t * PAGE_SIZE <= size /\ t * PAGE_SIZE \in Nat
    BY <1>1, <2>1
  <2>3. TotalPages(size) \in Nat /\ TotalPages(size) <= t
    BY <2>1, PageAssumption DEF TotalPages
  <2>4. \A a \in Nat : a <= t => a * PAGE_SIZE <= t * PAGE_SIZE /\ a * PAGE_SIZE \in Nat
    BY PageAssumption
  <2>5. TotalPages(size) * PAGE_SIZE <= t * PAGE_SIZE /\ TotalPages(size) * PAGE_SIZE \in Nat
    BY <2>3, <2>4
  <2>6. \A a, b, c \in Nat : a <= b /\ b <= c => a <= c
    OBVIOUS
  <2> QED BY <2>2, <2>3, <2>5, <2>6
<1> QED BY <1>2, <1>3

\* The kernel's memory is skipped, and the end of a region that is larger than the
\* kernel stays where it is.
LEMMA SkipFacts ==
    ASSUME NEW r \in Nat \X Nat
    PROVE  LET s == SkipKernel(r)
           IN  /\ s \in Nat \X Nat /\ s[1] >= KERNEL_END
               /\ r[2] > KERNEL_END => r[1] <= s[1] /\ s[1] + s[2] = r[1] + r[2]
<1>1. r[1] \in Nat /\ r[2] \in Nat /\ KERNEL_END \in Nat \ {0} /\ FALLBACK_SIZE \in Nat
  BY BootAssumption
<1>2. CASE r[1] >= KERNEL_END
  BY <1>1, <1>2 DEF SkipKernel
<1>3. CASE ~(r[1] >= KERNEL_END) /\ KERNEL_END - r[1] < r[2]
  <2>1. SkipKernel(r) = <<r[1] + (KERNEL_END - r[1]), r[2] - (KERNEL_END - r[1])>>
    BY <1>3 DEF SkipKernel
  <2> QED BY <1>1, <1>3, <2>1
<1>4. CASE ~(r[1] >= KERNEL_END) /\ ~(KERNEL_END - r[1] < r[2])
  <2>1. SkipKernel(r) = <<KERNEL_END, FALLBACK_SIZE>>
    BY <1>4 DEF SkipKernel
  <2>2. ~(r[2] > KERNEL_END)
    BY <1>1, <1>4
  <2> QED BY <1>1, <2>1, <2>2
<1> QED BY <1>2, <1>3, <1>4

\* No call of the allocator moves its region.
LEMMA BootKeeps ==
    ASSUME BootInv, [BootNext]_bootVars PROVE BootInv'
<1>1. /\ info' = info /\ region' = region
      /\ pmm_base' = pmm_base /\ pmm_total_pages' = pmm_total_pages
  BY DEF BootNext, PmmNext, pmm_alloc, Allocate, OutOfMemory, pmm_free, bootVars, pmmVars
<1> QED BY <1>1 DEF BootInv

\* Every memory map, an entry at address 0 or shorter than the kernel included, yields a
\* region the allocator can work with: its base is not NULL, its size not negative.
LEMMA RegionPermitted ==
    ASSUME NEW i \in Infos
    PROVE  KernelRegion(i) \in (Nat \ {0}) \X Nat
<1>1. parse_mmap(i) \in Nat \X Nat
  BY ParseFinds DEF Found
<1>2. PICK s : s = KernelRegion(i) /\ s \in Nat \X Nat /\ s[1] >= KERNEL_END
  BY <1>1, SkipFacts DEF KernelRegion
<1>3. s[1] \in Nat \ {0} /\ s[2] \in Nat /\ s = <<s[1], s[2]>>
  BY <1>2, BootAssumption
<1> QED BY <1>2, <1>3

\* What is proved of the allocator for every region holds of the one kernel_main starts,
\* whatever map the boot loader hands over: parse_mmap and the skipping of the kernel's
\* memory never produce a region outside RegionAssumption.
THEOREM BootRunsPmm ==
    Regions = (Nat \ {0}) \X Nat =>
        (BootSpec => PmmSpec /\ []FreeCountExact /\ ImplementsPageAllocator)
<1> SUFFICES ASSUME Regions = (Nat \ {0}) \X Nat
             PROVE  BootSpec => PmmSpec /\ []FreeCountExact /\ ImplementsPageAllocator
  OBVIOUS
<1>1. BootInit => PmmInit
  <2> SUFFICES ASSUME BootInit PROVE PmmInit
    OBVIOUS
  <2>1. info \in Infos /\ pmm_init(KernelRegion(info))
    BY DEF BootInit
  <2>2. KernelRegion(info) \in Regions
    BY <2>1, RegionPermitted
  <2> QED BY <2>1, <2>2, Zenon DEF PmmInit
<1>2. [BootNext]_bootVars => [PmmNext]_pmmVars
  BY DEF BootNext, bootVars
<1>3. BootSpec => PmmSpec
  BY <1>1, <1>2, PTL DEF BootSpec, PmmSpec
<1> QED BY <1>3, CountIsExact, PmmRefinesPageAllocator, PTL

\* kernel_main chooses a region, and the allocator keeps it.
THEOREM BootInvariant == BootSpec => []BootInv
<1>1. BootInit => BootInv
  BY DEF BootInit, pmm_init, BootInv
<1>2. BootInv /\ [BootNext]_bootVars => BootInv'
  BY BootKeeps
<1> QED BY <1>1, <1>2, PTL DEF BootSpec

\* The allocator manages no memory of the kernel, for any map the loader gives.
THEOREM KernelStaysOut == BootSpec => []PoolAboveKernel
<1>1. BootInv => PoolAboveKernel
  <2> SUFFICES ASSUME BootInv PROVE PoolAboveKernel
    OBVIOUS
  <2>1. parse_mmap(info) \in Nat \X Nat
    BY ParseFinds DEF BootInv, Found
  <2>2. region \in Nat \X Nat /\ region[1] >= KERNEL_END
    BY <2>1, SkipFacts DEF BootInv, KernelRegion
  <2>3. region[1] \in Nat /\ pmm_base \in Nat /\ region[1] <= pmm_base
    BY <2>2, PagesFit DEF BootInv
  <2> QED BY <2>2, <2>3, BootAssumption DEF PoolAboveKernel
<1> QED BY <1>1, BootInvariant, PTL

\* If a large enough piece of memory is available, a largest one is the pool.
THEOREM PoolStaysAvailable == BootSpec => []PoolIsAvailable
<1>1. BootInv => PoolIsAvailable
  <2> DEFINE es == Entries(info)
             n == Len(es)
             r == parse_mmap(info)
             found == {e \in ToSet(es) : e.type = 1 /\ e.length > DEFAULT_SIZE}
  <2> SUFFICES ASSUME BootInv, found # {}
               PROVE  \E e \in found :
                         /\ \A g \in found : g.length <= e.length
                         /\ e.base_addr <= pmm_base
                         /\ pmm_base + pmm_total_pages * PAGE_SIZE
                               < e.base_addr + e.length + PAGE_SIZE
    BY DEF PoolIsAvailable
  <2>1. es \in Seq(Entry) /\ n \in Nat /\ Found(es, n, r)
    BY MapAssumption, ParseFinds DEF BootInv, Entry
  <2>2. ToSet(es) = {es[j] : j \in 1 .. n}
    BY <2>1 DEF ToSet
  <2> HIDE DEF es, n, r
  <2>3. \A g \in found : \E j \in 1 .. n : g = es[j] /\ es[j].type = 1 /\ es[j].length > DEFAULT_SIZE
    BY <2>2
  <2>4. PICK g0 \in found : TRUE
    OBVIOUS
  <2>5. PICK j0 \in 1 .. n : es[j0].type = 1 /\ es[j0].length > DEFAULT_SIZE
    BY <2>3, <2>4
  <2>6. \A j \in 1 .. n : es[j].length \in Nat /\ es[j].base_addr \in Nat
    <3>1. \A j \in 1 .. n : es[j] \in Entry
      BY <2>1 DEF n
    <3> QED BY <3>1 DEF Entry
  <2>7. r[2] > DEFAULT_SIZE
    BY <2>1, <2>5, <2>6, BootAssumption DEF Found
  <2>8. r # <<DEFAULT_BASE, DEFAULT_SIZE>>
    BY <2>7, BootAssumption
  <2>9. PICK j \in 1 .. n : /\ es[j].type = 1 /\ es[j].length > DEFAULT_SIZE
                            /\ r = <<es[j].base_addr, es[j].length>>
    BY <2>1, <2>8 DEF Found
  <2>10. es[j] \in found
    BY <2>2, <2>9
  <2>11. \A g \in found : g.length <= es[j].length
    <3> SUFFICES ASSUME NEW g \in found PROVE g.length <= es[j].length
      OBVIOUS
    <3>1. PICK k \in 1 .. n : g = es[k] /\ es[k].type = 1
      BY <2>3
    <3>2. es[k].length <= r[2]
      BY <2>1, <3>1 DEF Found
    <3> QED BY <2>9, <3>1, <3>2
  <2>12. /\ r \in Nat \X Nat /\ r[1] = es[j].base_addr /\ r[2] = es[j].length
         /\ r[1] \in Nat /\ r[2] \in Nat
    BY <2>6, <2>9
  <2>13. region = SkipKernel(r)
    BY DEF BootInv, KernelRegion, r
  <2>14. /\ region[1] \in Nat /\ region[2] \in Nat
         /\ r[1] <= region[1] /\ region[1] + region[2] = r[1] + r[2]
    <3>1. r[2] > KERNEL_END
      BY <2>7, <2>12, BootAssumption
    <3> QED BY <2>12, <2>13, <3>1, SkipFacts
  <2>15. /\ pmm_base \in Nat /\ region[1] <= pmm_base /\ pmm_base < region[1] + PAGE_SIZE
         /\ pmm_total_pages * PAGE_SIZE \in Nat /\ pmm_total_pages * PAGE_SIZE <= region[2]
    BY <2>14, PagesFit DEF BootInv
  <2>16. PICK bytes \in Nat : bytes = pmm_total_pages * PAGE_SIZE
    BY <2>15
  <2>17. bytes <= region[2]
    BY <2>15, <2>16
  <2>18. r[1] <= pmm_base /\ pmm_base + bytes < r[1] + r[2] + PAGE_SIZE
    <3> HIDE DEF found
    <3> QED BY <2>12, <2>14, <2>15, <2>17, PageAssumption
  <2>19. /\ es[j].base_addr <= pmm_base
         /\ pmm_base + pmm_total_pages * PAGE_SIZE
               < es[j].base_addr + es[j].length + PAGE_SIZE
    BY <2>12, <2>16, <2>18
  <2> HIDE DEF found
  <2> QED BY <2>10, <2>11, <2>19
<1> QED BY <1>1, BootInvariant, PTL

-----------------------------------------------------------------------------
(* The kernel heap *)

Block == [at : Nat, size : Nat, free : BOOLEAN]

\* The first address behind a block.
End(b) == b.at + HEADER + b.size

\* The blocks lie one behind the other, between the start of the heap and heap_ptr.
Layout ==
    /\ \A i \in DOMAIN blocks : blocks[i].at >= KHEAP_START /\ End(blocks[i]) <= heap_ptr
    /\ \A i, j \in DOMAIN blocks : i < j => End(blocks[i]) <= blocks[j].at

\* What is held is the payload of a block in use that is large enough.
HeldFits ==
    \A a \in DOMAIN held : \E i \in DOMAIN blocks :
        a = Payload(blocks[i]) /\ ~blocks[i].free /\ held[a] <= blocks[i].size

HeapInv == HeapTypeOK /\ Layout /\ HeldFits /\ UsedIsHeld

-----------------------------------------------------------------------------
\* Division leaves a rest smaller than the divisor.
LEMMA DivFacts ==
    ASSUME NEW k \in Nat, NEW d \in Nat \ {0}
    PROVE  /\ k \div d \in Nat /\ (k \div d) * d \in Nat
           /\ (k \div d) * d <= k /\ k < (k \div d) * d + d
  OBVIOUS

\* ALIGN_UP gives at least what was asked for, and no sum of kmalloc wraps.
LEMMA SizesFit ==
    ASSUME HeapTypeOK, NEW n \in Requests
    PROVE  /\ n \in Nat /\ AlignUp(n) \in Nat /\ n <= AlignUp(n)
           /\ Total(n) = HEADER + AlignUp(n)
           /\ (heap_ptr + Total(n)) % WORD = heap_ptr + HEADER + AlignUp(n)
<1> DEFINE k == n + ALIGN - 1
           u == (k \div ALIGN) * ALIGN
<1>1. /\ n \in Nat /\ k \in Nat /\ ALIGN \in Nat \ {0} /\ HEADER \in Nat /\ WORD \in Nat
      /\ HeapEnd \in Nat /\ HeapEnd + HEADER + n + ALIGN <= WORD
  BY HeapAssumption, RequestAssumption DEF HeapEnd
<1>2. u \in Nat /\ u <= k /\ k < u + ALIGN
  <2> HIDE DEF k
  <2> QED BY <1>1, DivFacts
<1>3. k % WORD = k
  BY <1>1
<1>4. AlignUp(n) = u
  BY <1>3 DEF AlignUp
<1> HIDE DEF u
<1>5. n <= u /\ u <= n + ALIGN
  BY <1>1, <1>2
<1>6. heap_ptr \in Nat /\ heap_ptr <= HeapEnd
  BY HeapAssumption DEF HeapTypeOK, HeapEnd
<1>7. (HEADER + u) % WORD = HEADER + u
  BY <1>1, <1>2, <1>5
<1>8. (heap_ptr + (HEADER + u)) % WORD = heap_ptr + HEADER + u
  BY <1>1, <1>2, <1>5, <1>6
<1> QED BY <1>1, <1>2, <1>4, <1>5, <1>7, <1>8 DEF Total

\* What the invariant says of the blocks, in numbers.
LEMMA BlockFacts ==
    ASSUME HeapInv
    PROVE  /\ \A i \in DOMAIN blocks :
                 /\ blocks[i] \in Block
                 /\ blocks[i].at \in Nat /\ blocks[i].size \in Nat /\ blocks[i].free \in BOOLEAN
           /\ \A i, j \in DOMAIN blocks :
                 Payload(blocks[i]) = Payload(blocks[j]) => i = j
           /\ DOMAIN blocks = 1 .. Len(blocks) /\ Len(blocks) \in Nat
           /\ heap_ptr \in Nat /\ HEADER \in Nat \ {0} /\ KHEAP_START \in Nat
<1>1. /\ blocks \in Seq(Block) /\ Layout
      /\ heap_ptr \in Nat /\ HEADER \in Nat \ {0} /\ KHEAP_START \in Nat
  BY HeapAssumption DEF HeapInv, HeapTypeOK, Block, HeapEnd
<1>2. DOMAIN blocks = 1 .. Len(blocks) /\ Len(blocks) \in Nat
      /\ \A i \in DOMAIN blocks : blocks[i] \in Block
  BY <1>1
<1>3. \A i \in DOMAIN blocks :
         blocks[i].at \in Nat /\ blocks[i].size \in Nat /\ blocks[i].free \in BOOLEAN
  BY <1>2 DEF Block
<1>4. ASSUME NEW i \in DOMAIN blocks, NEW j \in DOMAIN blocks, i < j
      PROVE  Payload(blocks[i]) < Payload(blocks[j])
  <2>1. End(blocks[i]) <= blocks[j].at
    BY <1>1, <1>4 DEF Layout
  <2>2. PICK a, n, b \in Nat : a = blocks[i].at /\ n = blocks[i].size /\ b = blocks[j].at
    BY <1>3
  <2>3. a + HEADER + n <= b
    BY <2>1, <2>2 DEF End
  <2>4. a + HEADER < b + HEADER
    <3>1. HEADER \in Nat \ {0}
      BY <1>1
    <3> QED BY <2>3, <3>1
  <2> QED BY <2>2, <2>4 DEF Payload
<1>5. ASSUME NEW i \in DOMAIN blocks, NEW j \in DOMAIN blocks,
             Payload(blocks[i]) = Payload(blocks[j])
      PROVE  i = j
  <2>1. i \in Nat /\ j \in Nat /\ Payload(blocks[i]) \in Nat /\ Payload(blocks[j]) \in Nat
    BY <1>1, <1>2, <1>3 DEF Payload
  <2> QED BY <1>4, <1>5, <2>1
<1> QED BY <1>1, <1>2, <1>3, <1>5

\* kmalloc reuses a block: it was free, so nobody holds it, and it is large enough.
LEMMA ReuseKeeps == ASSUME HeapInv, NEW n \in Requests, Reuse(n) PROVE HeapInv'
<1> DEFINE i == Max(Fits(n))
           a == Payload(blocks[i])
<1>1. DOMAIN blocks = 1 .. Len(blocks) /\ Len(blocks) \in Nat /\ HeapTypeOK
  BY BlockFacts DEF HeapInv
<1>2. Fits(n) \in SUBSET (0 .. Len(blocks)) /\ Fits(n) # {}
  BY <1>1 DEF Fits, Reuse
<1>3. i \in Fits(n)
  BY <1>1, <1>2, MaxIsGreatest
<1>4. i \in DOMAIN blocks /\ blocks[i].free /\ blocks[i].size >= AlignUp(n)
  BY <1>3 DEF Fits
<1>5. n \in Nat \ {0} /\ n <= blocks[i].size
  BY <1>1, <1>4, SizesFit, BlockFacts DEF Reuse
<1>6. /\ blocks' = [blocks EXCEPT ![i].free = FALSE]
      /\ held' = [x \in DOMAIN held \cup {a} |-> IF x = a THEN n ELSE held[x]]
      /\ heap_ptr' = heap_ptr
  BY DEF Reuse, Taken, Hold
<1> HIDE DEF i
<1>7. /\ DOMAIN blocks' = DOMAIN blocks
      /\ blocks' \in Seq(Block)
      /\ \A j \in DOMAIN blocks : /\ blocks'[j].at = blocks[j].at
                                  /\ blocks'[j].size = blocks[j].size
                                  /\ Payload(blocks'[j]) = Payload(blocks[j])
                                  /\ End(blocks'[j]) = End(blocks[j])
                                  /\ j # i => blocks'[j].free = blocks[j].free
      /\ ~blocks'[i].free
  <2>1. blocks \in Seq(Block)
    BY <1>1 DEF HeapTypeOK, Block
  <2>2. [blocks[i] EXCEPT !.free = FALSE] \in Block
    BY <1>4, BlockFacts DEF Block
  <2>3. DOMAIN blocks' = DOMAIN blocks /\ blocks' \in Seq(Block)
        /\ blocks'[i] = [blocks[i] EXCEPT !.free = FALSE]
        /\ \A j \in DOMAIN blocks : j # i => blocks'[j] = blocks[j]
    BY <1>4, <1>6, <2>1, <2>2
  <2>4. /\ blocks'[i].at = blocks[i].at /\ blocks'[i].size = blocks[i].size
        /\ blocks'[i].free = FALSE
    BY <1>4, <2>3, BlockFacts DEF Block
  <2> QED BY <2>3, <2>4 DEF Payload, End
<1>8. HeapTypeOK'
  BY <1>1, <1>5, <1>6, <1>7 DEF HeapTypeOK, Block
<1>9. Layout'
  BY <1>6, <1>7 DEF HeapInv, Layout
<1>10. a \notin DOMAIN held
  BY <1>4 DEF HeapInv, UsedIsHeld
<1>11. HeldFits'
  <2>1. ASSUME NEW x \in DOMAIN held'
        PROVE  \E j \in DOMAIN blocks' : /\ x = Payload(blocks'[j]) /\ ~blocks'[j].free
                                         /\ held'[x] <= blocks'[j].size
    <3>1. CASE x = a
      BY <1>4, <1>5, <1>6, <1>7, <3>1
    <3>2. CASE x # a
      <4>1. x \in DOMAIN held /\ held'[x] = held[x]
        BY <1>6, <3>2
      <4>2. PICK j \in DOMAIN blocks : /\ x = Payload(blocks[j]) /\ ~blocks[j].free
                                       /\ held[x] <= blocks[j].size
        BY <4>1 DEF HeapInv, HeldFits
      <4>3. j # i
        BY <1>4, <4>2
      <4> QED BY <1>7, <4>1, <4>2, <4>3
    <3> QED BY <3>1, <3>2
  <2> QED BY <2>1 DEF HeldFits
<1>12. UsedIsHeld'
  <2>1. ASSUME NEW j \in DOMAIN blocks
        PROVE  ~blocks'[j].free <=> Payload(blocks'[j]) \in DOMAIN held'
    <3>1. DOMAIN held' = DOMAIN held \cup {a}
      BY <1>6
    <3>2. CASE j = i
      BY <1>4, <1>7, <3>1, <3>2
    <3>3. CASE j # i
      <4>1. Payload(blocks[j]) # a
        BY <1>4, <3>3, BlockFacts
      <4>2. ~blocks[j].free <=> Payload(blocks[j]) \in DOMAIN held
        BY DEF HeapInv, UsedIsHeld
      <4> QED BY <1>7, <3>1, <3>3, <4>1, <4>2
    <3> QED BY <3>2, <3>3
  <2> QED BY <1>7, <2>1 DEF UsedIsHeld
<1> QED BY <1>8, <1>9, <1>11, <1>12 DEF HeapInv

\* kmalloc cuts a new block behind all the others.
LEMMA GrowKeeps == ASSUME HeapInv, NEW n \in Requests, Grow(n) PROVE HeapInv'
<1> DEFINE b == [at |-> heap_ptr, size |-> AlignUp(n), free |-> FALSE]
           a == heap_ptr + HEADER
           m == Len(blocks)
<1>1. DOMAIN blocks = 1 .. m /\ m \in Nat /\ HeapTypeOK
      /\ heap_ptr \in Nat /\ HEADER \in Nat \ {0} /\ KHEAP_START \in Nat
  BY BlockFacts DEF HeapInv
<1>2. /\ n \in Nat \ {0} /\ AlignUp(n) \in Nat /\ n <= AlignUp(n)
      /\ (heap_ptr + Total(n)) % WORD = heap_ptr + HEADER + AlignUp(n)
  BY <1>1, SizesFit DEF Grow
<1>3. /\ blocks' = Append(blocks, b)
      /\ held' = [x \in DOMAIN held \cup {a} |-> IF x = a THEN n ELSE held[x]]
      /\ heap_ptr' = heap_ptr + HEADER + AlignUp(n)
      /\ heap_ptr' <= HeapEnd
  BY <1>2 DEF Grow, Hold, Room, Payload
<1>4. b \in Block /\ b.at = heap_ptr /\ b.size = AlignUp(n) /\ ~b.free
      /\ Payload(b) = a /\ End(b) = heap_ptr'
  BY <1>1, <1>2, <1>3 DEF Block, Payload, End
<1> HIDE DEF b
<1>5. /\ blocks' \in Seq(Block) /\ DOMAIN blocks' = 1 .. (m + 1) /\ blocks'[m + 1] = b
      /\ \A j \in DOMAIN blocks : blocks'[j] = blocks[j]
  BY <1>1, <1>3, <1>4 DEF HeapTypeOK, Block
<1>6. \A j \in DOMAIN blocks : /\ blocks[j].at >= KHEAP_START /\ End(blocks[j]) <= heap_ptr
                               /\ Payload(blocks[j]) < a
                               /\ End(blocks[j]) \in Nat /\ Payload(blocks[j]) \in Nat
  <2> SUFFICES ASSUME NEW j \in DOMAIN blocks
               PROVE  /\ blocks[j].at >= KHEAP_START /\ End(blocks[j]) <= heap_ptr
                      /\ Payload(blocks[j]) < a
                      /\ End(blocks[j]) \in Nat /\ Payload(blocks[j]) \in Nat
    OBVIOUS
  <2>1. blocks[j].at \in Nat /\ blocks[j].size \in Nat
    BY BlockFacts
  <2>2. blocks[j].at >= KHEAP_START /\ End(blocks[j]) <= heap_ptr
    BY DEF HeapInv, Layout
  <2> QED BY <1>1, <2>1, <2>2 DEF Payload, End
<1>7. HeapTypeOK'
  <2>1. heap_ptr' \in KHEAP_START .. HeapEnd
    BY <1>1, <1>2, <1>3, HeapAssumption DEF HeapTypeOK, HeapEnd
  <2>2. held' \in [DOMAIN held' -> Nat \ {0}]
    BY <1>1, <1>2, <1>3 DEF HeapTypeOK
  <2> QED BY <1>5, <2>1, <2>2 DEF HeapTypeOK, Block
<1>8. Layout'
  <2>1. ASSUME NEW j \in DOMAIN blocks'
        PROVE  blocks'[j].at >= KHEAP_START /\ End(blocks'[j]) <= heap_ptr'
    <3>1. CASE j \in DOMAIN blocks
      BY <1>1, <1>2, <1>3, <1>5, <1>6, <3>1
    <3>2. CASE j = m + 1
      BY <1>1, <1>3, <1>4, <1>5, <1>2, <3>2 DEF HeapTypeOK
    <3> QED BY <1>1, <1>5, <3>1, <3>2
  <2>2. ASSUME NEW j \in DOMAIN blocks', NEW k \in DOMAIN blocks', j < k
        PROVE  End(blocks'[j]) <= blocks'[k].at
    <3>1. j \in DOMAIN blocks
      BY <1>1, <1>5, <2>2
    <3>2. CASE k \in DOMAIN blocks
      BY <1>5, <2>2, <3>1, <3>2 DEF HeapInv, Layout
    <3>3. CASE k = m + 1
      BY <1>4, <1>5, <1>6, <3>1, <3>3
    <3> QED BY <1>1, <1>5, <3>2, <3>3
  <2> QED BY <2>1, <2>2 DEF Layout
<1>9. a \notin DOMAIN held
  BY <1>1, <1>6 DEF HeapInv, HeldFits
<1>10. DOMAIN held' = DOMAIN held \cup {a} /\ held'[a] = n
       /\ \A x \in DOMAIN held : held'[x] = held[x]
  BY <1>3, <1>9
<1>11. HeldFits'
  <2>1. ASSUME NEW x \in DOMAIN held'
        PROVE  \E j \in DOMAIN blocks' : /\ x = Payload(blocks'[j]) /\ ~blocks'[j].free
                                         /\ held'[x] <= blocks'[j].size
    <3>1. CASE x = a
      <4>1. m + 1 \in DOMAIN blocks'
        BY <1>1, <1>5
      <4> QED BY <1>2, <1>4, <1>5, <1>10, <3>1, <4>1
    <3>2. CASE x \in DOMAIN held
      <4>1. PICK j \in DOMAIN blocks : /\ x = Payload(blocks[j]) /\ ~blocks[j].free
                                       /\ held[x] <= blocks[j].size
        BY <3>2 DEF HeapInv, HeldFits
      <4>2. j \in DOMAIN blocks'
        BY <1>1, <1>5
      <4> QED BY <1>5, <1>10, <3>2, <4>1, <4>2
    <3> QED BY <1>10, <3>1, <3>2
  <2> QED BY <2>1 DEF HeldFits
<1>12. UsedIsHeld'
  <2>1. ASSUME NEW j \in DOMAIN blocks'
        PROVE  ~blocks'[j].free <=> Payload(blocks'[j]) \in DOMAIN held'
    <3>1. CASE j = m + 1
      BY <1>4, <1>5, <1>10, <3>1
    <3>2. CASE j \in DOMAIN blocks
      <4>1. Payload(blocks[j]) # a
        BY <1>1, <1>6, <3>2
      <4>2. ~blocks[j].free <=> Payload(blocks[j]) \in DOMAIN held
        BY <3>2 DEF HeapInv, UsedIsHeld
      <4> QED BY <1>5, <1>10, <3>2, <4>1, <4>2
    <3> QED BY <1>1, <1>5, <3>1, <3>2
  <2> QED BY <2>1 DEF UsedIsHeld
<1> QED BY <1>7, <1>8, <1>11, <1>12 DEF HeapInv

\* kfree marks the one block its caller holds there.
LEMMA FreeKeeps == ASSUME HeapInv, NEW a \in DOMAIN held, kfree(a) PROVE HeapInv'
<1>1. PICK i \in DOMAIN blocks : /\ Payload(blocks[i]) = a
                                 /\ blocks' = [blocks EXCEPT ![i].free = TRUE]
  BY DEF kfree
<1>2. /\ held' = [x \in DOMAIN held \ {a} |-> held[x]] /\ heap_ptr' = heap_ptr
      /\ HeapTypeOK /\ DOMAIN blocks = 1 .. Len(blocks)
  BY BlockFacts DEF kfree, HeapInv
<1>3. /\ DOMAIN blocks' = DOMAIN blocks
      /\ blocks' \in Seq(Block)
      /\ \A j \in DOMAIN blocks : /\ blocks'[j].at = blocks[j].at
                                  /\ blocks'[j].size = blocks[j].size
                                  /\ Payload(blocks'[j]) = Payload(blocks[j])
                                  /\ End(blocks'[j]) = End(blocks[j])
                                  /\ j # i => blocks'[j].free = blocks[j].free
      /\ blocks'[i].free
  <2>1. blocks \in Seq(Block)
    BY <1>2 DEF HeapTypeOK, Block
  <2>2. [blocks[i] EXCEPT !.free = TRUE] \in Block
    BY BlockFacts DEF Block
  <2>3. DOMAIN blocks' = DOMAIN blocks /\ blocks' \in Seq(Block)
        /\ blocks'[i] = [blocks[i] EXCEPT !.free = TRUE]
        /\ \A j \in DOMAIN blocks : j # i => blocks'[j] = blocks[j]
    BY <1>1, <2>1, <2>2
  <2>4. /\ blocks'[i].at = blocks[i].at /\ blocks'[i].size = blocks[i].size
        /\ blocks'[i].free = TRUE
    BY <2>3, BlockFacts DEF Block
  <2> QED BY <2>3, <2>4 DEF Payload, End
<1>4. HeapTypeOK'
  <2>1. held' \in [DOMAIN held' -> Nat \ {0}]
    BY <1>2 DEF HeapTypeOK
  <2> QED BY <1>2, <1>3, <2>1 DEF HeapTypeOK, Block
<1>5. Layout'
  BY <1>2, <1>3 DEF HeapInv, Layout
<1>6. \A j \in DOMAIN blocks : Payload(blocks[j]) = a => j = i
  BY <1>1, BlockFacts
<1>7. HeldFits'
  <2>1. ASSUME NEW x \in DOMAIN held'
        PROVE  \E j \in DOMAIN blocks' : /\ x = Payload(blocks'[j]) /\ ~blocks'[j].free
                                         /\ held'[x] <= blocks'[j].size
    <3>1. x \in DOMAIN held /\ x # a /\ held'[x] = held[x]
      BY <1>2
    <3>2. PICK j \in DOMAIN blocks : /\ x = Payload(blocks[j]) /\ ~blocks[j].free
                                     /\ held[x] <= blocks[j].size
      BY <3>1 DEF HeapInv, HeldFits
    <3>3. j # i
      BY <1>1, <3>1, <3>2
    <3> QED BY <1>3, <3>1, <3>2, <3>3
  <2> QED BY <2>1 DEF HeldFits
<1>8. UsedIsHeld'
  <2>1. ASSUME NEW j \in DOMAIN blocks
        PROVE  ~blocks'[j].free <=> Payload(blocks'[j]) \in DOMAIN held'
    <3>1. DOMAIN held' = DOMAIN held \ {a}
      BY <1>2
    <3>2. ~blocks[j].free <=> Payload(blocks[j]) \in DOMAIN held
      BY DEF HeapInv, UsedIsHeld
    <3> QED BY <1>1, <1>3, <1>6, <3>1, <3>2
  <2> QED BY <1>3, <2>1 DEF UsedIsHeld
<1> QED BY <1>4, <1>5, <1>7, <1>8 DEF HeapInv

\* Every step keeps the invariant.
LEMMA HeapNextKeeps == ASSUME HeapInv, [HeapNext]_heapVars PROVE HeapInv'
<1>1. CASE UNCHANGED heapVars
  <2>1. blocks' = blocks /\ heap_ptr' = heap_ptr /\ held' = held
    BY <1>1 DEF heapVars
  <2> QED BY <2>1 DEF HeapInv, HeapTypeOK, Layout, HeldFits, UsedIsHeld
<1>2. CASE \E n \in Requests : kmalloc(n)
  BY <1>1, <1>2, ReuseKeeps, GrowKeeps DEF kmalloc, Exhausted
<1>3. CASE \E a \in DOMAIN held : kfree(a)
  BY <1>3, FreeKeeps
<1> QED BY <1>1, <1>2, <1>3 DEF HeapNext

\* Blocks that lie one behind the other give extents that do not meet.
LEMMA HeldIsPrivate == ASSUME HeapInv PROVE HeldMemoryIsPrivate
<1>1. ASSUME NEW a \in DOMAIN held
      PROVE  \E i \in DOMAIN blocks :
                /\ a = blocks[i].at + HEADER /\ a \in Nat /\ held[a] \in Nat
                /\ a + held[a] <= End(blocks[i])
  <2>1. PICK i \in DOMAIN blocks : a = Payload(blocks[i]) /\ held[a] <= blocks[i].size
    BY DEF HeapInv, HeldFits
  <2>2. held[a] \in Nat
    BY DEF HeapInv, HeapTypeOK
  <2>3. blocks[i].at \in Nat /\ blocks[i].size \in Nat /\ HEADER \in Nat
    BY BlockFacts
  <2> QED BY <2>1, <2>2, <2>3 DEF Payload, End
<1>2. \A i \in DOMAIN blocks :
         /\ blocks[i].at \in Nat /\ blocks[i].size \in Nat /\ End(blocks[i]) \in Nat
         /\ blocks[i].at >= KHEAP_START /\ End(blocks[i]) <= heap_ptr
         /\ blocks[i].at + HEADER <= End(blocks[i])
  BY BlockFacts DEF HeapInv, Layout, End
<1>3. \A i, j \in DOMAIN blocks :
         i = j \/ End(blocks[i]) <= blocks[j].at \/ End(blocks[j]) <= blocks[i].at
  <2>1. \A i \in DOMAIN blocks : i \in Nat
    BY BlockFacts
  <2>2. \A i, j \in DOMAIN blocks : i < j => End(blocks[i]) <= blocks[j].at
    BY DEF HeapInv, Layout
  <2> QED BY <2>1, <2>2
<1>4. heap_ptr \in Nat /\ heap_ptr <= HeapEnd /\ HeapEnd \in Nat /\ HEADER \in Nat
      /\ KHEAP_START \in Nat
  BY HeapAssumption DEF HeapInv, HeapTypeOK, HeapEnd
<1> SUFFICES ASSUME NEW a \in DOMAIN held
             PROVE  /\ Extent(a) \subseteq KHEAP_START .. (HeapEnd - 1)
                    /\ \A b \in DOMAIN held \ {a} : Extent(a) \cap Extent(b) = {}
                    /\ \A k \in DOMAIN blocks :
                          Extent(a) \cap (blocks[k].at .. (blocks[k].at + HEADER - 1)) = {}
  BY DEF HeldMemoryIsPrivate
<1>5. PICK i \in DOMAIN blocks : /\ a = blocks[i].at + HEADER /\ a \in Nat /\ held[a] \in Nat
                                 /\ a + held[a] <= End(blocks[i])
  BY <1>1
<1>6. Extent(a) \subseteq KHEAP_START .. (HeapEnd - 1)
  <2>1. a >= KHEAP_START /\ a + held[a] <= HeapEnd
    BY <1>2, <1>4, <1>5
  <2> QED BY <1>4, <1>5, <2>1 DEF Extent
<1>7. ASSUME NEW b \in DOMAIN held \ {a} PROVE Extent(a) \cap Extent(b) = {}
  <2>1. PICK j \in DOMAIN blocks : /\ b = blocks[j].at + HEADER /\ b \in Nat /\ held[b] \in Nat
                                   /\ b + held[b] <= End(blocks[j])
    BY <1>1
  <2>2. i # j
    BY <1>5, <2>1
  <2>3. End(blocks[i]) <= blocks[j].at \/ End(blocks[j]) <= blocks[i].at
    BY <1>3, <2>2
  <2>4. a + held[a] <= b \/ b + held[b] <= a
    BY <1>2, <1>4, <1>5, <2>1, <2>3
  <2> QED BY <1>5, <2>1, <2>4 DEF Extent
<1>8. ASSUME NEW k \in DOMAIN blocks
      PROVE  Extent(a) \cap (blocks[k].at .. (blocks[k].at + HEADER - 1)) = {}
  <2>1. i = k \/ End(blocks[i]) <= blocks[k].at \/ End(blocks[k]) <= blocks[i].at
    BY <1>3
  <2>2. a + held[a] <= blocks[k].at \/ blocks[k].at + HEADER <= a
    BY <1>2, <1>4, <1>5, <2>1
  <2> QED BY <1>2, <1>4, <1>5, <2>2 DEF Extent
<1> QED BY <1>6, <1>7, <1>8

-----------------------------------------------------------------------------
(* Theorems *)

\* The blocks of the heap never overlap, and a block is in use exactly while held.
THEOREM HeapInvariant == HeapSpec => []HeapInv
<1>1. HeapInit => HeapInv
  <2> SUFFICES ASSUME HeapInit PROVE HeapInv
    OBVIOUS
  <2>1. DOMAIN blocks = {} /\ DOMAIN held = {} /\ blocks \in Seq(Block)
    BY DEF HeapInit
  <2>2. held \in [DOMAIN held -> Nat \ {0}]
    BY DEF HeapInit
  <2>3. heap_ptr \in KHEAP_START .. HeapEnd
    BY HeapAssumption DEF HeapInit, HeapEnd
  <2> QED BY <2>1, <2>2, <2>3
          DEF HeapInv, HeapTypeOK, Layout, HeldFits, UsedIsHeld, Block
<1>2. HeapInv /\ [HeapNext]_heapVars => HeapInv'
  BY HeapNextKeeps
<1> QED BY <1>1, <1>2, PTL DEF HeapSpec

\* heap_ptr never passes the end of the heap.
THEOREM HeapTypeCorrect == HeapSpec => []HeapTypeOK
<1>1. HeapInv => HeapTypeOK
  BY DEF HeapInv
<1> QED BY <1>1, HeapInvariant, PTL

\* kmalloc gives no byte to two holders and none of a header, whatever was freed and
\* given out again before.
THEOREM HeldStaysPrivate == HeapSpec => []HeldMemoryIsPrivate
<1>1. HeapInv => HeldMemoryIsPrivate
  BY HeldIsPrivate
<1> QED BY <1>1, HeapInvariant, PTL

\* The free flag of a block tells whether somebody holds it.
THEOREM UsedFlagExact == HeapSpec => []UsedIsHeld
<1>1. HeapInv => UsedIsHeld
  BY DEF HeapInv
<1> QED BY <1>1, HeapInvariant, PTL
=============================================================================
