------------------------------- MODULE KHeap -------------------------------
(***************************************************************************)
(* The kernel heap (kmalloc and kfree of kernel/mm/vmm.c): blocks are cut   *)
(* from the end of what is in use, kept for ever at the size they were cut  *)
(* with, and given out again first fit, the youngest block first.           *)
(*                                                                         *)
(* blocks lists them in the order of their addresses, which is the order    *)
(* of their creation; heap_head is its last element and ->next the element  *)
(* before.  Callers free only what they hold, once.                        *)
(***************************************************************************)
EXTENDS Integers, Sequences, FiniteSetsExt

CONSTANTS KHEAP_START, KHEAP_SIZE,  \* 0x400000 and 4 MB
          HEADER,                   \* sizeof(heap_block_t): 24 bytes
          ALIGN,                    \* sizes are rounded up to it: 16
          WORD,                     \* 2^(width of size_t and uint64_t)
          Requests                  \* the sizes kmalloc is called with

ASSUME HeapAssumption == /\ KHEAP_START \in Nat \ {0}
                         /\ KHEAP_SIZE \in Nat
                         /\ HEADER \in Nat \ {0}
                         /\ ALIGN \in Nat \ {0}
                         /\ WORD \in Nat /\ KHEAP_START + KHEAP_SIZE < WORD
                         /\ Requests \subseteq 0 .. (WORD - 1)

\* kmalloc tests none of its sums for overflow: its only caller asks for KSTACK_SIZE
\* (proc.c:140), far below the sizes at which they wrap.
ASSUME RequestAssumption ==
    \A n \in Requests : KHEAP_START + KHEAP_SIZE + HEADER + n + ALIGN <= WORD

VARIABLES blocks,    \* headers: [at, size, free], by address
          heap_ptr,  \* first address not used yet
          held       \* history: bytes asked for by the holder of a block, by payload address

heapVars == <<blocks, heap_ptr, held>>

HeapEnd == KHEAP_START + KHEAP_SIZE

\* ALIGN_UP(size, 16)
AlignUp(n) == (((n + ALIGN - 1) % WORD) \div ALIGN) * ALIGN

\* sizeof(heap_block_t) + size
Total(n) == (HEADER + AlignUp(n)) % WORD

\* (void*)(blk + 1)
Payload(b) == b.at + HEADER

HeapInit == blocks = <<>> /\ heap_ptr = KHEAP_START /\ held = <<>>

\* Mutant: the size of a free block is not looked at.
AnyFree(n) == {i \in DOMAIN blocks : blocks[i].free}

\* Blocks the search may return; it takes the first from the head, the youngest.
Fits(n) == {i \in DOMAIN blocks : blocks[i].free /\ blocks[i].size >= AlignUp(n)}

Hold(a, n) == held' = [x \in DOMAIN held \cup {a} |-> IF x = a THEN n ELSE held[x]]

\* Mutant: the block is handed out again but stays marked free.
TakenUnmarked(i) == blocks
Taken(i) == [blocks EXCEPT ![i].free = FALSE]

\* kmalloc finds a free block: first fit, and the block is not split.
Reuse(n) ==
    /\ n # 0 /\ Fits(n) # {}
    /\ LET i == Max(Fits(n))
       IN  /\ blocks' = Taken(i)
           /\ Hold(Payload(blocks[i]), n)
    /\ UNCHANGED heap_ptr

\* Mutant: the header is left out of the test for the end of the heap.
RoomForPayload(n) == (heap_ptr + AlignUp(n)) % WORD <= HeapEnd

Room(n) == (heap_ptr + Total(n)) % WORD <= HeapEnd

\* kmalloc cuts a new block.
Grow(n) ==
    /\ n # 0 /\ Fits(n) = {}
    /\ Room(n)
    /\ LET b == [at |-> heap_ptr, size |-> AlignUp(n), free |-> FALSE]
       IN  /\ blocks' = Append(blocks, b)
           /\ Hold(Payload(b), n)
    /\ heap_ptr' = (heap_ptr + Total(n)) % WORD

\* kmalloc returns NULL: a request of 0 bytes, or no block and no room.
Exhausted(n) ==
    /\ n = 0 \/ (Fits(n) = {} /\ ~Room(n))
    /\ UNCHANGED heapVars

kmalloc(n) == Reuse(n) \/ Grow(n) \/ Exhausted(n)

\* kfree: the header before the pointer is marked free, nothing is merged.
kfree(a) ==
    /\ \E i \in DOMAIN blocks :
          /\ Payload(blocks[i]) = a
          /\ blocks' = [blocks EXCEPT ![i].free = TRUE]
    /\ held' = [x \in DOMAIN held \ {a} |-> held[x]]
    /\ UNCHANGED heap_ptr

HeapNext == \/ \E n \in Requests : kmalloc(n)
            \/ \E a \in DOMAIN held : kfree(a)

HeapSpec == HeapInit /\ [][HeapNext]_heapVars

-----------------------------------------------------------------------------
\* Every variable holds a value the code can give it.
HeapTypeOK ==
    /\ blocks \in Seq([at : Nat, size : Nat, free : BOOLEAN])
    /\ heap_ptr \in KHEAP_START .. HeapEnd
    /\ held \in [DOMAIN held -> Nat \ {0}]

\* The bytes a holder may write.
Extent(a) == a .. (a + held[a] - 1)

\* What two callers hold never overlaps, lies inside the heap, and never covers
\* the header of any block, through any mix of requests, frees and reuse of a
\* block by a request of another size.
HeldMemoryIsPrivate ==
    \A a \in DOMAIN held :
        /\ Extent(a) \subseteq KHEAP_START .. (HeapEnd - 1)
        /\ \A b \in DOMAIN held \ {a} : Extent(a) \cap Extent(b) = {}
        /\ \A i \in DOMAIN blocks :
              Extent(a) \cap (blocks[i].at .. (blocks[i].at + HEADER - 1)) = {}

\* A block is marked used exactly while somebody holds it: no held block is given
\* to a second caller, and none is lost.
UsedIsHeld ==
    \A i \in DOMAIN blocks : ~blocks[i].free <=> Payload(blocks[i]) \in DOMAIN held
=============================================================================
