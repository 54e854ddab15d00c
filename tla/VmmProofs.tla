----------------------------- MODULE VmmProofs -----------------------------
(***************************************************************************)
(* Proofs about the page tables and the loader on top of them, for every     *)
(* size of the tables, the pool and the memory.  The type invariant holds    *)
(* whatever the frames and the program hold; that no frame is handed out     *)
(* twice and that the tables implement flat address spaces is proved for     *)
(* the arrangement of Loader, wherever the frames lie, until the pool of      *)
(* static tables is used up.                                                *)
(***************************************************************************)
EXTENDS Loader, SearchLemmas

\* What vmm_map works on is a record whose parts have their types, also in the middle
\* of a call.
VmType(s) ==
    /\ s = [mem |-> s.mem, pool |-> s.pool, used |-> s.used, last |-> s.last,
            got |-> s.got, panic |-> s.panic]
    /\ s.mem \in [TablePage -> [Index -> EntryValue]]
    /\ s.pool \in 0 .. POOL
    /\ s.used \subseteq Frame /\ s.last \in Frame

\* The inductive invariant.
VmmInv == VmType(vm) /\ VmmTypeOK /\ va \in Nat

\* A record of this form, built and taken apart.
VmRec(m, p, u, l, g, x) ==
    [mem |-> m, pool |-> p, used |-> u, last |-> l, got |-> g, panic |-> x]

LEMMA VmBuilt ==
    ASSUME NEW m \in [TablePage -> [Index -> EntryValue]], NEW p \in 0 .. POOL,
           NEW u \in SUBSET Frame, NEW l \in Frame, NEW g, NEW x
    PROVE  VmType(VmRec(m, p, u, l, g, x))
BY DEF VmType, VmRec

LEMMA VmParts ==
    ASSUME NEW s, VmType(s)
    PROVE  \E m \in [TablePage -> [Index -> EntryValue]], p \in 0 .. POOL,
              u \in SUBSET Frame, l \in Frame : \E g, x : s = VmRec(m, p, u, l, g, x)
BY DEF VmType, VmRec

LEMMA VmMarked ==
    ASSUME NEW s, VmType(s), NEW b
    PROVE  VmType([s EXCEPT !.panic = b])
<1>parts. PICK m \in [TablePage -> [Index -> EntryValue]], p \in 0 .. POOL,
               u \in SUBSET Frame, l \in Frame : \E g, x : s = VmRec(m, p, u, l, g, x)
  BY VmParts
<1>1. PICK g, x : s = VmRec(m, p, u, l, g, x)
  BY <1>parts
<1>2. [s EXCEPT !.panic = b] = VmRec(m, p, u, l, g, b)
  BY <1>1 DEF VmRec
<1> QED BY <1>2, VmBuilt

LEMMA VmmConstants ==
    /\ BASE \in Nat /\ TOTAL \in Nat \ {0} /\ POOL \in Nat
    /\ BASE \in Frame /\ Frame \subseteq Nat
    /\ Frame \subseteq EntryValue /\ TablePage \subseteq EntryValue /\ Frame \subseteq TablePage
    /\ PML4 \in TablePage /\ None \in EntryValue /\ 0 \in EntryValue
    /\ \A k \in 0 .. (POOL - 1) : PoolTable(k) \in TablePage
<1>1. /\ BASE \in Nat /\ TOTAL \in Nat \ {0} /\ POOL \in Nat
  BY VmmAssumption
<1> QED BY <1>1 DEF Frame, EntryValue, TablePage, Image

\* A frame of the page allocator, or panic.
LEMMA pmm_allocType ==
    ASSUME NEW s, VmType(s)
    PROVE  /\ VmType(pmm_alloc(s))
           /\ ~pmm_alloc(s).panic => pmm_alloc(s).got \in Frame
<1> DEFINE free == Frame \ s.used
           ahead == {f \in free : f >= s.last}
           f == IF ahead # {} THEN Min(ahead) ELSE Min(free)
           a == [s EXCEPT !.used = @ \cup {f}, !.got = f,
                          !.last = IF f + 1 \in Frame THEN f + 1 ELSE BASE]
<1>1. CASE free = {}
  <2>1. pmm_alloc(s) = [s EXCEPT !.panic = TRUE]
    BY <1>1 DEF pmm_alloc
  <2> QED BY <2>1 DEF VmType
<1>2. CASE free # {}
  <2>1. f \in Frame
    <3>1. free \in SUBSET Nat /\ ahead \in SUBSET Nat
      BY VmmConstants
    <3> HIDE DEF free
    <3>2. Min(free) \in free
      BY <1>2, <3>1, MinIsLeast
    <3>3. ahead # {} => Min(ahead) \in ahead
      <4> HIDE DEF ahead
      <4> QED BY <3>1, MinIsLeast
    <3> QED BY <3>2, <3>3 DEF free
  <2>2. pmm_alloc(s) = a
    BY <1>2 DEF pmm_alloc
  <2> HIDE DEF f
  <2>parts. PICK m \in [TablePage -> [Index -> EntryValue]], p \in 0 .. POOL,
                 u \in SUBSET Frame, l \in Frame : \E g, x : s = VmRec(m, p, u, l, g, x)
    BY VmParts
  <2>3. PICK g, x : s = VmRec(m, p, u, l, g, x)
    BY <2>parts
  <2>4. PICK n \in Frame : n = IF f + 1 \in Frame THEN f + 1 ELSE BASE
    BY VmmConstants
  <2>5. a = VmRec(m, p, u \cup {f}, n, f, x)
    <3>1. a = [s EXCEPT !.used = @ \cup {f}, !.got = f, !.last = n]
      BY <2>4
    <3> HIDE DEF a
    <3> QED BY <2>3, <3>1 DEF VmRec
  <2>6. u \cup {f} \in SUBSET Frame
    BY <2>1
  <2>7. VmType(VmRec(m, p, u \cup {f}, n, f, x))
    BY <2>6, VmBuilt
  <2>8. pmm_alloc(s).got = f
    BY <2>2, <2>5 DEF VmRec
  <2> QED BY <2>1, <2>2, <2>5, <2>7, <2>8
<1> QED BY <1>1, <1>2

LEMMA alloc_tableType ==
    ASSUME NEW s, VmType(s)
    PROVE  /\ VmType(alloc_table(s))
           /\ ~alloc_table(s).panic => alloc_table(s).got \in TablePage
<1>1. CASE s.pool < POOL
  <2>1. PICK t \in TablePage : t = PoolTable(s.pool)
    <3>1. s.pool \in 0 .. (POOL - 1)
      BY <1>1, VmmConstants DEF VmType
    <3> QED BY <3>1, VmmConstants
  <2>2. alloc_table(s) = [s EXCEPT !.pool = @ + 1, !.got = t, !.mem[t] = Empty]
    BY <1>1, <2>1 DEF alloc_table
  <2>3. Empty \in [Index -> EntryValue]
    BY VmmConstants DEF Empty
  <2>4. s.pool + 1 \in 0 .. POOL
    BY <1>1, VmmConstants DEF VmType
  <2>parts. PICK m \in [TablePage -> [Index -> EntryValue]], p \in 0 .. POOL,
                 u \in SUBSET Frame, l \in Frame : \E g, x : s = VmRec(m, p, u, l, g, x)
    BY VmParts
  <2>5. PICK g, x : s = VmRec(m, p, u, l, g, x)
    BY <2>parts
  <2>6. alloc_table(s) = VmRec([m EXCEPT ![t] = Empty], p + 1, u, l, t, x) /\ p = s.pool
    BY <2>2, <2>5 DEF VmRec
  <2>7. [m EXCEPT ![t] = Empty] \in [TablePage -> [Index -> EntryValue]] /\ p + 1 \in 0 .. POOL
    BY <2>3, <2>4, <2>6
  <2>8. VmType(alloc_table(s))
    <3>1. PICK m2 \in [TablePage -> [Index -> EntryValue]], p2 \in 0 .. POOL :
            m2 = [m EXCEPT ![t] = Empty] /\ p2 = p + 1
      BY <2>7
    <3>2. alloc_table(s) = VmRec(m2, p2, u, l, t, x)
      BY <2>6, <3>1
    <3> QED BY <3>2, VmBuilt
  <2> QED BY <2>6, <2>8 DEF VmRec
<1>2. CASE ~(s.pool < POOL)
  BY <1>2, pmm_allocType, VmmConstants DEF alloc_table
<1> QED BY <1>1, <1>2

\* Wherever the pointer leads, a store puts an entry into a table or misses them all.
LEMMA StoreType ==
    ASSUME NEW s, VmType(s), NEW t, NEW i, NEW e \in EntryValue
    PROVE  VmType(Store(s, t, i, e))
<1>1. CASE At(s, t) = None
  BY <1>1 DEF Store, VmType
<1>2. CASE At(s, t) # None
  <2>1. PICK x : x = At(s, t)
    OBVIOUS
  <2>2. Store(s, t, i, e) = [s EXCEPT !.mem[x][i] = e]
    BY <1>2, <2>1 DEF Store
  <2>parts. PICK m \in [TablePage -> [Index -> EntryValue]], p \in 0 .. POOL,
                 u \in SUBSET Frame, l \in Frame : \E g, y : s = VmRec(m, p, u, l, g, y)
    BY VmParts
  <2>3. PICK g, y : s = VmRec(m, p, u, l, g, y)
    BY <2>parts
  <2>4. Store(s, t, i, e) = VmRec([m EXCEPT ![x][i] = e], p, u, l, g, y)
    BY <2>2, <2>3 DEF VmRec
  <2>5. [m EXCEPT ![x][i] = e] \in [TablePage -> [Index -> EntryValue]]
    OBVIOUS
  <2>6. PICK m2 \in [TablePage -> [Index -> EntryValue]] : m2 = [m EXCEPT ![x][i] = e]
    BY <2>5
  <2>7. Store(s, t, i, e) = VmRec(m2, p, u, l, g, y)
    BY <2>4, <2>6
  <2> QED BY <2>7, VmBuilt
<1> QED BY <1>1, <1>2

LEMMA DescendType ==
    ASSUME NEW s, VmType(s), NEW t, NEW v, NEW level
    PROVE  VmType(Descend(s, t, v, level))
<1> DEFINE a == alloc_table(s)
           e == Entry(s.mem, At(s, t), v, level)
<1>1. CASE s.panic \/ At(s, t) = None
  <2>1. Descend(s, t, v, level) = [s EXCEPT !.panic = TRUE]
    BY <1>1 DEF Descend
  <2> QED BY <2>1 DEF VmType
<1>2. CASE ~(s.panic \/ At(s, t) = None)
  <2>1. Descend(s, t, v, level) = IF e # None THEN [s EXCEPT !.got = e]
                                  ELSE IF a.panic THEN a
                                  ELSE Store(a, t, Idx(v, level), a.got)
    BY <1>2 DEF Descend
  <2>2. VmType(a) /\ (~a.panic => a.got \in EntryValue)
    BY alloc_tableType, VmmConstants
  <2>3. VmType([s EXCEPT !.got = e])
    <3> HIDE DEF e
    <3> QED BY DEF VmType
  <2>4. ~a.panic => VmType(Store(a, t, Idx(v, level), a.got))
    <3> HIDE DEF a
    <3> QED BY <2>2, StoreType
  <2> HIDE DEF a, e
  <2> QED BY <2>1, <2>2, <2>3, <2>4
<1> QED BY <1>1, <1>2

LEMMA vmm_mapType ==
    ASSUME NEW s, VmType(s), NEW d, NEW v, NEW p \in EntryValue
    PROVE  VmType(vmm_map(s, d, v, p))
<1> DEFINE pdp == Descend(s, d, v, 4)
           pd == Descend(pdp, pdp.got, v, 3)
           pt == Descend(pd, pd.got, v, 2)
<1>1. VmType(pdp)
  BY DescendType
<1> HIDE DEF pdp
<1>2. VmType(pd)
  BY <1>1, DescendType
<1> HIDE DEF pd
<1>3. VmType(pt)
  BY <1>2, DescendType
<1> HIDE DEF pt
<1>4. VmType(Store(pt, pt.got, Idx(v, 1), p))
  BY <1>3, StoreType
<1> QED BY <1>3, <1>4 DEF vmm_map, pdp, pd, pt

LEMMA vmm_unmapType ==
    ASSUME NEW s, VmType(s), NEW d, NEW v
    PROVE  VmType(vmm_unmap(s, d, v))
<1> DEFINE pdp == Peek(s, d, v, 4)
           pd == Peek(s, pdp, v, 3)
           pt == Peek(s, pd, v, 2)
           r == Store(s, pt, Idx(v, 1), None)
<1>1. VmType(r)
  <2> HIDE DEF pt
  <2> QED BY StoreType, VmmConstants
<1>2. VmType([s EXCEPT !.panic = TRUE])
  BY VmMarked
<1>3. vmm_unmap(s, d, v) = IF \E t \in {d, pdp, pd} : Faults(s, t) THEN [s EXCEPT !.panic = TRUE]
                           ELSE IF pt = None THEN s ELSE r
  BY DEF vmm_unmap
<1>4. \/ vmm_unmap(s, d, v) = [s EXCEPT !.panic = TRUE]
      \/ vmm_unmap(s, d, v) = s \/ vmm_unmap(s, d, v) = r
  <2> HIDE DEF pdp, pd, pt, r
  <2> QED BY <1>3
<1> HIDE DEF pdp, pd, pt, r
<1> QED BY <1>1, <1>2, <1>4

\* What a call leaves behind keeps the invariant.
LEMMA BecomesKeeps ==
    ASSUME VmmInv, NEW s, VmType(s), Becomes(s), dirs' \subseteq TablePage, va' \in Nat
    PROVE  VmmInv'
<1>1. VmType([s EXCEPT !.got = None])
  BY DEF VmType
<1>2. VmType(vm)'
  BY <1>1 DEF Becomes, VmType
<1>3. phase' \in {"identity", "heap", "run", "panic"}
  BY DEF Becomes, VmmInv, VmmTypeOK
<1> QED BY <1>2, <1>3 DEF VmmInv, VmmTypeOK, VmType

LEMMA VmmInvInit == VmmInit => VmmInv
<1> SUFFICES ASSUME VmmInit PROVE VmmInv
  OBVIOUS
<1>1. PICK ram \in Ram : vm = VmInit(ram)
  BY DEF VmmInit
<1>2. ram \in [Index -> EntryValue]
  BY ContentAssumption
<1>3. BootTables(ram) \in [TablePage -> [Index -> EntryValue]]
  <2>1. Empty \in [Index -> EntryValue]
    BY VmmConstants DEF Empty
  <2>2. PDP \in EntryValue /\ PD \in EntryValue /\ PT \in EntryValue
    BY DEF EntryValue, Image
  <2>3. \A i \in Index : i \in EntryValue
    BY VmmAssumption DEF Index, EntryValue
  <2>4. [i \in Index |-> i] \in [Index -> EntryValue]
    BY <2>3
  <2>5. \A e \in EntryValue : [Empty EXCEPT ![0] = e] \in [Index -> EntryValue]
    BY <2>1
  <2> DEFINE g(t) == CASE t = PML4 -> [Empty EXCEPT ![0] = PDP]
                       [] t = PDP -> [Empty EXCEPT ![0] = PD]
                       [] t = PD -> [Empty EXCEPT ![0] = PT]
                       [] t = PT -> [i \in Index |-> i]
                       [] t \in Frame -> ram
                       [] OTHER -> Empty
  <2>6. \A t \in TablePage : g(t) \in [Index -> EntryValue]
    <3> SUFFICES ASSUME NEW t \in TablePage PROVE g(t) \in [Index -> EntryValue]
      OBVIOUS
    <3>1. \/ g(t) = [Empty EXCEPT ![0] = PDP] \/ g(t) = [Empty EXCEPT ![0] = PD]
          \/ g(t) = [Empty EXCEPT ![0] = PT] \/ g(t) = [i \in Index |-> i]
          \/ g(t) = ram \/ g(t) = Empty
      BY DEF PML4, PDP, PD, PT
    <3> HIDE DEF g
    <3> QED BY <1>2, <2>1, <2>2, <2>4, <2>5, <3>1
  <2> QED BY <2>6 DEF BootTables
<1>4. VmType(vm)
  BY <1>1, <1>3, VmmConstants DEF VmInit, VmType
<1> QED BY <1>4, VmmConstants DEF VmmInit, VmmInv, VmmTypeOK, VmType

LEMMA vmm_initKeeps == VmmInv /\ vmm_init => VmmInv'
<1> SUFFICES ASSUME VmmInv, vmm_init PROVE VmmInv'
  OBVIOUS
<1>1. VmType(vm) /\ dirs \subseteq TablePage /\ va \in Nat /\ va + 1 \in Nat
  BY DEF VmmInv, VmmTypeOK
<1>2. CASE MapIdentity
  <2>1. va \in EntryValue
    BY <1>2, VmmConstants DEF MapIdentity, BeforeEnd, VmmInv, EntryValue
  <2> QED BY <1>1, <1>2, <2>1, vmm_mapType, BecomesKeeps DEF MapIdentity
<1>3. CASE StartHeap
  BY <1>3, VmmAssumption DEF StartHeap, VmmInv, VmmTypeOK, VmType
<1>4. CASE MapHeap
  <2> DEFINE a == pmm_alloc(vm)
             s == IF a.panic THEN a ELSE vmm_map(a, PML4, va, a.got)
  <2>1. VmType(a) /\ (~a.panic => a.got \in EntryValue)
    BY <1>1, pmm_allocType, VmmConstants
  <2>2. Becomes(s) /\ dirs' = dirs /\ va' = va + 1
    BY <1>4 DEF MapHeap
  <2> HIDE DEF a
  <2>3. VmType(s)
    BY <2>1, vmm_mapType
  <2> HIDE DEF s
  <2> QED BY <1>1, <2>2, <2>3, BecomesKeeps
<1>5. CASE InitDone
  BY <1>5 DEF InitDone, VmmInv, VmmTypeOK, VmType
<1> QED BY <1>2, <1>3, <1>4, <1>5 DEF vmm_init

LEMMA vmm_new_pagedirKeeps == VmmInv /\ vmm_new_pagedir => VmmInv'
<1> SUFFICES ASSUME VmmInv, vmm_new_pagedir PROVE VmmInv'
  OBVIOUS
<1> DEFINE a == alloc_table(vm)
           t == At(a, a.got)
           copy == [a EXCEPT !.mem[t] = [i \in Index |->
                               IF i \in Copied THEN a.mem[PML4][i] ELSE @[i]]]
<1>1. /\ VmType(vm) /\ dirs \subseteq TablePage /\ va \in Nat
      /\ VmType(a) /\ (~a.panic => a.got \in TablePage)
  BY alloc_tableType DEF VmmInv, VmmTypeOK
<1>2. /\ va' = va
      /\ \/ Becomes([a EXCEPT !.panic = TRUE]) /\ dirs' = dirs
         \/ ~a.panic /\ Becomes(copy) /\ dirs' = dirs \cup {a.got}
  BY DEF vmm_new_pagedir
<1> HIDE DEF a
<1>3. VmType([a EXCEPT !.panic = TRUE])
  BY <1>1, VmMarked
<1>4. VmType(copy)
  <2>1. PICK y : y = t
    OBVIOUS
  <2>parts. PICK m \in [TablePage -> [Index -> EntryValue]], p \in 0 .. POOL,
                 u \in SUBSET Frame, l \in Frame : \E g, x : a = VmRec(m, p, u, l, g, x)
    BY <1>1, VmParts
  <2>2. PICK g, x : a = VmRec(m, p, u, l, g, x)
    BY <2>parts
  <2> DEFINE c == [i \in Index |-> IF i \in Copied THEN m[PML4][i] ELSE m[y][i]]
  <2>3. copy = VmRec([m EXCEPT ![y] = c], p, u, l, g, x)
    <3>1. a.mem = m
      BY <2>2 DEF VmRec
    <3>2. copy = [a EXCEPT !.mem = [m EXCEPT ![y] = c]]
      BY <2>1, <3>1
    <3> HIDE DEF c, copy
    <3> QED BY <2>2, <3>2 DEF VmRec
  <2>4. y \in TablePage => c \in [Index -> EntryValue]
    BY VmmConstants
  <2> HIDE DEF c
  <2>5. [m EXCEPT ![y] = c] \in [TablePage -> [Index -> EntryValue]]
    BY <2>4
  <2>6. PICK m2 \in [TablePage -> [Index -> EntryValue]] : m2 = [m EXCEPT ![y] = c]
    BY <2>5
  <2>7. copy = VmRec(m2, p, u, l, g, x)
    BY <2>3, <2>6
  <2> HIDE DEF copy
  <2> QED BY <2>7, VmBuilt
<1> HIDE DEF copy
<1> QED BY <1>1, <1>2, <1>3, <1>4, BecomesKeeps

LEMMA ClientKeeps == VmmInv /\ Client => VmmInv'
<1> SUFFICES ASSUME VmmInv, Client PROVE VmmInv'
  OBVIOUS
<1>1. VmType(vm) /\ dirs \subseteq TablePage /\ va \in Nat
  BY DEF VmmInv, VmmTypeOK
<1>2. CASE vmm_new_pagedir
  BY <1>2, vmm_new_pagedirKeeps
<1>3. ASSUME NEW d \in dirs, vmm_free_pagedir(d) PROVE VmmInv'
  <2>1. PICK freed : Becomes([vm EXCEPT !.panic = TRUE]) \/ Becomes([vm EXCEPT !.used = @ \ freed])
    BY <1>3 DEF vmm_free_pagedir
  <2>2. VmType([vm EXCEPT !.panic = TRUE])
    BY <1>1, VmMarked
  <2>3. VmType([vm EXCEPT !.used = @ \ freed])
    <3>parts. PICK m \in [TablePage -> [Index -> EntryValue]], p \in 0 .. POOL,
                   u \in SUBSET Frame, l \in Frame : \E g, x : vm = VmRec(m, p, u, l, g, x)
      BY <1>1, VmParts
    <3>1. PICK g, x : vm = VmRec(m, p, u, l, g, x)
      BY <3>parts
    <3>2. [vm EXCEPT !.used = @ \ freed] = VmRec(m, p, u \ freed, l, g, x)
      BY <3>1 DEF VmRec
    <3> QED BY <3>2, VmBuilt
  <2>4. dirs' \subseteq TablePage /\ va' = va
    BY <1>1, <1>3 DEF vmm_free_pagedir
  <2> QED BY <1>1, <2>1, <2>2, <2>3, <2>4, BecomesKeeps
<1>4. ASSUME NEW d \in dirs, NEW v \in Virt, UnmapPage(d, v) PROVE VmmInv'
  BY <1>1, <1>4, vmm_unmapType, BecomesKeeps DEF UnmapPage
<1>5. ASSUME NEW d \in dirs, NEW v \in Virt, NEW p \in Target, MapPage(d, v, p) PROVE VmmInv'
  <2>1. p \in EntryValue
    BY ContentAssumption DEF EntryValue
  <2> QED BY <1>1, <1>5, <2>1, vmm_mapType, BecomesKeeps DEF MapPage
<1> QED BY <1>2, <1>3, <1>4, <1>5 DEF Client

LEMMA VmmStutters == VmmInv /\ UNCHANGED vmmVars => VmmInv'
BY DEF VmmInv, VmmTypeOK, VmType, vmmVars

\* Whatever vmm_map, vmm_unmap and the directories' operations are called with, and
\* wherever the pointers to tables lead, no entry leads out of memory, the pool and the
\* bitmap stay within their bounds, and directories are tables.
THEOREM VmmTypeCorrect == VmmSpec => []VmmTypeOK
<1>1. VmmInv /\ [VmmNext]_vmmVars => VmmInv'
  BY vmm_initKeeps, ClientKeeps, VmmStutters DEF VmmNext
<1>2. VmmInv => VmmTypeOK
  BY DEF VmmInv
<1> QED BY <1>1, <1>2, VmmInvInit, PTL DEF VmmSpec

-----------------------------------------------------------------------------
(* The loader *)

LEMMA LoaderKeeps == VmmInv /\ [LoaderNext]_loaderVars => VmmInv'
<1> SUFFICES ASSUME VmmInv, [LoaderNext]_loaderVars PROVE VmmInv'
  OBVIOUS
<1>1. VmType(vm) /\ dirs \subseteq TablePage /\ va \in Nat
  BY DEF VmmInv, VmmTypeOK
<1>2. CASE load_page
  <2> DEFINE a == pmm_alloc(vm)
  <2>1. PICK d : d = PageOf(Segment, page)
    OBVIOUS
  <2>2. /\ UNCHANGED <<va, dirs>>
        /\ \/ UNCHANGED <<vm, phase>>
           \/ \E flags \in Garbage : Becomes(vmm_map(a, d, a.got, flags))
    BY <1>2, <2>1 DEF load_page
  <2>3. ASSUME NEW flags \in Garbage PROVE VmType(vmm_map(a, d, a.got, flags))
    <3>1. VmType(a)
      BY <1>1, pmm_allocType
    <3>2. flags \in EntryValue
      BY LoaderAssumption DEF EntryValue
    <3> HIDE DEF a
    <3> QED BY <3>1, <3>2, vmm_mapType
  <2>4. CASE UNCHANGED <<vm, phase>>
    BY <2>2, <2>4 DEF VmmInv, VmmTypeOK, VmType
  <2> HIDE DEF a
  <2> QED BY <1>1, <2>2, <2>3, <2>4, BecomesKeeps
<1>3. CASE copy_segment
  <2>1. PICK dst, b : Becomes([vm EXCEPT !.mem = [t \in DOMAIN @ |-> IF t \in dst THEN Text ELSE @[t]],
                                        !.panic = b])
    BY <1>3 DEF copy_segment
  <2>2. UNCHANGED <<va, dirs>>
    BY <1>3 DEF copy_segment
  <2>3. VmType([vm EXCEPT !.mem = [t \in DOMAIN @ |-> IF t \in dst THEN Text ELSE @[t]], !.panic = b])
    <3>parts. PICK m \in [TablePage -> [Index -> EntryValue]], p \in 0 .. POOL,
                   u \in SUBSET Frame, l \in Frame : \E g, x : vm = VmRec(m, p, u, l, g, x)
      BY <1>1, VmParts
    <3>1. PICK g, x : vm = VmRec(m, p, u, l, g, x)
      BY <3>parts
    <3> DEFINE c == [t \in TablePage |-> IF t \in dst THEN Text ELSE m[t]]
    <3>2. [vm EXCEPT !.mem = [t \in DOMAIN @ |-> IF t \in dst THEN Text ELSE @[t]], !.panic = b]
            = VmRec(c, p, u, l, g, b)
      <4>1. vm.mem = m
        BY <3>1 DEF VmRec
      <4>2. PICK r : r = [vm EXCEPT !.mem = [t \in DOMAIN @ |-> IF t \in dst THEN Text ELSE @[t]],
                                    !.panic = b]
        OBVIOUS
      <4>3. r = [vm EXCEPT !.mem = c, !.panic = b]
        BY <4>1, <4>2
      <4> HIDE DEF c
      <4>4. r = VmRec(c, p, u, l, g, b)
        BY <3>1, <4>3 DEF VmRec
      <4> QED BY <4>2, <4>4
    <3>3. c \in [TablePage -> [Index -> EntryValue]]
      BY LoaderAssumption
    <3> HIDE DEF c
    <3> QED BY <3>2, <3>3, VmBuilt
  <2> QED BY <1>1, <2>1, <2>2, <2>3, BecomesKeeps
<1>4. CASE proc_create_elf
  <2> DEFINE a == pmm_alloc(vm)
  <2>1. PICK b : b = (At(a, KERNEL_BASE + a.got) = None)
    OBVIOUS
  <2>2. Becomes(a) \/ Becomes([a EXCEPT !.panic = b])
    BY <1>4, <2>1 DEF proc_create_elf
  <2>3. UNCHANGED <<va, dirs>>
    BY <1>4 DEF proc_create_elf
  <2>4. VmType(a)
    BY <1>1, pmm_allocType
  <2> HIDE DEF a
  <2>5. VmType([a EXCEPT !.panic = b])
    BY <2>4, VmMarked
  <2> QED BY <1>1, <2>2, <2>3, <2>4, <2>5, BecomesKeeps
<1>5. CASE elf_check \/ skip_segment \/ elf_loaded \/ Halted \/ UNCHANGED loaderVars
  BY <1>5, VmmStutters DEF elf_check, skip_segment, elf_loaded, Halted, loaderVars
<1> QED
  BY <1>2, <1>3, <1>4, <1>5, vmm_initKeeps, ClientKeeps DEF LoaderNext

\* The same with the loader on top, which passes a page as a directory and writes over
\* whatever its pages lead to: whatever the program is, the tables stay well formed.
THEOREM LoaderTypeCorrect == LoaderSpec => []VmmTypeOK
<1>1. LoaderInit => VmmInv
  BY VmmInvInit DEF LoaderInit
<1>2. VmmInv => VmmTypeOK
  BY DEF VmmInv
<1> QED BY <1>1, <1>2, LoaderKeeps, PTL DEF LoaderSpec

-----------------------------------------------------------------------------
(* Indices *)

\* The spans are not zero.
LEMMA Spans == /\ ENTRIES \in Nat \ {0} /\ Span[1] = 1 /\ Span[2] = ENTRIES
               /\ Span[3] = ENTRIES * ENTRIES /\ Span[4] = ENTRIES * ENTRIES * ENTRIES
               /\ \A level \in 1 .. 4 : Span[level] \in Nat \ {0}
<1>1. ENTRIES \in Nat \ {0}
  BY VmmAssumption
<1>2. Span[1] = 1 /\ Span[2] = ENTRIES /\ Span[3] = ENTRIES * ENTRIES
        /\ Span[4] = ENTRIES * ENTRIES * ENTRIES
  BY DEF Span
<1>3. ENTRIES * ENTRIES \in Nat \ {0}
  BY <1>1
<1>4. ENTRIES * ENTRIES * ENTRIES \in Nat \ {0}
  BY <1>1, <1>3
<1> QED BY <1>1, <1>2, <1>3, <1>4

\* Division with remainder.
LEMMA DivIn ==
    ASSUME NEW v \in Nat, NEW n \in Nat \ {0}
    PROVE  \E q \in Nat, r \in 0 .. (n - 1) : q = v \div n /\ r = v % n /\ v = n * q + r
<1>1. v \div n \in Nat
  OBVIOUS
<1>2. v % n \in 0 .. (n - 1)
  OBVIOUS
<1>3. v % n = v - n * (v \div n)
  OBVIOUS
<1>4. PICK q \in Nat, r \in 0 .. (n - 1) : q = v \div n /\ r = v % n
  BY <1>1, <1>2
<1>5. v = n * q + r
  <2>1. r = v - n * q
    BY <1>3, <1>4
  <2>2. n * q \in Nat
    OBVIOUS
  <2> QED BY <2>1, <2>2
<1> QED BY <1>4, <1>5

\* Dividing twice is dividing by the product.
LEMMA DivDiv ==
    ASSUME NEW v \in Nat, NEW n \in Nat \ {0}, NEW k \in Nat \ {0}
    PROVE  (v \div n) \div k = v \div (n * k)
OBVIOUS

\* An index is one of the table's.
LEMMA IdxIn ==
    ASSUME NEW v \in Nat, NEW level \in 1 .. 4
    PROVE  Idx(v, level) \in Index
<1>1. PICK n \in Nat \ {0} : n = Span[level]
  BY Spans
<1>2. PICK q \in Nat : q = v \div n
  BY <1>1, DivIn
<1>3. q % ENTRIES \in 0 .. (ENTRIES - 1)
  BY DivIn, Spans
<1> QED BY <1>1, <1>2, <1>3 DEF Idx, Index

\* What is left of a page number after its lower indices, in terms of the next.
LEMMA Digits ==
    ASSUME NEW v \in Nat, NEW level \in 1 .. 3, NEW up \in 2 .. 4, up = level + 1
    PROVE  \E q \in Nat, k \in Nat, r \in Nat :
             /\ q = v \div Span[level] /\ k = v \div Span[up] /\ r = Idx(v, level)
             /\ q = ENTRIES * k + r
<1>1. PICK n \in Nat \ {0} : n = Span[level]
  BY Spans
<1>2. Span[up] = n * ENTRIES
  BY <1>1, Spans
<1>3. PICK q \in Nat : q = v \div n
  BY <1>1, DivIn
<1>4. PICK k \in Nat, r \in 0 .. (ENTRIES - 1) :
          k = q \div ENTRIES /\ r = q % ENTRIES /\ q = ENTRIES * k + r
  BY DivIn, Spans
<1>5. q \div ENTRIES = v \div (n * ENTRIES)
  BY <1>3, DivDiv, Spans
<1>6. r = Idx(v, level)
  BY <1>1, <1>3, <1>4 DEF Idx
<1>7. q = v \div Span[level] /\ k = v \div Span[up] /\ r \in Nat
  BY <1>1, <1>2, <1>3, <1>4, <1>5
<1> QED BY <1>4, <1>6, <1>7

\* An address of 48 bits is determined by its four indices.
Address == 0 .. (ENTRIES * Span[4] - 1)

\* The top index of an address of 48 bits is all that is left of it at that level.
LEMMA TopDigit ==
    ASSUME NEW v \in Address
    PROVE  v \in Nat /\ v \div Span[4] = Idx(v, 4)
<1>1. PICK n \in Nat \ {0} : n = Span[4]
  BY Spans
<1>2. v \in Nat /\ v < ENTRIES * n /\ ENTRIES \in Nat \ {0}
  BY <1>1, Spans DEF Address
<1>3. PICK q \in Nat : q = v \div n
  BY <1>1, <1>2, DivIn
<1>4. q < ENTRIES
  BY <1>2, <1>3
<1>5. q % ENTRIES = q
  BY <1>2, <1>4
<1> QED BY <1>1, <1>2, <1>3, <1>5 DEF Idx

\* Two addresses with the same indices are the same.
LEMMA IndicesTell ==
    ASSUME NEW v \in Address, NEW w \in Address, SamePage(v, w)
    PROVE  v = w
<1>1. v \in Nat /\ w \in Nat
  BY TopDigit
<1>2. \A level \in 1 .. 4 : Idx(v, level) = Idx(w, level)
  BY DEF SamePage
<1>3. v \div Span[4] = w \div Span[4]
  BY <1>2, TopDigit
<1>4. v \div Span[3] = w \div Span[3]
  <2>1. 3 \in 1 .. 3 /\ 4 \in 2 .. 4 /\ 4 = 3 + 1 /\ 3 \in 1 .. 4
    OBVIOUS
  <2> QED BY <1>1, <1>2, <1>3, <2>1, Digits
<1>5. v \div Span[2] = w \div Span[2]
  <2>1. 2 \in 1 .. 3 /\ 3 \in 2 .. 4 /\ 3 = 2 + 1 /\ 2 \in 1 .. 4
    OBVIOUS
  <2> QED BY <1>1, <1>2, <1>4, <2>1, Digits
<1>6. v \div Span[1] = w \div Span[1]
  <2>1. 1 \in 1 .. 3 /\ 2 \in 2 .. 4 /\ 2 = 1 + 1 /\ 1 \in 1 .. 4
    OBVIOUS
  <2> QED BY <1>1, <1>2, <1>5, <2>1, Digits
<1>7. v \div 1 = w \div 1
  BY <1>6, Spans
<1> QED BY <1>1, <1>7

-----------------------------------------------------------------------------
(* The shape of the tables *)

\* Every page that may hold a table has a kind: 1 to 4 are the levels of a table that
\* belongs to a directory; 6 to 9 those of a table that the loader made below a page of
\* the heap, which it takes for a directory (9); 5 is a frame it took for a page; 10 a
\* page of the heap that it has written to.  0 is everything else.
Kinds == [TablePage -> 0 .. 10]
MemType == [TablePage -> [Index -> EntryValue]]

\* Tables have tables of the next level below them, on the same side.
Upper == {2, 3, 4, 7, 8, 9}
Tree(mem, kind) ==
    \A t \in TablePage, i \in Index : kind[t] \in Upper /\ mem[t][i] # None =>
        mem[t][i] \in TablePage /\ kind[mem[t][i]] = kind[t] - 1

\* No table is listed twice, but for the kernel half, which directories share.
OneParent(mem, kind) ==
    \A t, u \in TablePage, i, j \in Index :
        kind[t] \in 2 .. 4 /\ kind[u] \in 2 .. 4 /\ mem[t][i] = mem[u][j] /\ mem[t][i] # None
        => i = j /\ (t = u \/ (kind[t] = 4 /\ kind[u] = 4 /\ i \in KernelIndex))

\* What has been handed out: a frame that is marked used, a table of the image.
Live(pool, used, t) == t \in used \/ (t < 0 /\ t > -5 - pool)
Held(pool, used, kind) == \A t \in TablePage : kind[t] # 0 => Live(pool, used, t)

\* Tables lie in the image: while the pool lasts, no frame becomes one.
Inside(kind) == \A f \in Frame : kind[f] \in {0, 5, 9, 10}

\* Memory is clear when the kernel starts; then free frames stay clear.
Clear == Ram = {Empty}
Clean(mem, used) == \A f \in Frame : Clear /\ f \notin used => mem[f] = Empty

Shape(mem, pool, used, kind) ==
    /\ kind \in Kinds /\ kind[PML4] = 4
    /\ Tree(mem, kind) /\ OneParent(mem, kind)
    /\ Held(pool, used, kind)
    /\ Inside(kind)
    /\ Clean(mem, used)

Good(s, kind) == VmType(s) /\ s.panic = FALSE /\ Shape(s.mem, s.pool, s.used, kind)

\* No directory translates a page differently.
Still(mem, mem2, kind) ==
    \A e \in TablePage, w \in Nat : kind[e] = 4 => Walk(mem2, e, w) = Walk(mem, e, w)

\* An entry that is not present is no table.
LEMMA NoneApart == None \notin TablePage /\ TablePage \subseteq Int
<1>1. TablePage \subseteq Int
  BY VmmAssumption DEF TablePage, Image, Frame, PML4, PDP, PD, PT, PoolTable
<1> QED BY <1>1, VmmAssumption

\* What a walk finds: a table of its level, or nothing.
Found(kind, t, k) == t = None \/ (t \in TablePage /\ kind[t] = k)

\* One level of a walk through tables of the right kinds.
LEMMA EntryFound ==
    ASSUME NEW mem \in MemType, NEW kind \in Kinds, Tree(mem, kind),
           NEW k \in Upper, NEW t, Found(kind, t, k), NEW v \in Nat, NEW level \in 1 .. 4,
           NEW j, j = k - 1
    PROVE  Found(kind, Entry(mem, t, v, level), j)
<1>1. PICK i \in Index : i = Idx(v, level)
  BY IdxIn
<1>2. CASE t = None
  BY <1>2 DEF Entry, Found
<1>3. CASE t # None
  <2>1. Entry(mem, t, v, level) = mem[t][i] /\ t \in TablePage /\ kind[t] = k
    BY <1>1, <1>3 DEF Entry, Found
  <2> QED BY <2>1 DEF Tree, Found
<1> QED BY <1>2, <1>3

\* The tables on the way to a page.
Pdp(mem, d, v) == Entry(mem, d, v, 4)
Pd(mem, d, v) == Entry(mem, Pdp(mem, d, v), v, 3)
Pt(mem, d, v) == Entry(mem, Pd(mem, d, v), v, 2)

\* A walk ends in the table of level 1.
LEMMA WalkIs ==
    ASSUME NEW mem, NEW d, NEW v
    PROVE  Walk(mem, d, v) = Entry(mem, Pt(mem, d, v), v, 1)
BY DEF Walk, Pdp, Pd, Pt

\* The tables on the way to a page are of the levels 3, 2 and 1 of their side.
LEMMA PathKinds ==
    ASSUME NEW mem \in MemType, NEW kind \in Kinds, Tree(mem, kind),
           NEW d \in TablePage, NEW v \in Nat, NEW side \in {0, 5}, kind[d] = side + 4
    PROVE  /\ Found(kind, Pdp(mem, d, v), side + 3)
           /\ Found(kind, Pd(mem, d, v), side + 2)
           /\ Found(kind, Pt(mem, d, v), side + 1)
<1>1. /\ side + 4 \in Upper /\ side + 3 \in Upper /\ side + 2 \in Upper
      /\ side + 3 = (side + 4) - 1 /\ side + 2 = (side + 3) - 1 /\ side + 1 = (side + 2) - 1
  BY DEF Upper
<1>2. Found(kind, d, side + 4)
  BY DEF Found
<1>3. Found(kind, Pdp(mem, d, v), side + 3)
  BY <1>1, <1>2, EntryFound DEF Pdp
<1>4. Found(kind, Pd(mem, d, v), side + 2)
  BY <1>1, <1>3, EntryFound DEF Pd
<1>5. Found(kind, Pt(mem, d, v), side + 1)
  BY <1>1, <1>4, EntryFound DEF Pt
<1> QED BY <1>3, <1>4, <1>5

\* Pages with the same indices are translated alike.
LEMMA SameWalk ==
    ASSUME NEW mem, NEW d, NEW v, NEW w, SamePage(v, w)
    PROVE  Walk(mem, d, v) = Walk(mem, d, w)
<1>1. Idx(v, 4) = Idx(w, 4) /\ Idx(v, 3) = Idx(w, 3) /\ Idx(v, 2) = Idx(w, 2) /\ Idx(v, 1) = Idx(w, 1)
  BY DEF SamePage
<1> QED BY <1>1 DEF Walk, Entry

\* Memory gains an empty table x in entries of directories' tables that were not present.
Adds(mem, mem2, kind, x) ==
    /\ \A j \in Index : mem2[x][j] = None
    /\ \A u \in TablePage, j \in Index : kind[u] \in 1 .. 4 =>
          \/ mem2[u][j] = mem[u][j]
          \/ kind[u] # 1 /\ mem[u][j] = None /\ mem2[u][j] = x

\* The table a walk finds is the one it found before, or x instead of none.
Match(t, u, x) == t = u \/ (t = None /\ u = x)

\* One level of a walk after such a step.
LEMMA EntryAdds ==
    ASSUME NEW mem, NEW mem2, NEW kind, NEW x, Adds(mem, mem2, kind, x),
           NEW k \in 1 .. 4, NEW t, NEW u, Found(kind, t, k), Match(t, u, x),
           NEW v \in Nat, NEW level \in 1 .. 4
    PROVE  /\ Match(Entry(mem, t, v, level), Entry(mem2, u, v, level), x)
           /\ k = 1 => Entry(mem, t, v, level) = Entry(mem2, u, v, level)
<1>1. PICK i \in Index : i = Idx(v, level)
  BY IdxIn
<1>2. CASE t = u /\ t = None
  BY <1>2 DEF Entry, Match
<1>3. CASE t = u /\ t # None
  <2>1. Entry(mem, t, v, level) = mem[t][i] /\ Entry(mem2, u, v, level) = mem2[t][i]
    BY <1>1, <1>3 DEF Entry
  <2>2. t \in TablePage /\ kind[t] = k
    BY <1>3 DEF Found
  <2> QED BY <1>3, <2>1, <2>2 DEF Adds, Match
<1>4. CASE t # u
  <2>1. Entry(mem, t, v, level) = None
    BY <1>4 DEF Entry, Match
  <2>2. Entry(mem2, u, v, level) = mem2[x][i]
    BY <1>1, <1>4 DEF Entry, Match
  <2> QED BY <2>1, <2>2 DEF Adds, Match
<1> QED BY <1>2, <1>3, <1>4

\* It shows in no translation.
LEMMA AddsStill ==
    ASSUME NEW mem \in MemType, NEW mem2, NEW kind \in Kinds, Tree(mem, kind),
           NEW x, Adds(mem, mem2, kind, x)
    PROVE  Still(mem, mem2, kind)
<1> SUFFICES ASSUME NEW e \in TablePage, NEW w \in Nat, kind[e] = 4
             PROVE  Walk(mem2, e, w) = Walk(mem, e, w)
  BY DEF Still
<1>1. /\ Found(kind, e, 4) /\ Found(kind, Pdp(mem, e, w), 3)
      /\ Found(kind, Pd(mem, e, w), 2) /\ Found(kind, Pt(mem, e, w), 1)
  <2>1. 0 \in {0, 5} /\ 0 + 4 = 4 /\ 0 + 3 = 3 /\ 0 + 2 = 2 /\ 0 + 1 = 1
    OBVIOUS
  <2>2. Found(kind, e, 4)
    BY DEF Found
  <2> QED BY <2>1, <2>2, PathKinds
<1>2. Match(e, e, x)
  BY DEF Match
<1>3. Match(Pdp(mem, e, w), Pdp(mem2, e, w), x)
  BY <1>1, <1>2, EntryAdds DEF Pdp
<1>4. Match(Pd(mem, e, w), Pd(mem2, e, w), x)
  BY <1>1, <1>3, EntryAdds DEF Pd
<1>5. Match(Pt(mem, e, w), Pt(mem2, e, w), x)
  BY <1>1, <1>4, EntryAdds DEF Pt
<1>6. Entry(mem, Pt(mem, e, w), w, 1) = Entry(mem2, Pt(mem2, e, w), w, 1)
  BY <1>1, <1>5, EntryAdds
<1> QED BY <1>6, WalkIs

\* Nor does anything that leaves directories' tables alone.
LEMMA UntouchedStill ==
    ASSUME NEW mem \in MemType, NEW mem2, NEW kind \in Kinds, Tree(mem, kind),
           \A u \in TablePage : kind[u] \in 1 .. 4 => mem2[u] = mem[u]
    PROVE  Still(mem, mem2, kind)
<1> SUFFICES ASSUME NEW e \in TablePage, NEW w \in Nat, kind[e] = 4
             PROVE  Walk(mem2, e, w) = Walk(mem, e, w)
  BY DEF Still
<1>1. /\ Found(kind, Pdp(mem, e, w), 3)
      /\ Found(kind, Pd(mem, e, w), 2) /\ Found(kind, Pt(mem, e, w), 1)
  <2>1. 0 \in {0, 5} /\ 0 + 4 = 4 /\ 0 + 3 = 3 /\ 0 + 2 = 2 /\ 0 + 1 = 1
    OBVIOUS
  <2> QED BY <2>1, PathKinds
<1>2. Pdp(mem2, e, w) = Pdp(mem, e, w)
  BY DEF Pdp, Entry
<1>3. Pd(mem2, e, w) = Pd(mem, e, w)
  BY <1>1, <1>2 DEF Pd, Entry, Found
<1>4. Pt(mem2, e, w) = Pt(mem, e, w)
  BY <1>1, <1>3 DEF Pt, Entry, Found
<1> QED BY <1>1, <1>4, WalkIs DEF Entry, Found

\* Where a pointer leads does not depend on what directories do not use.
LEMMA StillAt ==
    ASSUME NEW s, NEW r, NEW kind, kind[PML4] = 4, Still(s.mem, r.mem, kind), NEW q \in Int
    PROVE  At(r, q) = At(s, q)
BY VmmConstants DEF Still, At

\* Two steps that show in no translation, one after the other.
LEMMA StillChain ==
    ASSUME NEW mem, NEW mem2, NEW mem3, NEW kind, NEW kind2,
           \A t \in TablePage : kind[t] = 4 => kind2[t] = 4,
           Still(mem, mem2, kind), Still(mem2, mem3, kind2)
    PROVE  Still(mem, mem3, kind)
BY DEF Still

\* A pointer to a table leads to it: the image stays mapped where it is.
LEMMA TableAt ==
    ASSUME NEW s, NEW kind, Inside(kind), NEW t \in TablePage, kind[t] \notin {0, 5, 9, 10}
    PROVE  At(s, t) = t /\ t # None
<1>1. t \notin Frame
  BY DEF Inside
<1>2. t < 0
  BY <1>1, VmmAssumption DEF TablePage, Image, PML4, PDP, PD, PT, PoolTable
<1> QED BY <1>2, NoneApart DEF At

-----------------------------------------------------------------------------
(* Taking a frame or a table *)

\* Call a has taken x, which nobody had; a frame keeps what it holds.
Takes(s, a, x) ==
    /\ x \in TablePage /\ ~Live(s.pool, s.used, x)
    /\ a.got = x /\ a.panic = s.panic
    /\ \A t \in TablePage : t # x => a.mem[t] = s.mem[t]
    /\ a.mem[x] = Empty \/ (x \in Frame /\ a.mem[x] = s.mem[x])
    /\ s.used \subseteq a.used /\ a.used \subseteq s.used \cup {x} /\ (x \in Frame => x \in a.used)
    /\ \A t \in TablePage : Live(a.pool, a.used, t) <=> Live(s.pool, s.used, t) \/ t = x

\* Call a did not return, and took nothing.
Fails(s, a) == a.panic = TRUE /\ a.mem = s.mem /\ a.used = s.used

\* pmm_alloc takes a frame and writes nothing, or fails.
LEMMA pmm_allocTakes ==
    ASSUME NEW s, VmType(s)
    PROVE  \/ Fails(s, pmm_alloc(s))
           \/ \E x \in Frame : Takes(s, pmm_alloc(s), x) /\ pmm_alloc(s).mem = s.mem
<1> DEFINE free == Frame \ s.used
           ahead == {f \in free : f >= s.last}
           f == IF ahead # {} THEN Min(ahead) ELSE Min(free)
           a == [s EXCEPT !.used = @ \cup {f}, !.got = f,
                          !.last = IF f + 1 \in Frame THEN f + 1 ELSE BASE]
<1>1. CASE free = {}
  <2>1. pmm_alloc(s) = [s EXCEPT !.panic = TRUE]
    BY <1>1 DEF pmm_alloc
  <2> QED BY <2>1 DEF VmType, Fails
<1>2. CASE free # {}
  <2>1. f \in Frame \ s.used
    <3>1. free \in SUBSET Nat /\ ahead \in SUBSET Nat
      BY VmmConstants
    <3> HIDE DEF free
    <3>2. Min(free) \in free
      BY <1>2, <3>1, MinIsLeast
    <3>3. ahead # {} => Min(ahead) \in ahead
      <4> HIDE DEF ahead
      <4> QED BY <3>1, MinIsLeast
    <3> QED BY <3>2, <3>3 DEF free
  <2>2. pmm_alloc(s) = a
    BY <1>2 DEF pmm_alloc
  <2> HIDE DEF f
  <2>3. /\ a.used = s.used \cup {f} /\ a.got = f /\ a.mem = s.mem /\ a.pool = s.pool
        /\ a.panic = s.panic
    BY DEF VmType
  <2>4. f >= 0
    BY <2>1, VmmConstants
  <2>5. Takes(s, a, f)
    <3> HIDE DEF a
    <3>1. f \in TablePage /\ ~Live(s.pool, s.used, f)
      BY <2>1, <2>4, VmmConstants DEF Live
    <3>2. \A t \in TablePage : Live(a.pool, a.used, t) <=> Live(s.pool, s.used, t) \/ t = f
      BY <2>1, <2>3 DEF Live
    <3> QED BY <2>1, <2>3, <3>1, <3>2 DEF Takes
  <2> HIDE DEF a
  <2> QED BY <2>1, <2>2, <2>3, <2>5
<1> QED BY <1>1, <1>2

\* While the pool lasts, alloc_table takes a cleared table of it.
FromPool(s, a, x) ==
    /\ Takes(s, a, x) /\ x \notin Frame /\ a.mem[x] = Empty
    /\ a.used = s.used /\ a.pool = s.pool + 1

LEMMA alloc_tableTakes ==
    ASSUME NEW s, VmType(s), s.pool < POOL
    PROVE  \E x \in TablePage : FromPool(s, alloc_table(s), x)
<1>1. PICK x \in TablePage : x = PoolTable(s.pool)
  <2>1. s.pool \in 0 .. (POOL - 1)
    BY VmmConstants DEF VmType
  <2> QED BY <2>1, VmmConstants
<1> DEFINE a == alloc_table(s)
<1>2. a = [s EXCEPT !.pool = @ + 1, !.got = x, !.mem[x] = Empty]
  BY <1>1 DEF alloc_table
<1>3. /\ a.used = s.used /\ a.got = x /\ a.pool = s.pool + 1 /\ a.panic = s.panic
      /\ a.mem = [s.mem EXCEPT ![x] = Empty]
  BY <1>2 DEF VmType
<1>4. a.mem[x] = Empty /\ \A t \in TablePage : t # x => a.mem[t] = s.mem[t]
  BY <1>3 DEF VmType
<1> HIDE DEF a
<1>5. x = -5 - s.pool /\ x < 0 /\ s.pool \in Nat
  BY <1>1, VmmConstants DEF PoolTable, VmType
<1>6. x \notin Frame
  BY <1>5, VmmConstants
<1>7. ~Live(s.pool, s.used, x)
  BY <1>5, <1>6 DEF Live, VmType
<1>8. \A t \in TablePage : Live(a.pool, a.used, t) <=> Live(s.pool, s.used, t) \/ t = x
  <2> SUFFICES ASSUME NEW t \in TablePage
               PROVE  Live(a.pool, a.used, t) <=> Live(s.pool, s.used, t) \/ t = x
    OBVIOUS
  <2>1. t \in Int
    BY NoneApart
  <2>2. (t < 0 /\ t > -5 - (s.pool + 1)) <=> (t < 0 /\ t > -5 - s.pool) \/ t = x
    BY <1>5, <2>1
  <2> QED BY <1>3, <2>2 DEF Live
<1>9. Takes(s, a, x)
  BY <1>3, <1>4, <1>6, <1>7, <1>8 DEF Takes
<1> QED BY <1>3, <1>4, <1>6, <1>9 DEF FromPool, a

Recast(kind, kind2, x, k) == kind2 = [kind EXCEPT ![x] = k]

\* Whatever it is going to be, the new table keeps the shape.
LEMMA TakeKeeps ==
    ASSUME NEW s, NEW kind, Good(s, kind), NEW a, VmType(a), NEW x, Takes(s, a, x),
           NEW k \in 0 .. 10, a.mem[x] = Empty \/ k \notin Upper, x \in Frame => k \in {0, 5, 9, 10},
           NEW kind2, Recast(kind, kind2, x, k)
    PROVE  kind[x] = 0 /\ Good(a, kind2) /\ Still(s.mem, a.mem, kind)
<1>1. /\ s.mem \in MemType /\ a.mem \in MemType /\ kind \in Kinds /\ x \in TablePage
      /\ Tree(s.mem, kind) /\ OneParent(s.mem, kind) /\ kind[PML4] = 4 /\ Inside(kind)
  BY DEF Good, Shape, VmType, Takes, MemType
<1>2. kind[x] = 0
  BY <1>1 DEF Good, Shape, Held, Takes
<1>4. \A t \in TablePage : t # x => a.mem[t] = s.mem[t] /\ kind2[t] = kind[t]
  BY <1>1 DEF Takes, Kinds, Recast
<1>5. kind2 \in Kinds /\ kind2[x] = k
  BY <1>1 DEF Kinds, Recast
<1>6. k \in Upper => \A i \in Index : a.mem[x][i] = None
  BY DEF Empty
<1>7. Still(s.mem, a.mem, kind)
  BY <1>1, <1>2, <1>4, UntouchedStill
<1>8. Tree(a.mem, kind2)
  <2> SUFFICES ASSUME NEW t \in TablePage, NEW i \in Index, kind2[t] \in Upper, a.mem[t][i] # None
               PROVE  a.mem[t][i] \in TablePage /\ kind2[a.mem[t][i]] = kind2[t] - 1
    BY DEF Tree
  <2>1. t # x
    BY <1>5, <1>6
  <2>2. s.mem[t][i] \in TablePage /\ kind[s.mem[t][i]] = kind[t] - 1 /\ kind[t] \in Upper
    BY <1>1, <1>4, <2>1 DEF Tree
  <2>3. s.mem[t][i] # x
    BY <1>2, <2>2 DEF Upper
  <2> QED BY <1>4, <2>1, <2>2, <2>3
<1>9. OneParent(a.mem, kind2)
  <2> SUFFICES ASSUME NEW t \in TablePage, NEW u \in TablePage, NEW i \in Index, NEW j \in Index,
                      kind2[t] \in 2 .. 4, kind2[u] \in 2 .. 4,
                      a.mem[t][i] = a.mem[u][j], a.mem[t][i] # None
               PROVE  i = j /\ (t = u \/ (kind2[t] = 4 /\ kind2[u] = 4 /\ i \in KernelIndex))
    BY DEF OneParent
  <2>1. t # x /\ u # x
    BY <1>5, <1>6 DEF Upper
  <2> QED BY <1>1, <1>4, <2>1 DEF OneParent
<1>10. Held(a.pool, a.used, kind2)
  BY <1>4 DEF Held, Good, Shape, Takes
<1>11. Inside(kind2)
  BY <1>1, <1>4, <1>5, VmmConstants DEF Inside
<1>12. Clean(a.mem, a.used)
  <2> SUFFICES ASSUME NEW f \in Frame, Clear, f \notin a.used PROVE a.mem[f] = Empty
    BY DEF Clean
  <2>1. f \notin s.used /\ f # x
    BY DEF Takes
  <2>2. s.mem[f] = Empty
    BY <2>1 DEF Good, Shape, Clean
  <2> QED BY <1>4, <2>1, <2>2, VmmConstants
<1>13. kind2[PML4] = 4
  BY <1>1, <1>2, <1>4, VmmConstants
<1>14. a.panic = FALSE
  BY DEF Takes, Good
<1>15. Good(a, kind2)
  BY <1>5, <1>8, <1>9, <1>10, <1>11, <1>12, <1>13, <1>14 DEF Good, Shape
<1> QED BY <1>2, <1>7, <1>15

-----------------------------------------------------------------------------
(* vmm_map *)

Stored(a, r, t, i, x) == r = [a EXCEPT !.mem[t][i] = x]

\* An entry that was not present leads to an empty table now.
LEMMA LinkKeeps ==
    ASSUME NEW a, NEW kind, Good(a, kind),
           NEW t \in TablePage, NEW i \in Index, kind[t] \in Upper, a.mem[t][i] = None,
           NEW x \in TablePage, kind[x] = kind[t] - 1, a.mem[x] = Empty,
           \A u \in TablePage, j \in Index : kind[u] \in Upper => a.mem[u][j] # x,
           NEW r, VmType(r), Stored(a, r, t, i, x)
    PROVE  /\ Good(r, kind) /\ Still(a.mem, r.mem, kind)
           /\ r.mem[t][i] = x /\ r.used = a.used /\ r.got = a.got
           /\ \A u \in TablePage, j \in Index : a.mem[u][j] # None => r.mem[u][j] = a.mem[u][j]
<1>1. /\ r.used = a.used /\ r.got = a.got /\ r.pool = a.pool /\ r.panic = FALSE
      /\ r.mem = [a.mem EXCEPT ![t][i] = x]
  BY DEF Good, VmType, Stored
<1>2. /\ a.mem \in MemType /\ r.mem \in MemType /\ kind \in Kinds /\ kind[PML4] = 4
      /\ Tree(a.mem, kind) /\ OneParent(a.mem, kind) /\ Inside(kind)
      /\ Held(a.pool, a.used, kind) /\ Clean(a.mem, a.used)
  BY DEF Good, Shape, VmType, MemType
<1>3. PICK mem \in MemType, mem2 \in MemType : mem = a.mem /\ mem2 = r.mem
  BY <1>2
<1>4. mem2[t][i] = x /\ \A u \in TablePage, j \in Index : (u # t \/ j # i) => mem2[u][j] = mem[u][j]
  BY <1>1, <1>3 DEF MemType
<1>5. \A u \in TablePage : u # t => mem2[u] = mem[u]
  BY <1>1, <1>3 DEF MemType
<1>6. x # t
  <2>1. kind[t] \in Int
    BY DEF Upper
  <2> QED BY <2>1
<1>7. \A j \in Index : mem2[x][j] = None
  <2>1. mem2[x] = Empty
    BY <1>3, <1>5, <1>6
  <2> QED BY <2>1 DEF Empty
<1>8. Still(mem, mem2, kind)
  <2>1. kind[t] # 1
    BY DEF Upper
  <2>2. Adds(mem, mem2, kind, x)
    BY <1>3, <1>4, <1>7, <2>1 DEF Adds
  <2> QED BY <1>2, <1>3, <2>2, AddsStill
<1>9. Tree(mem2, kind)
  <2> SUFFICES ASSUME NEW u \in TablePage, NEW j \in Index, kind[u] \in Upper, mem2[u][j] # None
               PROVE  mem2[u][j] \in TablePage /\ kind[mem2[u][j]] = kind[u] - 1
    BY DEF Tree
  <2>1. CASE u = t /\ j = i
    BY <1>4, <2>1
  <2>2. CASE ~(u = t /\ j = i)
    <3>1. mem2[u][j] = mem[u][j]
      BY <1>4, <2>2
    <3> QED BY <1>2, <1>3, <3>1 DEF Tree
  <2> QED BY <2>1, <2>2
<1>10. OneParent(mem2, kind)
  <2> SUFFICES ASSUME NEW u \in TablePage, NEW w \in TablePage, NEW j \in Index, NEW k \in Index,
                      kind[u] \in 2 .. 4, kind[w] \in 2 .. 4,
                      mem2[u][j] = mem2[w][k], mem2[u][j] # None
               PROVE  j = k /\ (u = w \/ (kind[u] = 4 /\ kind[w] = 4 /\ j \in KernelIndex))
    BY DEF OneParent
  <2>0. kind[u] \in Upper /\ kind[w] \in Upper
    BY DEF Upper
  <2>1. CASE u = t /\ j = i
    <3>1. mem2[w][k] = x
      BY <1>4, <2>1
    <3>2. w = t /\ k = i
      BY <1>3, <1>4, <2>0, <3>1
    <3> QED BY <2>1, <3>2
  <2>2. CASE w = t /\ k = i
    <3>1. mem2[u][j] = x
      BY <1>4, <2>2
    <3>2. u = t /\ j = i
      BY <1>3, <1>4, <2>0, <3>1
    <3> QED BY <2>2, <3>2
  <2>3. CASE ~(u = t /\ j = i) /\ ~(w = t /\ k = i)
    <3>1. mem2[u][j] = mem[u][j] /\ mem2[w][k] = mem[w][k]
      BY <1>4, <2>3
    <3>2. OneParent(mem, kind)
      BY <1>2, <1>3
    <3>3. mem[u][j] = mem[w][k] /\ mem[u][j] # None
      BY <3>1
    <3> HIDE <3>1
    <3> QED BY <3>2, <3>3 DEF OneParent
  <2> QED BY <2>1, <2>2, <2>3
<1>11. Clean(mem2, r.used)
  <2>1. Live(a.pool, a.used, t)
    <3>1. kind[t] # 0
      BY DEF Upper
    <3> QED BY <1>2, <3>1 DEF Held
  <2> SUFFICES ASSUME NEW f \in Frame, Clear, f \notin r.used PROVE mem2[f] = Empty
    BY DEF Clean
  <2>2. f # t
    <3>1. f \in Nat /\ f \notin a.used
      BY <1>1, VmmConstants
    <3>2. Live(a.pool, a.used, t) => t \in a.used \/ t < 0
      BY DEF Live
    <3> QED BY <2>1, <3>1, <3>2
  <2> QED BY <1>1, <1>2, <1>3, <1>5, <2>2, VmmConstants DEF Clean
<1>12. Good(r, kind)
  BY <1>1, <1>2, <1>3, <1>9, <1>10, <1>11 DEF Good, Shape
<1>13. \A u \in TablePage, j \in Index : a.mem[u][j] # None => r.mem[u][j] = a.mem[u][j]
  BY <1>3, <1>4
<1> QED BY <1>1, <1>3, <1>4, <1>8, <1>12, <1>13

\* What a part of a call adds on one side: tables below the level of directories.
Grows(s, kind, r, kind2, side) ==
    /\ \A t \in TablePage :
          kind2[t] = kind[t] \/ (kind[t] = 0 /\ kind2[t] \in (side + 1) .. (side + 3))
    /\ \A t \in TablePage, i \in Index :
          kind[t] # 0 /\ s.mem[t][i] # None => r.mem[t][i] = s.mem[t][i]
    /\ r.used = s.used
    /\ Still(s.mem, r.mem, kind)

\* One part of a call after the other.
LEMMA GrowsChain ==
    ASSUME NEW s, NEW r, NEW z, NEW kind \in Kinds, NEW kind2 \in Kinds, NEW kind3 \in Kinds,
           NEW side \in {0, 5},
           Grows(s, kind, r, kind2, side), Grows(r, kind2, z, kind3, side)
    PROVE  Grows(s, kind, z, kind3, side)
<1>1. \A t \in TablePage :
          kind3[t] = kind[t] \/ (kind[t] = 0 /\ kind3[t] \in (side + 1) .. (side + 3))
  BY DEF Grows, Kinds
<1>2. \A t \in TablePage, i \in Index :
          kind[t] # 0 /\ s.mem[t][i] # None => z.mem[t][i] = s.mem[t][i]
  BY DEF Grows, Kinds
<1>3. z.used = s.used
  BY DEF Grows
<1>4. Still(s.mem, z.mem, kind)
  <2>1. \A t \in TablePage : kind[t] = 4 => kind2[t] = 4
    BY DEF Grows
  <2> QED BY <2>1, StillChain DEF Grows
<1> QED BY <1>1, <1>2, <1>3, <1>4 DEF Grows

\* What Descend finds or makes: table x of kind k, listed in entry i of t.
Descends(s, kind, D, side, t, i, k) ==
    \E kind2 \in Kinds : /\ Good(D, kind2) /\ Grows(s, kind, D, kind2, side)
                         /\ D.got \in TablePage /\ kind2[D.got] = k /\ D.mem[t][i] = D.got

\* Descend finds or makes the table below t, or the machine stops.
LEMMA DescendGrows ==
    ASSUME NEW s, NEW kind, Good(s, kind), s.pool < POOL, NEW t \in TablePage,
           NEW level \in 2 .. 4, NEW side \in {0, 5}, kind[t] = side + level,
           NEW q \in Int, At(s, q) \in {t, None}, NEW v \in Nat,
           NEW D, D = Descend(s, q, v, level),
           NEW k, k = side + level - 1
    PROVE  \/ D.panic = TRUE /\ Still(s.mem, D.mem, kind)
           \/ Descends(s, kind, D, side, t, Idx(v, level), k)
<1>1. /\ s.mem \in MemType /\ kind \in Kinds /\ kind[PML4] = 4 /\ VmType(s) /\ s.panic = FALSE
      /\ Tree(s.mem, kind) /\ None \notin TablePage
  BY NoneApart DEF Good, Shape, VmType, MemType
<1>2. PICK i \in Index : i = Idx(v, level)
  <2>1. level \in 1 .. 4
    OBVIOUS
  <2> QED BY <2>1, IdxIn
<1>3. kind[t] \in Upper /\ kind[t] - 1 = k /\ k \in (side + 1) .. (side + 3) /\ k \in 0 .. 10
  BY DEF Upper
<1>4. Still(s.mem, s.mem, kind)
  BY DEF Still
<1>5. CASE At(s, q) = None
  <2>1. D = [s EXCEPT !.panic = TRUE]
    BY <1>5 DEF Descend
  <2>2. D.panic = TRUE /\ D.mem = s.mem
    BY <1>1, <2>1 DEF VmType
  <2> QED BY <1>4, <2>2
<1>6. CASE At(s, q) # None
  <2>1. At(s, q) = t
    BY <1>6
  <2> DEFINE e == s.mem[t][i]
  <2>a. PICK a : a = alloc_table(s)
    OBVIOUS
  <2>2. D = IF e # None THEN [s EXCEPT !.got = e]
            ELSE IF a.panic THEN a ELSE Store(a, q, i, a.got)
    <3>1. Entry(s.mem, At(s, q), v, level) = e
      BY <1>2, <1>6, <2>1 DEF Entry
    <3> HIDE DEF e
    <3> QED BY <1>1, <1>2, <1>6, <2>a, <3>1 DEF Descend
  <2>3. VmType(a)
    BY <1>1, <2>a, alloc_tableType
  <2>4. CASE e # None
    <3>1. e \in TablePage /\ kind[e] = k
      BY <1>1, <1>3, <2>4 DEF Tree
    <3>2. D = [s EXCEPT !.got = e]
      BY <2>2, <2>4
    <3> HIDE DEF e
    <3>3. /\ VmType(D) /\ D.mem = s.mem /\ D.pool = s.pool /\ D.used = s.used
          /\ D.panic = FALSE /\ D.got = e
      BY <1>1, <3>2 DEF VmType
    <3>4. Good(D, kind)
      BY <3>3 DEF Good
    <3>5. Grows(s, kind, D, kind, side)
      BY <1>4, <3>3 DEF Grows
    <3>6. D.mem[t][i] = D.got
      BY <3>3 DEF e
    <3>7. Descends(s, kind, D, side, t, i, k)
      BY <1>1, <3>1, <3>3, <3>4, <3>5, <3>6 DEF Descends
    <3> QED BY <1>2, <3>7
  <2>5. CASE e = None
    <3> HIDE DEF e
    <3>1. PICK x \in TablePage : FromPool(s, a, x)
      BY <1>1, <2>a, alloc_tableTakes
    <3>0. Takes(s, a, x) /\ x \notin Frame /\ a.mem[x] = Empty /\ a.used = s.used
      BY <3>1 DEF FromPool
    <3>2. a.panic = FALSE /\ a.got = x
      BY <1>1, <3>0 DEF Takes
    <3>3. D = Store(a, q, i, x)
      BY <2>2, <2>5, <3>2
    <3>4. D.used = a.used
      BY <2>3, <3>3 DEF Store, VmType
    <3>k. PICK kind2 : Recast(kind, kind2, x, k)
      BY DEF Recast
    <3>5. kind[x] = 0 /\ Good(a, kind2) /\ Still(s.mem, a.mem, kind)
      BY <1>3, <2>3, <3>0, <3>k, TakeKeeps
    <3>6. At(a, q) = t
      BY <1>1, <2>1, <3>5, StillAt
    <3>7. Stored(a, D, t, i, x)
      BY <1>1, <3>3, <3>6 DEF Store, Stored
    <3>8. VmType(D)
      BY <2>3, <3>3, StoreType, VmmConstants
    <3>9. /\ kind2 \in Kinds /\ kind2[x] = k /\ \A u \in TablePage : u # x => kind2[u] = kind[u]
      BY <1>1, <1>3, <3>k DEF Kinds, Recast
    <3>10. x # t
      BY <1>3, <3>5 DEF Upper
    <3>11. \A u \in TablePage : u # x => a.mem[u] = s.mem[u]
      BY <3>0 DEF Takes
    <3>12. a.mem[t][i] = None
      BY <2>5, <3>10, <3>11 DEF e
    <3>13. \A u \in TablePage, j \in Index : kind2[u] \in Upper => a.mem[u][j] # x
      <4> SUFFICES ASSUME NEW u \in TablePage, NEW j \in Index, kind2[u] \in Upper, a.mem[u][j] = x
                   PROVE  FALSE
        OBVIOUS
      <4>1. u # x
        BY <1>1, <3>0 DEF Empty
      <4>2. s.mem[u][j] = x /\ kind[u] \in Upper
        BY <3>9, <3>11, <4>1
      <4>3. kind[x] = kind[u] - 1
        BY <1>1, <4>2 DEF Tree
      <4> QED BY <3>5, <4>2, <4>3 DEF Upper
    <3>14. kind2[t] \in Upper /\ kind2[x] = kind2[t] - 1
      BY <1>3, <3>9, <3>10
    <3>15. /\ Good(D, kind2) /\ Still(a.mem, D.mem, kind2)
           /\ D.mem[t][i] = x /\ D.got = a.got
           /\ \A u \in TablePage, j \in Index : a.mem[u][j] # None => D.mem[u][j] = a.mem[u][j]
      BY <3>0, <3>5, <3>7, <3>8, <3>12, <3>13, <3>14, LinkKeeps
    <3>16. Still(s.mem, D.mem, kind)
      <4>1. \A u \in TablePage : kind[u] = 4 => kind2[u] = 4
        BY <3>5, <3>9
      <4> QED BY <3>5, <3>15, <4>1, StillChain
    <3>17. Grows(s, kind, D, kind2, side)
      <4>1. \A u \in TablePage :
               kind2[u] = kind[u] \/ (kind[u] = 0 /\ kind2[u] \in (side + 1) .. (side + 3))
        BY <1>3, <3>5, <3>9
      <4>2. \A u \in TablePage, j \in Index :
               kind[u] # 0 /\ s.mem[u][j] # None => D.mem[u][j] = s.mem[u][j]
        BY <3>5, <3>11, <3>15
      <4>3. D.used = s.used
        BY <3>0, <3>4
      <4> QED BY <3>16, <4>1, <4>2, <4>3 DEF Grows
    <3>18. Descends(s, kind, D, side, t, i, k)
      BY <3>2, <3>9, <3>15, <3>17 DEF Descends
    <3> QED BY <1>2, <3>18
  <2> QED BY <2>4, <2>5
<1> QED BY <1>5, <1>6

\* The tables on the way to a page are only on the way to pages that share its indices.
LEMMA EntryUnique ==
    ASSUME NEW mem \in MemType, NEW kind \in Kinds, OneParent(mem, kind), NEW k \in 2 .. 4,
           NEW t, NEW u, Found(kind, t, k), Found(kind, u, k),
           NEW v \in Nat, NEW w \in Nat, NEW level \in 1 .. 4,
           Entry(mem, t, v, level) = Entry(mem, u, w, level), Entry(mem, t, v, level) # None
    PROVE  /\ t # None /\ u # None /\ Idx(v, level) = Idx(w, level)
           /\ t = u \/ (k = 4 /\ Idx(v, level) \in KernelIndex)
<1>1. PICK i \in Index, j \in Index : i = Idx(v, level) /\ j = Idx(w, level)
  BY IdxIn
<1>2. t # None /\ u # None
  BY DEF Entry
<1>3. /\ t \in TablePage /\ u \in TablePage /\ kind[t] = k /\ kind[u] = k
  BY <1>2 DEF Found
<1>4. mem[t][i] = mem[u][j] /\ mem[t][i] # None
  BY <1>1, <1>2 DEF Entry
<1>5. i = j /\ (t = u \/ (kind[t] = 4 /\ kind[u] = 4 /\ i \in KernelIndex))
  BY <1>3, <1>4 DEF OneParent
<1> QED BY <1>1, <1>2, <1>3, <1>5

\* The tables on the way to a page in a directory.
LEMMA PathKinds0 ==
    ASSUME NEW mem \in MemType, NEW kind \in Kinds, Tree(mem, kind),
           NEW d \in TablePage, NEW v \in Nat, kind[d] = 4
    PROVE  /\ Found(kind, d, 4) /\ Found(kind, Pdp(mem, d, v), 3)
           /\ Found(kind, Pd(mem, d, v), 2) /\ Found(kind, Pt(mem, d, v), 1)
<1>1. 0 \in {0, 5} /\ 0 + 4 = 4 /\ 0 + 3 = 3 /\ 0 + 2 = 2 /\ 0 + 1 = 1
  OBVIOUS
<1>2. Found(kind, d, 4)
  BY DEF Found
<1> QED BY <1>1, <1>2, PathKinds

\* The table of level 1 determines the three upper indices and, below the kernel half,
\* the directory.
LEMMA PathUnique ==
    ASSUME NEW mem \in MemType, NEW kind \in Kinds, Tree(mem, kind), OneParent(mem, kind),
           NEW d \in TablePage, NEW e \in TablePage, kind[d] = 4, kind[e] = 4,
           NEW v \in Nat, NEW w \in Nat,
           Pt(mem, d, v) = Pt(mem, e, w), Pt(mem, d, v) # None
    PROVE  /\ Idx(v, 4) = Idx(w, 4) /\ Idx(v, 3) = Idx(w, 3) /\ Idx(v, 2) = Idx(w, 2)
           /\ d = e \/ Idx(v, 4) \in KernelIndex
<1>1. /\ Found(kind, d, 4) /\ Found(kind, Pdp(mem, d, v), 3) /\ Found(kind, Pd(mem, d, v), 2)
      /\ Found(kind, e, 4) /\ Found(kind, Pdp(mem, e, w), 3) /\ Found(kind, Pd(mem, e, w), 2)
  BY PathKinds0
<1>2. /\ Pd(mem, d, v) # None /\ Pd(mem, d, v) = Pd(mem, e, w) /\ Idx(v, 2) = Idx(w, 2)
  BY <1>1, EntryUnique DEF Pt
<1>3. /\ Pdp(mem, d, v) # None /\ Pdp(mem, d, v) = Pdp(mem, e, w) /\ Idx(v, 3) = Idx(w, 3)
  BY <1>1, <1>2, EntryUnique DEF Pd
<1>4. Idx(v, 4) = Idx(w, 4) /\ (d = e \/ Idx(v, 4) \in KernelIndex)
  BY <1>1, <1>3, EntryUnique DEF Pdp
<1> QED BY <1>2, <1>3, <1>4

\* The way to a page depends on tables of the levels 2 to 4 only.
LEMMA PathSame ==
    ASSUME NEW mem \in MemType, NEW mem2, NEW kind \in Kinds, Tree(mem, kind),
           \A u \in TablePage : kind[u] \in 2 .. 4 => mem2[u] = mem[u],
           NEW e \in TablePage, NEW w \in Nat, kind[e] = 4
    PROVE  Pt(mem2, e, w) = Pt(mem, e, w)
<1>1. /\ Found(kind, Pdp(mem, e, w), 3) /\ Found(kind, Pd(mem, e, w), 2)
  BY PathKinds0
<1>2. Pdp(mem2, e, w) = Pdp(mem, e, w)
  BY DEF Pdp, Entry
<1>3. Pd(mem2, e, w) = Pd(mem, e, w)
  BY <1>1, <1>2 DEF Pd, Entry, Found
<1> QED BY <1>1, <1>3 DEF Pt, Entry, Found

\* One page of directory d is set: no other page is translated anew, another directory
\* only if it shares the page and its translation.
Sets(mem, mem2, kind, d, v, p) ==
    /\ Walk(mem2, d, v) = p
    /\ \A e \in TablePage, w \in Nat : kind[e] = 4 =>
          \/ Walk(mem2, e, w) = Walk(mem, e, w)
          \/ /\ SamePage(w, v) /\ (e = d \/ Idx(v, 4) \in KernelIndex)
             /\ Walk(mem2, e, w) = p /\ Walk(mem, e, w) = Walk(mem, d, v)

\* Writing the entry of a table of level 1 sets one page.
LEMMA LeafSets ==
    ASSUME NEW mem \in MemType, NEW mem2 \in MemType, NEW kind \in Kinds,
           Tree(mem, kind), OneParent(mem, kind),
           NEW d \in TablePage, kind[d] = 4, NEW v \in Nat, NEW p,
           NEW x \in TablePage, x = Pt(mem, d, v), NEW i \in Index, i = Idx(v, 1),
           mem2[x][i] = p, kind[x] = 1,
           \A u \in TablePage : u # x => mem2[u] = mem[u],
           \A j \in Index : j # i => mem2[x][j] = mem[x][j]
    PROVE  Sets(mem, mem2, kind, d, v, p)
<1>0. None \notin TablePage
  BY NoneApart
<1>1. \A e \in TablePage, w \in Nat : kind[e] = 4 => Pt(mem2, e, w) = Pt(mem, e, w)
  <2>1. \A u \in TablePage : kind[u] \in 2 .. 4 => mem2[u] = mem[u]
    OBVIOUS
  <2> QED BY <2>1, PathSame
<1>2. Walk(mem2, d, v) = p /\ Walk(mem, d, v) = mem[x][i]
  BY <1>0, <1>1, WalkIs DEF Entry
<1>3. ASSUME NEW e \in TablePage, NEW w \in Nat, kind[e] = 4
      PROVE  \/ Walk(mem2, e, w) = Walk(mem, e, w)
             \/ /\ SamePage(w, v) /\ (e = d \/ Idx(v, 4) \in KernelIndex)
                /\ Walk(mem2, e, w) = p /\ Walk(mem, e, w) = Walk(mem, d, v)
  <2>1. PICK j \in Index : j = Idx(w, 1)
    BY IdxIn
  <2>2. PICK y : y = Pt(mem, e, w) /\ y = Pt(mem2, e, w) /\ Found(kind, y, 1)
    BY <1>1, <1>3, PathKinds0
  <2>3. Walk(mem, e, w) = Entry(mem, y, w, 1) /\ Walk(mem2, e, w) = Entry(mem2, y, w, 1)
    BY <2>2, WalkIs
  <2>4. CASE y = None
    BY <2>3, <2>4 DEF Entry
  <2>5. CASE y # None
    <3>1. y \in TablePage /\ Walk(mem, e, w) = mem[y][j] /\ Walk(mem2, e, w) = mem2[y][j]
      BY <2>1, <2>2, <2>3, <2>5 DEF Entry, Found
    <3>2. CASE y = x /\ j = i
      <4>1. /\ Idx(v, 4) = Idx(w, 4) /\ Idx(v, 3) = Idx(w, 3) /\ Idx(v, 2) = Idx(w, 2)
            /\ d = e \/ Idx(v, 4) \in KernelIndex
        <5>1. Pt(mem, d, v) = Pt(mem, e, w) /\ Pt(mem, d, v) # None
          BY <1>0, <2>2, <3>2
        <5> QED BY <1>3, <5>1, PathUnique
      <4>2. Idx(w, 1) = Idx(v, 1)
        BY <2>1, <3>2
      <4>3. SamePage(w, v)
        <5> SUFFICES ASSUME NEW level \in 1 .. 4 PROVE Idx(w, level) = Idx(v, level)
          BY DEF SamePage
        <5>1. level = 1 \/ level = 2 \/ level = 3 \/ level = 4
          OBVIOUS
        <5> QED BY <4>1, <4>2, <5>1
      <4> QED BY <1>2, <3>1, <3>2, <4>1, <4>3
    <3>3. CASE ~(y = x /\ j = i)
      BY <3>1, <3>3
    <3> QED BY <3>2, <3>3
  <2> QED BY <2>4, <2>5
<1> QED BY <1>2, <1>3 DEF Sets

\* What the last step of vmm_map or vmm_unmap does to the shape and to translations.
Outcome(s, r, kind, side, d, v, p) ==
    IF side = 0 THEN Sets(s.mem, r.mem, kind, d, v, p) ELSE Still(s.mem, r.mem, kind)

\* The last store of vmm_map keeps the shape.
LEMMA LeafKeeps ==
    ASSUME NEW s, NEW kind, Good(s, kind), NEW side \in {0, 5},
           NEW d \in TablePage, kind[d] = side + 4, NEW v \in Nat, NEW p,
           NEW x \in TablePage, x = Pt(s.mem, d, v),
           NEW r, VmType(r), Stored(s, r, x, Idx(v, 1), p)
    PROVE  Good(r, kind) /\ r.used = s.used /\ Outcome(s, r, kind, side, d, v, p)
<1>1. PICK i \in Index : i = Idx(v, 1)
  BY IdxIn
<1>2. /\ r.used = s.used /\ r.pool = s.pool /\ r.panic = FALSE
      /\ r.mem = [s.mem EXCEPT ![x][i] = p]
  BY <1>1 DEF Good, VmType, Stored
<1>3. /\ s.mem \in MemType /\ r.mem \in MemType /\ kind \in Kinds /\ kind[PML4] = 4
      /\ Tree(s.mem, kind) /\ OneParent(s.mem, kind) /\ Inside(kind)
      /\ Held(s.pool, s.used, kind) /\ Clean(s.mem, s.used)
  BY DEF Good, Shape, VmType, MemType
<1>4. PICK mem \in MemType, mem2 \in MemType : mem = s.mem /\ mem2 = r.mem
  BY <1>3
<1>5. /\ mem2[x][i] = p /\ \A u \in TablePage : u # x => mem2[u] = mem[u]
      /\ \A j \in Index : j # i => mem2[x][j] = mem[x][j]
  BY <1>2, <1>4 DEF MemType
<1>6. kind[x] = side + 1
  BY <1>3, NoneApart, PathKinds DEF Found
<1>7. /\ \A u \in TablePage : kind[u] \in Upper => mem2[u] = mem[u]
      /\ \A u \in TablePage : kind[u] \in 2 .. 4 => mem2[u] = mem[u]
      /\ kind[x] # 0
  BY <1>5, <1>6 DEF Upper
<1>8. Outcome(s, r, kind, side, d, v, p)
  <2>1. CASE side = 0
    <3>1. kind[x] = 1 /\ kind[d] = 4
      BY <1>6, <2>1
    <3> QED BY <1>1, <1>3, <1>4, <1>5, <2>1, <3>1, LeafSets DEF Outcome
  <2>2. CASE side = 5
    <3>1. \A u \in TablePage : kind[u] \in 1 .. 4 => mem2[u] = mem[u]
      BY <1>5, <1>6, <2>2
    <3> QED BY <1>3, <1>4, <2>2, <3>1, UntouchedStill DEF Outcome
  <2> QED BY <2>1, <2>2
<1>9. Tree(mem2, kind)
  BY <1>3, <1>4, <1>7 DEF Tree
<1>10. OneParent(mem2, kind)
  <2> SUFFICES ASSUME NEW t \in TablePage, NEW u \in TablePage, NEW k \in Index, NEW j \in Index,
                      kind[t] \in 2 .. 4, kind[u] \in 2 .. 4,
                      mem2[t][k] = mem2[u][j], mem2[t][k] # None
               PROVE  k = j /\ (t = u \/ (kind[t] = 4 /\ kind[u] = 4 /\ k \in KernelIndex))
    BY DEF OneParent
  <2>1. mem[t][k] = mem[u][j] /\ mem[t][k] # None
    BY <1>7
  <2> QED BY <1>3, <1>4, <2>1 DEF OneParent
<1>11. Clean(mem2, r.used)
  <2>1. Live(s.pool, s.used, x)
    BY <1>3, <1>7 DEF Held
  <2> SUFFICES ASSUME NEW f \in Frame, Clear, f \notin r.used PROVE mem2[f] = Empty
    BY DEF Clean
  <2>2. f # x
    <3>1. f \in Nat /\ f \notin s.used
      BY <1>2, VmmConstants
    <3>2. x \in s.used \/ x < 0
      BY <2>1 DEF Live
    <3> QED BY <3>1, <3>2
  <2> QED BY <1>2, <1>3, <1>4, <1>5, <2>2, VmmConstants DEF Clean
<1>12. Good(r, kind)
  BY <1>2, <1>3, <1>4, <1>9, <1>10, <1>11 DEF Good, Shape
<1> QED BY <1>2, <1>8, <1>12

\* A call takes frames and tables of the pool, and gives none back.
More(s, r) == s.used \subseteq r.used /\ s.pool <= r.pool

LEMMA AllocMore ==
    ASSUME NEW s, VmType(s)
    PROVE  /\ More(s, pmm_alloc(s)) /\ pmm_alloc(s).pool = s.pool
           /\ More(s, alloc_table(s))
<1>0. s.pool \in Nat
  BY VmmConstants DEF VmType
<1>1. PICK f, l : \/ pmm_alloc(s) = [s EXCEPT !.panic = TRUE]
                  \/ pmm_alloc(s) = [s EXCEPT !.used = @ \cup {f}, !.got = f, !.last = l]
  BY DEF pmm_alloc
<1>2. pmm_alloc(s).pool = s.pool /\ s.used \subseteq pmm_alloc(s).used
  BY <1>1 DEF VmType
<1>3. CASE s.pool < POOL
  <2>1. PICK x \in TablePage : FromPool(s, alloc_table(s), x)
    BY <1>3, alloc_tableTakes
  <2> QED BY <1>0, <1>2, <2>1 DEF FromPool, More
<1>4. CASE ~(s.pool < POOL)
  BY <1>0, <1>2, <1>4 DEF alloc_table, More
<1> QED BY <1>3, <1>4, <1>0, <1>2 DEF More

LEMMA DescendMore ==
    ASSUME NEW s, VmType(s), NEW t, NEW v, NEW level
    PROVE  More(s, Descend(s, t, v, level))
<1>0. PICK a : a = alloc_table(s)
  OBVIOUS
<1>1. More(s, a) /\ VmType(a) /\ s.pool \in Nat
  BY <1>0, alloc_tableType, AllocMore, VmmConstants DEF VmType
<1>2. PICK D : D = Descend(s, t, v, level)
  OBVIOUS
<1>3. PICK e, i : \/ D = [s EXCEPT !.panic = TRUE]
                  \/ D = [s EXCEPT !.got = e]
                  \/ D = a
                  \/ D = Store(a, t, i, a.got)
  BY <1>0, <1>2 DEF Descend
<1>4. Store(a, t, i, a.got).used = a.used /\ Store(a, t, i, a.got).pool = a.pool
  BY <1>1 DEF Store, VmType
<1>5. /\ [s EXCEPT !.panic = TRUE].used = s.used /\ [s EXCEPT !.got = e].used = s.used
      /\ [s EXCEPT !.panic = TRUE].pool = s.pool /\ [s EXCEPT !.got = e].pool = s.pool
  BY DEF VmType
<1>6. (D.used = s.used /\ D.pool = s.pool) \/ (D.used = a.used /\ D.pool = a.pool)
  BY <1>3, <1>4, <1>5
<1> QED BY <1>1, <1>2, <1>6 DEF More

\* A store takes nothing.
LEMMA StoreUsed ==
    ASSUME NEW s, VmType(s), NEW t, NEW i, NEW p
    PROVE  Store(s, t, i, p).used = s.used /\ Store(s, t, i, p).pool = s.pool
BY DEF Store, VmType

\* What a whole call adds.
Adopts(s, kind, r, kind2, side) ==
    /\ \A t \in TablePage :
          kind2[t] = kind[t] \/ (kind[t] = 0 /\ kind2[t] \in (side + 1) .. (side + 3))
    /\ r.used = s.used

Breaks(s, r, kind) == r.panic = TRUE /\ Still(s.mem, r.mem, kind)

\* A call of Descend that goes well is followed by one that may not.
LEMMA DescendBroken ==
    ASSUME NEW s, VmType(s), NEW r, NEW kind, VmType(r), Breaks(s, r, kind), NEW t, NEW v, NEW level
    PROVE  Breaks(s, Descend(r, t, v, level), kind)
<1>1. r.panic = TRUE
  BY DEF Breaks
<1>2. Descend(r, t, v, level) = [r EXCEPT !.panic = TRUE]
  BY <1>1 DEF Descend
<1>3. Descend(r, t, v, level).panic = TRUE /\ Descend(r, t, v, level).mem = r.mem
  BY <1>2 DEF VmType
<1> QED BY <1>3 DEF Breaks

\* A call that stops the machine in the middle.
LEMMA BreaksChain ==
    ASSUME NEW s, NEW r, NEW z, NEW kind, NEW kind2, NEW side,
           Grows(s, kind, r, kind2, side), Breaks(r, z, kind2)
    PROVE  Breaks(s, z, kind)
<1>1. \A t \in TablePage : kind[t] = 4 => kind2[t] = 4
  BY DEF Grows
<1>2. Still(s.mem, r.mem, kind) /\ Still(r.mem, z.mem, kind2)
  BY DEF Grows, Breaks
<1>3. Still(s.mem, z.mem, kind)
  BY <1>1, <1>2, StillChain
<1> QED BY <1>3 DEF Breaks

\* The walk of vmm_map: it ends at the table of level 1 for the page.
Reaches(s, kind, r, side, d, v) ==
    \E kind2 \in Kinds : /\ Good(r, kind2) /\ Grows(s, kind, r, kind2, side)
                         /\ r.got \in TablePage /\ r.got = Pt(r.mem, d, v)
                         /\ kind2[d] = side + 4

\* The three levels of vmm_map one after the other.
LEMMA PathReaches ==
    ASSUME NEW s, NEW kind, Good(s, kind), NEW side \in {0, 5},
           NEW d \in TablePage, kind[d] = side + 4, NEW q \in Int, At(s, q) \in {d, None},
           NEW v \in Nat, NEW pdp, pdp = Descend(s, q, v, 4),
           NEW pd, pd = Descend(pdp, pdp.got, v, 3), NEW pt, pt = Descend(pd, pd.got, v, 2),
           pt.pool < POOL
    PROVE  Breaks(s, pt, kind) \/ Reaches(s, kind, pt, side, d, v)
<1>1. VmType(s) /\ VmType(pdp) /\ VmType(pd) /\ VmType(pt) /\ kind \in Kinds
  BY DescendType DEF Good, Shape
<1>2. s.pool < POOL /\ pdp.pool < POOL /\ pd.pool < POOL
  <2>1. s.pool <= pdp.pool /\ pdp.pool <= pd.pool /\ pd.pool <= pt.pool
    BY <1>1, DescendMore DEF More
  <2>2. s.pool \in Nat /\ pdp.pool \in Nat /\ pd.pool \in Nat /\ pt.pool \in Nat /\ POOL \in Nat
    BY <1>1, VmmConstants DEF VmType
  <2> QED BY <2>1, <2>2
<1>3. 4 \in 2 .. 4 /\ 3 \in 2 .. 4 /\ 2 \in 2 .. 4
      /\ side + 3 = side + 4 - 1 /\ side + 2 = side + 3 - 1 /\ side + 1 = side + 2 - 1
  OBVIOUS
<1>4. None \notin TablePage /\ TablePage \subseteq Int
  BY NoneApart
<1>i. PICK i4 \in Index, i3 \in Index, i2 \in Index :
          i4 = Idx(v, 4) /\ i3 = Idx(v, 3) /\ i2 = Idx(v, 2)
  BY IdxIn
<1>5. Breaks(s, pdp, kind) \/ Descends(s, kind, pdp, side, d, i4, side + 3)
  BY <1>2, <1>3, <1>i, DescendGrows DEF Breaks
<1>6. CASE Breaks(s, pdp, kind)
  BY <1>1, <1>6, DescendBroken
<1>7. CASE Descends(s, kind, pdp, side, d, i4, side + 3)
  <2>1. PICK k1 \in Kinds :
          /\ Good(pdp, k1) /\ Grows(s, kind, pdp, k1, side)
          /\ pdp.got \in TablePage /\ k1[pdp.got] = side + 3 /\ pdp.mem[d][i4] = pdp.got
    BY <1>7 DEF Descends
  <2>2. At(pdp, pdp.got) \in {pdp.got, None} /\ pdp.got \in Int
    <3>1. side + 3 \notin {0, 5, 9, 10} /\ Inside(k1)
      BY <2>1 DEF Good, Shape
    <3>2. PICK t \in TablePage : t = pdp.got /\ k1[t] = side + 3
      BY <2>1
    <3>3. At(pdp, t) = t
      BY <3>1, <3>2, TableAt
    <3> QED BY <1>4, <3>2, <3>3
  <2>3. Breaks(pdp, pd, k1) \/ Descends(pdp, k1, pd, side, pdp.got, i3, side + 2)
    BY <1>2, <1>3, <1>i, <2>1, <2>2, DescendGrows DEF Breaks
  <2>4. CASE Breaks(pdp, pd, k1)
    <3>1. Breaks(s, pd, kind)
      BY <2>1, <2>4, BreaksChain
    <3> QED BY <1>1, <3>1, DescendBroken
  <2>5. CASE Descends(pdp, k1, pd, side, pdp.got, i3, side + 2)
    <3>1. PICK k2 \in Kinds :
            /\ Good(pd, k2) /\ Grows(pdp, k1, pd, k2, side)
            /\ pd.got \in TablePage /\ k2[pd.got] = side + 2 /\ pd.mem[pdp.got][i3] = pd.got
      BY <2>5 DEF Descends
    <3>2. At(pd, pd.got) \in {pd.got, None} /\ pd.got \in Int
      <4>1. side + 2 \notin {0, 5, 9, 10} /\ Inside(k2)
        BY <3>1 DEF Good, Shape
      <4>2. PICK t \in TablePage : t = pd.got /\ k2[t] = side + 2
        BY <3>1
      <4>3. At(pd, t) = t
        BY <4>1, <4>2, TableAt
      <4> QED BY <1>4, <4>2, <4>3
    <3>4. Grows(s, kind, pd, k2, side)
      BY <1>1, <2>1, <3>1, GrowsChain
    <3>5. Breaks(pd, pt, k2) \/ Descends(pd, k2, pt, side, pd.got, i2, side + 1)
      <4>1. 2 \in 2 .. 4 /\ side + 1 = side + 2 - 1 /\ i2 = Idx(v, 2)
        BY <1>i
      <4>2. \/ pt.panic = TRUE /\ Still(pd.mem, pt.mem, k2)
            \/ Descends(pd, k2, pt, side, pd.got, i2, side + 1)
        <5>1. PICK t \in TablePage : t = pd.got
          BY <3>1
        <5>2. t \in Int /\ At(pd, t) \in {t, None} /\ k2[t] = side + 2 /\ pt = Descend(pd, t, v, 2)
          BY <3>1, <3>2, <5>1
        <5>3. Good(pd, k2)
          BY <3>1
        <5>4. \/ pt.panic = TRUE /\ Still(pd.mem, pt.mem, k2)
              \/ Descends(pd, k2, pt, side, t, Idx(v, 2), side + 1)
          BY <1>2, <4>1, <5>2, <5>3, DescendGrows
        <5> QED BY <4>1, <5>1, <5>4
      <4> QED BY <4>2 DEF Breaks
    <3>6. CASE Breaks(pd, pt, k2)
      BY <3>4, <3>6, BreaksChain
    <3>7. CASE Descends(pd, k2, pt, side, pd.got, i2, side + 1)
      <4>1. PICK k3 \in Kinds :
              /\ Good(pt, k3) /\ Grows(pd, k2, pt, k3, side)
              /\ pt.got \in TablePage /\ k3[pt.got] = side + 1 /\ pt.mem[pd.got][i2] = pt.got
        BY <3>7 DEF Descends
      <4>2. Grows(s, kind, pt, k3, side)
        BY <1>1, <3>1, <3>4, <4>1, GrowsChain
      <4>3. kind[d] # 0 /\ k1[pdp.got] # 0 /\ k2[pdp.got] # 0
        <5>1. kind[d] # 0 /\ k1[pdp.got] # 0
          BY <2>1
        <5> QED BY <2>1, <3>1, <5>1 DEF Grows
      <4>4. k1[d] = kind[d] /\ k2[d] = kind[d] /\ k3[d] = kind[d]
        BY <2>1, <3>4, <4>2, <4>3 DEF Grows
      <4>5. pd.mem[d][i4] = pdp.got
        <5>1. k1[d] # 0 /\ pdp.mem[d][i4] # None
          BY <1>4, <2>1, <4>3, <4>4
        <5> QED BY <2>1, <3>1, <5>1 DEF Grows
      <4>6. pt.mem[d][i4] = pdp.got
        <5>1. k2[d] # 0 /\ pd.mem[d][i4] # None
          BY <1>4, <2>1, <4>3, <4>4, <4>5
        <5> QED BY <4>1, <4>5, <5>1 DEF Grows
      <4>7. pt.mem[pdp.got][i3] = pd.got
        <5>1. pd.mem[pdp.got][i3] # None
          BY <1>4, <3>1
        <5> QED BY <2>1, <3>1, <4>1, <4>3, <5>1 DEF Grows
      <4>8. Pdp(pt.mem, d, v) = pdp.got
        BY <1>4, <1>i, <4>6 DEF Pdp, Entry
      <4>9. Pd(pt.mem, d, v) = pd.got
        BY <1>4, <1>i, <2>1, <4>7, <4>8 DEF Pd, Entry
      <4>10. Pt(pt.mem, d, v) = pt.got
        BY <1>4, <1>i, <3>1, <4>1, <4>9 DEF Pt, Entry
      <4>11. k3[d] = side + 4
        BY <4>4
      <4>12. Reaches(s, kind, pt, side, d, v)
        BY <4>1, <4>2, <4>10, <4>11 DEF Reaches
      <4> QED BY <4>12
    <3> QED BY <3>5, <3>6, <3>7
  <2> QED BY <2>3, <2>4, <2>5
<1> QED BY <1>5, <1>6, <1>7

\* The same translations before and after make the outcome the whole call's.
LEMMA OutcomeChain ==
    ASSUME NEW s, NEW r, NEW z, NEW kind, NEW kind2, NEW side \in {0, 5}, NEW d \in TablePage,
           kind[d] = side + 4, NEW v \in Nat, NEW p,
           Grows(s, kind, r, kind2, side), Outcome(r, z, kind2, side, d, v, p)
    PROVE  Outcome(s, z, kind, side, d, v, p)
<1>1. \A t \in TablePage : kind[t] = 4 => kind2[t] = 4
  BY DEF Grows
<1>2. Still(s.mem, r.mem, kind)
  BY DEF Grows
<1>3. CASE side = 5
  BY <1>1, <1>2, <1>3, StillChain DEF Outcome
<1>4. CASE side = 0
  <2>1. Sets(r.mem, z.mem, kind2, d, v, p)
    BY <1>4 DEF Outcome
  <2>2. \A e \in TablePage, w \in Nat : kind[e] = 4 => Walk(r.mem, e, w) = Walk(s.mem, e, w)
    BY <1>2 DEF Still
  <2>3. Walk(r.mem, d, v) = Walk(s.mem, d, v)
    BY <1>4, <2>2
  <2>4. Sets(s.mem, z.mem, kind, d, v, p)
    BY <1>1, <2>1, <2>2, <2>3 DEF Sets
  <2> QED BY <1>4, <2>4 DEF Outcome
<1> QED BY <1>3, <1>4

\* vmm_map, on a directory or on what the loader takes for one.
Maps(s, kind, r, side, d, v, p) ==
    \E kind2 \in Kinds : /\ Good(r, kind2) /\ Adopts(s, kind, r, kind2, side)
                         /\ Outcome(s, r, kind, side, d, v, p)

\* vmm_map keeps the shape and sets one page, or the machine stops.
LEMMA MapKeeps ==
    ASSUME NEW s, NEW kind, Good(s, kind), NEW side \in {0, 5},
           NEW d \in TablePage, kind[d] = side + 4, NEW q \in Int, At(s, q) \in {d, None},
           NEW v \in Nat, NEW p \in EntryValue, NEW r, r = vmm_map(s, q, v, p), r.pool < POOL
    PROVE  Breaks(s, r, kind) \/ Maps(s, kind, r, side, d, v, p)
<1>1. PICK pdp : pdp = Descend(s, q, v, 4)
  OBVIOUS
<1>2. PICK pd : pd = Descend(pdp, pdp.got, v, 3)
  OBVIOUS
<1>3. PICK pt : pt = Descend(pd, pd.got, v, 2)
  OBVIOUS
<1>4. r = IF pt.panic THEN pt ELSE Store(pt, pt.got, Idx(v, 1), p)
  BY <1>1, <1>2, <1>3 DEF vmm_map
<1>5. VmType(s) /\ VmType(pt) /\ VmType(r)
  BY <1>1, <1>2, <1>3, DescendType, vmm_mapType DEF Good
<1>6. r.used = pt.used /\ r.pool = pt.pool
  BY <1>4, <1>5, StoreUsed
<1>7. Breaks(s, pt, kind) \/ Reaches(s, kind, pt, side, d, v)
  BY <1>1, <1>2, <1>3, <1>6, PathReaches
<1>8. CASE Breaks(s, pt, kind)
  BY <1>4, <1>8 DEF Breaks
<1>9. CASE Reaches(s, kind, pt, side, d, v)
  <2>1. PICK k3 \in Kinds :
          /\ Good(pt, k3) /\ Grows(s, kind, pt, k3, side)
          /\ pt.got \in TablePage /\ pt.got = Pt(pt.mem, d, v) /\ k3[d] = side + 4
    BY <1>9 DEF Reaches
  <2>2. pt.panic = FALSE /\ Inside(k3) /\ Tree(pt.mem, k3) /\ pt.mem \in MemType
    BY <2>1 DEF Good, Shape, VmType, MemType
  <2>3. r = Store(pt, pt.got, Idx(v, 1), p)
    BY <1>4, <2>2
  <2>4. At(pt, pt.got) = pt.got /\ pt.got # None
    <3>1. k3[pt.got] = side + 1
      BY <2>1, <2>2, NoneApart, PathKinds DEF Found
    <3>2. side + 1 \notin {0, 5, 9, 10}
      OBVIOUS
    <3> QED BY <2>1, <2>2, <3>1, <3>2, TableAt
  <2>5. Stored(pt, r, pt.got, Idx(v, 1), p)
    BY <2>3, <2>4 DEF Store, Stored
  <2>6. Good(r, k3) /\ Outcome(pt, r, k3, side, d, v, p)
    BY <1>5, <2>1, <2>5, LeafKeeps
  <2>7. Outcome(s, r, kind, side, d, v, p)
    BY <2>1, <2>6, OutcomeChain
  <2>8. Adopts(s, kind, r, k3, side)
    BY <1>6, <2>1 DEF Grows, Adopts
  <2> QED BY <2>6, <2>7, <2>8 DEF Maps
<1> QED BY <1>7, <1>8, <1>9

\* vmm_unmap changes an entry of level 1 or nothing.
LEMMA UnmapKeeps ==
    ASSUME NEW s, NEW kind, Good(s, kind), NEW d \in TablePage, kind[d] = 4,
           NEW v \in Nat, NEW r, r = vmm_unmap(s, d, v)
    PROVE  \/ r = s
           \/ Good(r, kind) /\ r.used = s.used /\ Sets(s.mem, r.mem, kind, d, v, None)
<1>1. PICK pdp, pd, pt : /\ pdp = Peek(s, d, v, 4) /\ pd = Peek(s, pdp, v, 3)
                         /\ pt = Peek(s, pd, v, 2)
  OBVIOUS
<1>2. r = IF Faults(s, d) \/ Faults(s, pdp) \/ Faults(s, pd) THEN [s EXCEPT !.panic = TRUE]
          ELSE IF pt = None THEN s ELSE Store(s, pt, Idx(v, 1), None)
  <2>1. (\E t \in {d, pdp, pd} : Faults(s, t)) <=> Faults(s, d) \/ Faults(s, pdp) \/ Faults(s, pd)
    OBVIOUS
  <2> QED BY <1>1, <2>1 DEF vmm_unmap
<1>3. VmType(s) /\ VmType(r) /\ Inside(kind) /\ s.mem \in MemType /\ kind \in Kinds
      /\ Tree(s.mem, kind)
  BY vmm_unmapType DEF Good, Shape, VmType, MemType
<1>4. /\ Found(kind, d, 4) /\ Found(kind, Pdp(s.mem, d, v), 3)
      /\ Found(kind, Pd(s.mem, d, v), 2) /\ Found(kind, Pt(s.mem, d, v), 1)
  BY <1>3, PathKinds0
<1>5. ASSUME NEW t, NEW k \in 1 .. 4, Found(kind, t, k), t # None
      PROVE  At(s, t) = t
  <2>1. t \in TablePage /\ kind[t] \notin {0, 5, 9, 10}
    BY <1>5 DEF Found
  <2> QED BY <1>3, <2>1, TableAt
<1>6. ASSUME NEW t, NEW k \in 1 .. 4, Found(kind, t, k)
      PROVE  ~Faults(s, t) /\ \A level \in 1 .. 4 : Peek(s, t, v, level) = Entry(s.mem, t, v, level)
  BY <1>5, <1>6 DEF Faults, Peek, Entry
<1>7. pdp = Pdp(s.mem, d, v) /\ ~Faults(s, d)
  BY <1>1, <1>4, <1>6 DEF Pdp
<1>8. pd = Pd(s.mem, d, v) /\ ~Faults(s, pdp)
  BY <1>1, <1>4, <1>6, <1>7 DEF Pd
<1>9. pt = Pt(s.mem, d, v) /\ ~Faults(s, pd)
  BY <1>1, <1>4, <1>6, <1>8 DEF Pt
<1>10. CASE pt = None
  BY <1>2, <1>7, <1>8, <1>9, <1>10
<1>11. CASE pt # None
  <2>1. r = Store(s, pt, Idx(v, 1), None)
    BY <1>2, <1>7, <1>8, <1>9, <1>11
  <2>2. At(s, pt) = pt /\ pt \in TablePage
    BY <1>4, <1>5, <1>9, <1>11 DEF Found
  <2>3. Stored(s, r, pt, Idx(v, 1), None)
    BY <1>11, <2>1, <2>2 DEF Store, Stored
  <2>4. 0 \in {0, 5} /\ kind[d] = 0 + 4
    OBVIOUS
  <2>5. Good(r, kind) /\ r.used = s.used /\ Outcome(s, r, kind, 0, d, v, None)
    BY <1>3, <1>9, <2>2, <2>3, <2>4, LeafKeeps
  <2> QED BY <2>5 DEF Outcome
<1> QED BY <1>10, <1>11

-----------------------------------------------------------------------------
(* Directories *)

\* The two halves of a directory.
LEMMA Halves == KernelIndex \subseteq Index /\ Freed \subseteq Index /\ KernelIndex \cap Freed = {}
<1>1. PICK h \in Nat : h = ENTRIES \div 2
  BY VmmAssumption
<1>2. KernelIndex = h .. (ENTRIES - 1) /\ Freed = 0 .. (h - 1) /\ Index = 0 .. (ENTRIES - 1)
  BY <1>1 DEF KernelIndex, Freed, Index
<1>3. h <= ENTRIES
  BY <1>1, VmmAssumption
<1> QED BY <1>2, <1>3, VmmAssumption

\* A new directory shares the kernel half and has nothing else.
Born(mem, mem2, x) ==
    \A w \in Nat : Walk(mem2, x, w) = IF Idx(w, 4) \in KernelIndex THEN Walk(mem, PML4, w) ELSE None

\* vmm_new_pagedir's loop has filled the new table x.
Copies(a, r, x) ==
    /\ \A t \in TablePage : t # x => r.mem[t] = a.mem[t]
    /\ \A i \in Index : r.mem[x][i] = IF i \in KernelIndex THEN a.mem[PML4][i] ELSE a.mem[x][i]

\* vmm_new_pagedir keeps the shape and every translation.
LEMMA NewDirKeeps ==
    ASSUME NEW s, NEW kind, Good(s, kind), NEW a, VmType(a),
           NEW x \in TablePage, FromPool(s, a, x),
           NEW r, VmType(r), r.pool = a.pool, r.used = a.used, r.panic = a.panic,
           Copies(a, r, x), NEW kind2, Recast(kind, kind2, x, 4)
    PROVE  /\ kind[x] = 0 /\ Good(r, kind2)
           /\ Still(s.mem, r.mem, kind) /\ Born(s.mem, r.mem, x)
<1>1. 4 \in 0 .. 10 /\ Takes(s, a, x) /\ x \notin Frame /\ a.mem[x] = Empty
  BY DEF FromPool
<1>2. kind[x] = 0 /\ Good(a, kind2)
  BY <1>1, TakeKeeps
<1>3. /\ s.mem \in MemType /\ r.mem \in MemType /\ a.mem \in MemType /\ kind \in Kinds /\ kind2 \in Kinds
      /\ kind[PML4] = 4 /\ kind2[PML4] = 4 /\ Tree(s.mem, kind) /\ Inside(kind2) /\ PML4 \in TablePage
  BY <1>2, VmmConstants DEF Good, Shape, VmType, MemType
<1>4. /\ kind2[x] = 4 /\ \A u \in TablePage : u # x => kind2[u] = kind[u]
      /\ PML4 # x
  BY <1>2, <1>3 DEF Kinds, Recast
<1>5. PICK mem \in MemType, old \in MemType, mem2 \in MemType : mem = a.mem /\ old = s.mem /\ mem2 = r.mem
  BY <1>3
<1>6. \A u \in TablePage : u # x => mem2[u] = mem[u] /\ mem2[u] = old[u]
  BY <1>1, <1>5 DEF Takes, Copies
<1>7. \A i \in Index : mem2[x][i] = IF i \in KernelIndex THEN mem[PML4][i] ELSE None
  BY <1>1, <1>5 DEF Empty, Copies
<1>8. Still(old, mem2, kind)
  <2>1. \A u \in TablePage : kind[u] \in 1 .. 4 => mem2[u] = old[u]
    BY <1>2, <1>6
  <2> QED BY <1>3, <1>5, <2>1, UntouchedStill
<1>9. Tree(mem, kind2) /\ OneParent(mem, kind2) /\ Held(a.pool, a.used, kind2) /\ Clean(mem, a.used)
  BY <1>2, <1>5 DEF Good, Shape
<1>10. Tree(mem2, kind2)
  <2> SUFFICES ASSUME NEW t \in TablePage, NEW i \in Index, kind2[t] \in Upper, mem2[t][i] # None
               PROVE  mem2[t][i] \in TablePage /\ kind2[mem2[t][i]] = kind2[t] - 1
    BY DEF Tree
  <2>1. CASE t = x
    <3>1. mem2[x][i] = mem[PML4][i]
      BY <1>7, <2>1
    <3>2. kind2[PML4] \in Upper
      BY <1>3 DEF Upper
    <3>3. mem[PML4][i] \in TablePage /\ kind2[mem[PML4][i]] = kind2[PML4] - 1
      BY <1>3, <1>9, <2>1, <3>1, <3>2 DEF Tree
    <3> QED BY <1>3, <1>4, <2>1, <3>1, <3>3
  <2>2. CASE t # x
    <3>1. mem2[t][i] = mem[t][i]
      BY <1>6, <2>2
    <3> QED BY <1>9, <3>1 DEF Tree
  <2> QED BY <2>1, <2>2
<1>11. OneParent(mem2, kind2)
  <2> SUFFICES ASSUME NEW t \in TablePage, NEW u \in TablePage, NEW i \in Index, NEW j \in Index,
                      kind2[t] \in 2 .. 4, kind2[u] \in 2 .. 4,
                      mem2[t][i] = mem2[u][j], mem2[t][i] # None
               PROVE  i = j /\ (t = u \/ (kind2[t] = 4 /\ kind2[u] = 4 /\ i \in KernelIndex))
    BY DEF OneParent
  <2>0. kind2[PML4] \in 2 .. 4
    BY <1>3
  <2>1. PICK t1 \in TablePage : /\ mem2[t][i] = mem[t1][i] /\ kind2[t1] = kind2[t]
                                /\ t1 = t \/ (t = x /\ i \in KernelIndex /\ t1 = PML4)
    BY <1>3, <1>4, <1>6, <1>7
  <2>2. PICK u1 \in TablePage : /\ mem2[u][j] = mem[u1][j] /\ kind2[u1] = kind2[u]
                                /\ u1 = u \/ (u = x /\ j \in KernelIndex /\ u1 = PML4)
    BY <1>3, <1>4, <1>6, <1>7
  <2>3. mem[t1][i] = mem[u1][j] /\ mem[t1][i] # None /\ kind2[t1] \in 2 .. 4 /\ kind2[u1] \in 2 .. 4
    BY <2>1, <2>2
  <2>4. i = j /\ (t1 = u1 \/ (kind2[t1] = 4 /\ kind2[u1] = 4 /\ i \in KernelIndex))
    BY <1>9, <2>3 DEF OneParent
  <2> QED BY <1>3, <1>4, <2>1, <2>2, <2>4
<1>12. Clean(mem2, r.used)
  <2> SUFFICES ASSUME NEW f \in Frame, Clear, f \notin r.used PROVE mem2[f] = Empty
    BY DEF Clean
  <2>1. f # x
    BY <1>1
  <2> QED BY <1>6, <1>9, <2>1, VmmConstants DEF Clean
<1>13. Good(r, kind2)
  <2>1. r.panic = FALSE
    BY <1>2 DEF Good
  <2> QED BY <1>3, <1>5, <1>9, <1>10, <1>11, <1>12, <2>1 DEF Good, Shape
<1>14. Born(old, mem2, x)
  <2> SUFFICES ASSUME NEW w \in Nat
               PROVE  Walk(mem2, x, w) = IF Idx(w, 4) \in KernelIndex THEN Walk(old, PML4, w) ELSE None
    BY DEF Born
  <2>1. PICK i \in Index : i = Idx(w, 4)
    BY IdxIn
  <2>2. Entry(mem2, x, w, 4) = mem2[x][i] /\ Entry(mem2, PML4, w, 4) = mem[PML4][i]
    BY <1>3, <1>4, <1>6, <2>1, NoneApart DEF Entry
  <2>3. CASE i \in KernelIndex
    <3>1. Entry(mem2, x, w, 4) = Entry(mem2, PML4, w, 4)
      BY <1>7, <2>2, <2>3
    <3>2. Walk(mem2, x, w) = Walk(mem2, PML4, w)
      BY <3>1 DEF Walk
    <3> QED BY <1>3, <1>8, <2>1, <2>3, <3>2 DEF Still
  <2>4. CASE i \notin KernelIndex
    <3>1. Entry(mem2, x, w, 4) = None
      BY <1>7, <2>2, <2>4
    <3>2. Walk(mem2, x, w) = None
      BY <3>1 DEF Walk, Entry
    <3> QED BY <2>1, <2>4, <3>2
  <2> QED BY <2>3, <2>4
<1> QED BY <1>2, <1>5, <1>8, <1>13, <1>14

OfKind(kind, tables, k) == \A t \in tables : t \in TablePage /\ kind[t] = k

\* What vmm_free_pagedir finds in tables of a directory: tables of the next level.
LEMMA ListedKinds ==
    ASSUME NEW kind, Good(vm, kind), NEW k \in 2 .. 4, NEW below, below = k - 1, NEW tables,
           OfKind(kind, tables, k), NEW only \in SUBSET Index
    PROVE  OfKind(kind, Listed(tables, only), below)
<1>1. Inside(kind) /\ Tree(vm.mem, kind) /\ k \in Upper
  BY DEF Good, Shape, Upper
<1>2. \A t \in tables : At(vm, t) = t
  <2> SUFFICES ASSUME NEW t \in tables PROVE At(vm, t) = t
    OBVIOUS
  <2>1. t \in TablePage /\ kind[t] \notin {0, 5, 9, 10}
    BY DEF OfKind
  <2> QED BY <1>1, <2>1, TableAt
<1> SUFFICES ASSUME NEW c \in Listed(tables, only) PROVE c \in TablePage /\ kind[c] = k - 1
  BY DEF OfKind
<1>3. PICK t \in tables, i \in only : c = vm.mem[At(vm, t)][i] /\ c # None
  BY DEF Listed
<1>4. c = vm.mem[t][i] /\ t \in TablePage /\ kind[t] = k /\ i \in Index
  BY <1>2, <1>3 DEF OfKind
<1> QED BY <1>1, <1>3, <1>4 DEF Tree

\* A directory is dropped.
Drops(kind, kind2, d) ==
    /\ \A t \in TablePage : kind2[t] = kind[t] \/ (kind[t] \in 1 .. 4 /\ kind2[t] = 0)
    /\ \A t \in TablePage : kind2[t] = 4 <=> (kind[t] = 4 /\ t # d)

LEMMA FreeDirKeeps ==
    ASSUME NEW s, NEW kind, Good(s, kind), NEW d \in TablePage, kind[d] = 4, d # PML4,
           NEW kind2, Recast(kind, kind2, d, 0)
    PROVE  Good(s, kind2) /\ Drops(kind, kind2, d)
<1>1. /\ kind \in Kinds /\ kind[PML4] = 4 /\ PML4 \in TablePage
      /\ Tree(s.mem, kind) /\ OneParent(s.mem, kind) /\ Inside(kind)
      /\ Held(s.pool, s.used, kind)
  BY VmmConstants DEF Good, Shape
<1>2. kind2 \in Kinds /\ kind2[d] = 0 /\ \A t \in TablePage : t # d => kind2[t] = kind[t]
  BY <1>1 DEF Recast, Kinds
<1>3. Tree(s.mem, kind2)
  <2> SUFFICES ASSUME NEW t \in TablePage, NEW i \in Index, kind2[t] \in Upper, s.mem[t][i] # None
               PROVE  s.mem[t][i] \in TablePage /\ kind2[s.mem[t][i]] = kind2[t] - 1
    BY DEF Tree
  <2>1. t # d /\ kind2[t] = kind[t]
    BY <1>2 DEF Upper
  <2>2. s.mem[t][i] \in TablePage /\ kind[s.mem[t][i]] = kind[t] - 1
    BY <1>1, <2>1 DEF Tree
  <2>3. s.mem[t][i] # d
    BY <2>1, <2>2 DEF Upper
  <2> QED BY <1>2, <2>1, <2>2, <2>3
<1>4. OneParent(s.mem, kind2)
  <2>1. \A t \in TablePage : kind2[t] \in 2 .. 4 => kind[t] = kind2[t]
    BY <1>2
  <2> QED BY <1>1, <2>1 DEF OneParent
<1>5. Held(s.pool, s.used, kind2)
  BY <1>1, <1>2 DEF Held
<1>6. Inside(kind2)
  BY <1>1, <1>2, VmmConstants DEF Inside
<1>7. Good(s, kind2)
  BY <1>1, <1>2, <1>3, <1>4, <1>5, <1>6 DEF Good, Shape
<1> QED BY <1>1, <1>2, <1>7 DEF Drops

-----------------------------------------------------------------------------
(* The steps of the abstract address spaces *)

\* What the mapped state is made of, before and after a step.
LEMMA TranslationNext ==
    /\ DOMAIN Translation = dirs /\ DOMAIN Translation' = dirs'
    /\ \A d \in dirs : DOMAIN Translation[d] = Watched /\ \A w \in Watched : Translation[d][w] = Walk(vm.mem, d, w)
    /\ \A d \in dirs' : DOMAIN Translation'[d] = Watched /\ \A w \in Watched : Translation'[d][w] = Walk(vm'.mem, d, w)
BY DEF Translation

\* The directories in existence are the tables of level 4.
Roots(ds, kind) == \A d \in TablePage : d \in ds <=> kind[d] = 4

\* A step that shows in no translation.
LEMMA SpaceStill ==
    ASSUME Watched \subseteq Nat, dirs \subseteq TablePage, NEW kind, Roots(dirs, kind), dirs' = dirs,
           Still(vm.mem, vm'.mem, kind)
    PROVE  [Space!SpaceNext]_Translation
<1>1. \A d \in dirs, w \in Watched : Walk(vm'.mem, d, w) = Walk(vm.mem, d, w)
  BY DEF Still, Roots
<1>2. Translation' = Translation
  BY <1>1 DEF Translation
<1> QED BY <1>2

\* Pages with the same indices are the same.
Apart(pages) == pages \subseteq Nat /\ \A v, w \in pages : SamePage(v, w) => v = w

\* A step that sets one page.
LEMMA SpaceSets ==
    ASSUME Apart(Watched), dirs \subseteq TablePage, NEW kind, Roots(dirs, kind), dirs' = dirs,
           NEW d \in dirs, NEW v \in Nat, NEW p, Sets(vm.mem, vm'.mem, kind, d, v, p)
    PROVE  [Space!SpaceNext]_Translation
<1> DEFINE old == Translation
           new == Translation'
           changed == {<<e, w, new[e][w]>> : e \in dirs, w \in Watched}
                        \ {<<e, w, old[e][w]>> : e \in dirs, w \in Watched}
<1>1. /\ DOMAIN old = dirs /\ DOMAIN new = dirs
      /\ \A e \in dirs, w \in Watched : old[e][w] = Walk(vm.mem, e, w) /\ new[e][w] = Walk(vm'.mem, e, w)
  BY TranslationNext
<1> HIDE DEF old, new
<1>2. \A c \in changed : /\ c[1] \in dirs /\ c[2] \in Watched /\ c[3] = new[c[1]][c[2]]
                         /\ new[c[1]][c[2]] # old[c[1]][c[2]]
                         /\ c = <<c[1], c[2], c[3]>>
  OBVIOUS
<1>3. \A e \in dirs, w \in Watched : new[e][w] # old[e][w] =>
         /\ SamePage(w, v) /\ (e = d \/ Idx(v, 4) \in KernelIndex)
         /\ new[e][w] = p /\ old[e][w] = Walk(vm.mem, d, v)
  BY <1>1 DEF Sets, Roots, Apart
<1>4. \A w \in Watched : SamePage(w, v) => new[d][w] = p /\ old[d][w] = Walk(vm.mem, d, v)
                                           /\ Idx(w, 4) = Idx(v, 4)
  <2> SUFFICES ASSUME NEW w \in Watched, SamePage(w, v)
               PROVE  new[d][w] = p /\ old[d][w] = Walk(vm.mem, d, v) /\ Idx(w, 4) = Idx(v, 4)
    OBVIOUS
  <2>1. Walk(vm.mem, d, w) = Walk(vm.mem, d, v) /\ Walk(vm'.mem, d, w) = Walk(vm'.mem, d, v)
    BY SameWalk
  <2>2. Walk(vm'.mem, d, v) = p
    BY DEF Sets
  <2> QED BY <1>1, <2>1, <2>2 DEF SamePage
<1>5. ASSUME NEW c \in changed, NEW b \in changed
      PROVE  /\ c[2] = b[2]
             /\ c[1] # d => /\ c[2] \in {w \in Watched : Idx(w, 4) \in KernelIndex}
                            /\ <<d, c[2], c[3]>> \in changed
  <2>1. PICK e \in dirs, w \in Watched : c = <<e, w, p>> /\ SamePage(w, v) /\ new[e][w] = p
            /\ (e = d \/ Idx(v, 4) \in KernelIndex) /\ p # Walk(vm.mem, d, v)
    BY <1>2, <1>3, <1>5
  <2>2. PICK u \in Watched : b[2] = u /\ SamePage(u, v)
    BY <1>2, <1>3, <1>5
  <2>3. SamePage(u, w)
    BY <2>1, <2>2 DEF SamePage
  <2>4. u = w
    BY <2>3 DEF Apart
  <2>5. <<d, w, p>> \in changed
    <3>1. new[d][w] = p /\ old[d][w] # p
      BY <1>4, <2>1
    <3> QED BY <3>1
  <2>6. e # d => Idx(w, 4) \in KernelIndex
    BY <1>4, <2>1
  <2> QED BY <2>1, <2>2, <2>4, <2>5, <2>6
<1>6. Space!Changed = changed
  BY <1>1 DEF Space!Changed, Space!live, old, new
<1> HIDE DEF changed
<1>7. Space!SetPage(d)
  BY <1>1, <1>5, <1>6 DEF Space!SetPage, Space!live, old, new
<1>8. d \in Space!live
  BY <1>1 DEF Space!live, old
<1> QED BY <1>7, <1>8 DEF Space!SpaceNext

\* A step that makes a directory.
LEMMA SpaceCreate ==
    ASSUME Watched \subseteq Nat, dirs \subseteq TablePage, NEW kind, Roots(dirs, kind),
           NEW x \in TablePage, x \notin dirs, dirs' = dirs \cup {x}, PML4 \in dirs,
           Still(vm.mem, vm'.mem, kind), Born(vm.mem, vm'.mem, x)
    PROVE  [Space!SpaceNext]_Translation
<1> DEFINE old == Translation
           new == Translation'
<1>1. /\ DOMAIN old = dirs /\ DOMAIN new = dirs \cup {x}
      /\ \A e \in dirs, w \in Watched : old[e][w] = Walk(vm.mem, e, w) /\ new[e][w] = Walk(vm'.mem, e, w)
      /\ \A w \in Watched : new[x][w] = Walk(vm'.mem, x, w)
  BY TranslationNext
<1> HIDE DEF old, new
<1>2. \A e \in dirs, w \in Watched : new[e][w] = old[e][w]
  BY <1>1 DEF Still, Roots
<1>3. {<<e, w, new[e][w]>> : e \in dirs, w \in Watched}
         \ {<<e, w, old[e][w]>> : e \in dirs, w \in Watched} = {}
  <2> SUFFICES ASSUME NEW c \in {<<e, w, new[e][w]>> : e \in dirs, w \in Watched}
               PROVE  c \in {<<e, w, old[e][w]>> : e \in dirs, w \in Watched}
    OBVIOUS
  <2>1. PICK e \in dirs, w \in Watched : c = <<e, w, new[e][w]>>
    OBVIOUS
  <2>2. c = <<e, w, old[e][w]>>
    BY <1>2, <2>1
  <2> QED BY <2>2
<1>4. Space!Changed = {}
  BY <1>1, <1>3 DEF Space!Changed, Space!live, old, new
<1>5. \A w \in Watched : new[x][w] = IF w \in {u \in Watched : Idx(u, 4) \in KernelIndex}
                                     THEN old[PML4][w] ELSE None
  BY <1>1 DEF Born
<1>6. Space!Create(x)
  BY <1>1, <1>4, <1>5 DEF Space!Create, Space!live, old, new
<1>7. x \in TablePage \ Space!live
  BY <1>1 DEF Space!live, old
<1> QED BY <1>6, <1>7 DEF Space!SpaceNext

\* A step that frees one.
LEMMA SpaceDestroy ==
    ASSUME NEW d \in dirs, d # PML4, dirs' = dirs \ {d}, vm'.mem = vm.mem
    PROVE  [Space!SpaceNext]_Translation
<1>1. Translation' = [e \in dirs \ {d} |-> Translation[e]]
  BY DEF Translation
<1>2. DOMAIN Translation = dirs
  BY DEF Translation
<1>3. Space!Destroy(d) /\ d \in Space!live
  BY <1>1, <1>2 DEF Space!Destroy, Space!live
<1> QED BY <1>3 DEF Space!SpaceNext

-----------------------------------------------------------------------------
(* The inductive invariant *)

\* Pages of the heap have frames of their own, which are not tables of directories.
Backed(mem, kind, done) ==
    /\ \A v \in done : Walk(mem, PML4, v) \in Frame /\ kind[Walk(mem, PML4, v)] \in {9, 10}
    /\ \A v, w \in done : Walk(mem, PML4, v) = Walk(mem, PML4, w) => v = w

OnlyMapped(mem) == \A v \in Nat : Walk(mem, PML4, v) # None => Mapped(v)

\* Of clear memory, a page of the heap holds part of the program only after its segment
\* was copied.
Overwritten(mem, kind, done, n, g) ==
    \A v \in done : Clear /\ kind[Walk(mem, PML4, v)] = 10 =>
        Text # Empty /\ \E j \in 1 .. (n - 1) : Occupies(g.segments[j], v)

TakenKinds(kind, tk) == tk \subseteq Frame /\ \A f \in tk : kind[f] = 5

Fits(mem, kind, ds, done, tk, ld, n, g) ==
    /\ ds \subseteq TablePage /\ Roots(ds, kind)
    /\ Backed(mem, kind, done)
    /\ TakenKinds(kind, tk)
    /\ ld # "failed" => OnlyMapped(mem)
    /\ ld \in {"idle", "segments"} => Overwritten(mem, kind, done, n, g)

\* What is given a kind was nothing before, and is no directory.
Widens(kind, kind2) ==
    \A t \in TablePage : kind2[t] = kind[t] \/ (kind[t] = 0 /\ kind2[t] # 4)

\* What vmm_map adds.
LEMMA AdoptsWidens ==
    ASSUME NEW s, NEW r, NEW kind, NEW kind2, NEW side \in {0, 5}, Adopts(s, kind, r, kind2, side)
    PROVE  Widens(kind, kind2)
BY DEF Adopts, Widens

\* What taking a frame adds.
LEMMA RecastWidens ==
    ASSUME NEW kind \in Kinds, NEW kind2, NEW x \in TablePage, kind[x] = 0,
           NEW k \in 0 .. 10, k # 4, Recast(kind, kind2, x, k)
    PROVE  Widens(kind, kind2) /\ kind2 \in Kinds /\ kind2[x] = k
BY DEF Recast, Widens, Kinds

\* Whether a page is mapped depends on its indices.
LEMMA MappedSame ==
    ASSUME NEW v, NEW w, SamePage(w, v)
    PROVE  (Mapped(v) => Mapped(w)) /\ (InHeap(v) => InHeap(w))
<1>1. \A u : SamePage(v, u) => SamePage(w, u)
  BY DEF SamePage
<1>2. Low(v) => Low(w)
  BY DEF SamePage, Low
<1> QED BY <1>1, <1>2 DEF Mapped, InHeap

\* How the parts carry over when kind is widened and translations are kept.
LEMMA KindParts ==
    ASSUME NEW kind, NEW kind2, Widens(kind, kind2), NEW ds, ds \subseteq TablePage, Roots(ds, kind),
           NEW tk, TakenKinds(kind, tk)
    PROVE  Roots(ds, kind2) /\ TakenKinds(kind2, tk)
<1>1. Roots(ds, kind2)
  BY DEF Widens, Roots
<1>2. TakenKinds(kind2, tk)
  <2> SUFFICES ASSUME NEW f \in tk PROVE kind2[f] = 5
    BY DEF TakenKinds
  <2>1. kind[f] = 5 /\ f \in TablePage
    BY VmmConstants DEF TakenKinds
  <2> QED BY <2>1 DEF Widens
<1> QED BY <1>1, <1>2

LEMMA HeapParts ==
    ASSUME NEW mem, NEW mem2, NEW kind, NEW kind2, Widens(kind, kind2),
           NEW done, \A v \in done : Walk(mem2, PML4, v) = Walk(mem, PML4, v),
           Backed(mem, kind, done)
    PROVE  /\ Backed(mem2, kind2, done)
           /\ \A n, g : Overwritten(mem, kind, done, n, g) => Overwritten(mem2, kind2, done, n, g)
<1>1. \A v \in done : /\ Walk(mem2, PML4, v) = Walk(mem, PML4, v) /\ Walk(mem, PML4, v) \in Frame
                      /\ kind2[Walk(mem, PML4, v)] = kind[Walk(mem, PML4, v)]
                      /\ kind[Walk(mem, PML4, v)] \in {9, 10}
  <2> SUFFICES ASSUME NEW v \in done
               PROVE  /\ Walk(mem2, PML4, v) = Walk(mem, PML4, v) /\ Walk(mem, PML4, v) \in Frame
                      /\ kind2[Walk(mem, PML4, v)] = kind[Walk(mem, PML4, v)]
                      /\ kind[Walk(mem, PML4, v)] \in {9, 10}
    OBVIOUS
  <2>1. Walk(mem, PML4, v) \in Frame /\ kind[Walk(mem, PML4, v)] \in {9, 10}
    BY DEF Backed
  <2>2. Walk(mem, PML4, v) \in TablePage /\ kind[Walk(mem, PML4, v)] # 0
    <3>1. \A k \in {9, 10} : k # 0
      OBVIOUS
    <3>2. Frame \subseteq TablePage
      BY VmmConstants
    <3> QED BY <2>1, <3>1, <3>2
  <2>3. kind2[Walk(mem, PML4, v)] = kind[Walk(mem, PML4, v)]
    BY <2>2 DEF Widens
  <2> QED BY <2>1, <2>3
<1>2. Backed(mem2, kind2, done)
  BY <1>1 DEF Backed
<1>3. ASSUME NEW n, NEW g, Overwritten(mem, kind, done, n, g)
      PROVE  Overwritten(mem2, kind2, done, n, g)
  BY <1>1, <1>3 DEF Overwritten
<1> QED BY <1>2, <1>3

\* The parts fit after a step that shows in no translation.
LEMMA FitStill ==
    ASSUME NEW mem, NEW mem2, NEW kind, NEW kind2, NEW ds, NEW done \in SUBSET Nat, NEW tk, NEW ld, NEW n, NEW g,
           kind[PML4] = 4, Fits(mem, kind, ds, done, tk, ld, n, g),
           Still(mem, mem2, kind), Widens(kind, kind2)
    PROVE  Fits(mem2, kind2, ds, done, tk, ld, n, g)
<1>1. \A v \in Nat : Walk(mem2, PML4, v) = Walk(mem, PML4, v)
  BY VmmConstants DEF Still
<1>2. /\ Backed(mem2, kind2, done)
      /\ Overwritten(mem, kind, done, n, g) => Overwritten(mem2, kind2, done, n, g)
  BY <1>1, HeapParts DEF Fits
<1>3. OnlyMapped(mem) => OnlyMapped(mem2)
  BY <1>1 DEF OnlyMapped
<1>4. Roots(ds, kind2) /\ TakenKinds(kind2, tk)
  BY KindParts DEF Fits
<1> QED BY <1>2, <1>3, <1>4 DEF Fits

\* The parts fit after a step that sets a page outside the heap.
LEMMA FitSets ==
    ASSUME NEW mem, NEW mem2, NEW kind, NEW kind2, NEW ds, NEW done \in SUBSET Nat, NEW tk, NEW ld, NEW n, NEW g,
           kind[PML4] = 4, Fits(mem, kind, ds, done, tk, ld, n, g), Widens(kind, kind2),
           NEW d, NEW v \in Nat, NEW p, Sets(mem, mem2, kind, d, v, p),
           \A w \in done : ~SamePage(w, v), ld # "failed" => Mapped(v)
    PROVE  Fits(mem2, kind2, ds, done, tk, ld, n, g)
<1>1. \A w \in Nat : Walk(mem2, PML4, w) = Walk(mem, PML4, w) \/ SamePage(w, v)
  BY VmmConstants DEF Sets
<1>2. \A w \in done : Walk(mem2, PML4, w) = Walk(mem, PML4, w)
  BY <1>1
<1>3. /\ Backed(mem2, kind2, done)
      /\ Overwritten(mem, kind, done, n, g) => Overwritten(mem2, kind2, done, n, g)
  BY <1>2, HeapParts DEF Fits
<1>4. Mapped(v) /\ OnlyMapped(mem) => OnlyMapped(mem2)
  BY <1>1, MappedSame DEF OnlyMapped
<1>5. Roots(ds, kind2) /\ TakenKinds(kind2, tk)
  BY KindParts DEF Fits
<1> QED BY <1>3, <1>4, <1>5 DEF Fits

\* One more page of the heap.
LEMMA FitHeap ==
    ASSUME NEW mem, NEW kind, NEW ds, NEW done, NEW tk, NEW ld, NEW n, NEW g,
           Fits(mem, kind, ds, done, tk, ld, n, g),
           NEW v, Walk(mem, PML4, v) \in Frame, kind[Walk(mem, PML4, v)] \in {9, 10},
           Clear => kind[Walk(mem, PML4, v)] = 9,
           \A w \in done : Walk(mem, PML4, w) # Walk(mem, PML4, v)
    PROVE  Fits(mem, kind, ds, done \cup {v}, tk, ld, n, g)
<1>1. Backed(mem, kind, done \cup {v})
  BY DEF Backed, Fits
<1>2. Overwritten(mem, kind, done, n, g) => Overwritten(mem, kind, done \cup {v}, n, g)
  BY DEF Overwritten
<1> QED BY <1>1, <1>2 DEF Fits

\* What the arrangement says about indices.
LEMMA ArrangedFacts ==
    ASSUME Arranged
    PROVE  /\ Apart(Watched) /\ Apart(HeapPage)
           /\ HeapPage \subseteq Nat /\ Virt \subseteq Nat
           /\ \A v \in Virt, w \in HeapPage : ~SamePage(w, v)
<1>1. /\ HeapPage \subseteq Address /\ Virt \subseteq Address /\ Watched \subseteq Address
      /\ Virt \cap HeapPage = {}
  BY DEF Arranged, Address
<1>2. \A v \in Address, w \in Address : v \in Nat /\ (SamePage(v, w) => v = w)
  BY IndicesTell, TopDigit
<1> QED BY <1>1, <1>2 DEF Apart

\* The loop of vmm_init and the loops of the loader.
LoadInv ==
    /\ phase \in {"identity", "heap", "run"}
    /\ load \in {"idle", "segments", "loaded", "failed"}
    /\ phase # "run" => load = "idle"
    /\ phase = "identity" => va \in BASE .. (BASE + TOTAL)
    /\ phase = "heap" => va \in KHEAP_START .. (KHEAP_START + KHEAP_PAGES)
    /\ seg \in Nat \ {0} /\ page \in Nat
    /\ load = "idle" => seg = 1 /\ page = 0
    /\ load = "segments" => program \in Programs
    /\ load = "segments" /\ seg <= Len(program.segments) /\ Segment.type = PT_LOAD =>
          /\ page <= Pages(Segment)
          /\ \A k \in 0 .. (page - 1) : InHeap(PageOf(Segment, k))

\* The pages of the heap that vmm_init has mapped.
Done == IF phase = "identity" THEN {}
        ELSE IF phase = "heap" THEN {v \in HeapPage : v < va} ELSE HeapPage

\* As long as the machine runs, the tables have their shape and the parts fit.
FitsNow(kind) == Fits(vm.mem, kind, dirs, Done, taken, load, seg, program)
AddressInv ==
    phase # "panic" => LoadInv /\ \E kind \in Kinds : Good(vm, kind) /\ FitsNow(kind)

-----------------------------------------------------------------------------
(* The steps of vmm_init and of clients *)

\* What a call leaves behind.
LEMMA BecomesGood ==
    ASSUME NEW s, VmType(s), Becomes(s)
    PROVE  /\ vm'.mem = s.mem /\ vm'.used = s.used /\ vm'.pool = s.pool
           /\ s.panic = TRUE => phase' = "panic"
           /\ \A kind : Good(s, kind) => Good(vm, kind)' /\ phase' = phase
<1>1. vm' = [s EXCEPT !.got = None] /\ phase' = IF s.panic THEN "panic" ELSE phase
  BY DEF Becomes
<1>2. /\ vm'.mem = s.mem /\ vm'.used = s.used /\ vm'.pool = s.pool /\ vm'.panic = s.panic
  BY <1>1 DEF VmType
<1>3. VmType(vm)'
  BY <1>1 DEF VmType
<1>4. ASSUME NEW kind, Good(s, kind) PROVE Good(vm, kind)' /\ phase' = phase
  <2>1. s.panic = FALSE /\ Shape(s.mem, s.pool, s.used, kind)
    BY <1>4 DEF Good
  <2>2. Shape(vm'.mem, vm'.pool, vm'.used, kind)
    BY <1>2, <2>1
  <2>3. Good(vm, kind)'
    BY <1>2, <1>3, <2>1, <2>2 DEF Good, Shape
  <2> QED BY <1>1, <2>1, <2>3
<1> QED BY <1>1, <1>2, <1>4

\* Pages of the heap.
LEMMA DoneIn == Arranged => Done \in SUBSET Nat /\ Done \subseteq HeapPage
BY ArrangedFacts DEF Done

\* After the step: the machine has stopped, or the tables fit again.
FitsAgain(kind, d, v, p) ==
    \/ phase' = "panic"
    \/ /\ phase' = phase
       /\ Sets(vm.mem, vm'.mem, kind, d, v, p)
       /\ \E kind2 \in Kinds :
             /\ Widens(kind, kind2) /\ Good(vm, kind2)'
             /\ Fits(vm'.mem, kind2, dirs, Done, taken, load, seg, program)

\* A call on directory d in the middle of which the machine may stop.
LEMMA MapFits ==
    ASSUME Arranged, NEW kind \in Kinds, NEW a, a.mem = vm.mem, Good(a, kind), FitsNow(kind),
           NEW d \in dirs, NEW v \in Nat, NEW p \in EntryValue,
           \A w \in Done : ~SamePage(w, v), load # "failed" => Mapped(v),
           Becomes(vmm_map(a, d, v, p)), vm'.pool < POOL, dirs' = dirs
    PROVE  FitsAgain(kind, d, v, p) /\ [Space!SpaceNext]_Translation
<1>1. PICK s : s = vmm_map(a, d, v, p)
  OBVIOUS
<1>2. VmType(a) /\ VmType(s) /\ Becomes(s) /\ kind[PML4] = 4 /\ Inside(kind)
  BY <1>1, vmm_mapType DEF Good, Shape
<1>3. vm'.mem = s.mem /\ vm'.pool = s.pool /\ (s.panic = TRUE => phase' = "panic")
  BY <1>2, BecomesGood
<1>4. dirs \subseteq TablePage /\ Roots(dirs, kind)
  BY DEF FitsNow, Fits
<1>5. d \in TablePage /\ d \in Int /\ kind[d] = 4 /\ At(a, d) \in {d, None}
  <2>1. d \in TablePage /\ kind[d] = 4
    BY <1>4 DEF Roots
  <2>2. kind[d] \notin {0, 5, 9, 10}
    BY <2>1
  <2> QED BY <1>2, <2>1, <2>2, NoneApart, TableAt
<1>6. Breaks(a, s, kind) \/ Maps(a, kind, s, 0, d, v, p)
  <2>1. 0 \in {0, 5} /\ kind[d] = 0 + 4
    BY <1>5
  <2> QED BY <1>1, <1>3, <1>5, <2>1, MapKeeps
<1>7. Apart(Watched) /\ Watched \subseteq Nat
  BY ArrangedFacts DEF Apart
<1>8. CASE Breaks(a, s, kind)
  BY <1>3, <1>4, <1>7, <1>8, SpaceStill DEF Breaks, FitsAgain
<1>9. CASE Maps(a, kind, s, 0, d, v, p)
  <2>1. PICK kind2 \in Kinds : /\ Good(s, kind2) /\ Adopts(a, kind, s, kind2, 0)
                               /\ Sets(a.mem, s.mem, kind, d, v, p)
    BY <1>9 DEF Maps, Outcome
  <2>2. Sets(vm.mem, vm'.mem, kind, d, v, p)
    BY <1>3, <2>1
  <2>3. Good(vm, kind2)' /\ phase' = phase
    BY <1>2, <2>1, BecomesGood
  <2>4. Widens(kind, kind2)
    <3>1. 0 \in {0, 5}
      OBVIOUS
    <3> QED BY <2>1, <3>1, AdoptsWidens
  <2>5. Fits(vm'.mem, kind2, dirs, Done, taken, load, seg, program)
    BY <1>2, <2>2, <2>4, DoneIn, FitSets DEF FitsNow
  <2>6. [Space!SpaceNext]_Translation
    BY <1>4, <1>7, <2>2, SpaceSets
  <2> QED BY <2>2, <2>3, <2>4, <2>5, <2>6 DEF FitsAgain
<1> QED BY <1>6, <1>8, <1>9

\* The first loop of vmm_init maps frames at their own addresses.
LEMMA MapIdentityStep ==
    ASSUME Arranged, AddressInv, vm'.pool < POOL, MapIdentity,
           UNCHANGED <<load, program, seg, page, taken>>
    PROVE  AddressInv' /\ [Space!SpaceNext]_Translation
<1>1. /\ phase = "identity" /\ va < BASE + TOTAL /\ Becomes(vmm_map(vm, PML4, va, va))
      /\ va' = va + 1 /\ dirs' = dirs
  BY DEF MapIdentity, BeforeEnd
<1>2. LoadInv
  BY <1>1 DEF AddressInv
<1>3. PICK kind \in Kinds : Good(vm, kind) /\ FitsNow(kind)
  BY <1>1 DEF AddressInv
<1>4. va \in Frame /\ va \in Nat /\ va \in EntryValue
  BY <1>1, <1>2, VmmConstants DEF LoadInv, Frame
<1>5. PML4 \in dirs
  BY <1>3, VmmConstants DEF FitsNow, Fits, Roots, Good, Shape
<1>6. Mapped(va)
  <2>1. SamePage(va, va)
    BY DEF SamePage
  <2> QED BY <1>4, <2>1 DEF Mapped
<1>7. Done = {} /\ (phase' = phase => Done' = {})
  BY <1>1 DEF Done
<1>8. FitsAgain(kind, PML4, va, va) /\ [Space!SpaceNext]_Translation
  BY <1>1, <1>3, <1>4, <1>5, <1>6, <1>7, MapFits
<1>9. CASE phase' = "panic"
  BY <1>8, <1>9 DEF AddressInv
<1>10. CASE phase' = phase
  <2>1. PICK kind2 \in Kinds : /\ Good(vm, kind2)'
                               /\ Fits(vm'.mem, kind2, dirs, Done, taken, load, seg, program)
    BY <1>1, <1>8, <1>10 DEF FitsAgain
  <2>2. FitsNow(kind2)'
    BY <1>1, <1>7, <1>10, <2>1 DEF FitsNow
  <2>3. LoadInv'
    <3>1. va' \in BASE .. (BASE + TOTAL)
      BY <1>1, <1>2, VmmConstants DEF LoadInv
    <3> QED BY <1>1, <1>2, <1>10, <3>1 DEF LoadInv, Segment
  <2> QED BY <1>8, <2>1, <2>2, <2>3 DEF AddressInv
<1> QED BY <1>8, <1>9, <1>10 DEF FitsAgain

\* It ends, and no page of the heap is mapped yet.
LEMMA StartHeapStep ==
    ASSUME Arranged, AddressInv, StartHeap, UNCHANGED <<load, program, seg, page, taken>>
    PROVE  AddressInv' /\ [Space!SpaceNext]_Translation
<1>1. phase = "identity" /\ phase' = "heap" /\ va' = KHEAP_START /\ vm' = vm /\ dirs' = dirs
  BY DEF StartHeap
<1>2. LoadInv
  BY <1>1 DEF AddressInv
<1>3. PICK kind \in Kinds : Good(vm, kind) /\ FitsNow(kind)
  BY <1>1 DEF AddressInv
<1>4. Done = {} /\ Done' = {}
  <2>1. \A v \in HeapPage : ~(v < KHEAP_START)
    BY VmmAssumption DEF HeapPage
  <2> QED BY <1>1, <2>1 DEF Done
<1>5. FitsNow(kind)' /\ Good(vm, kind)'
  BY <1>1, <1>3, <1>4 DEF FitsNow, Good, VmType
<1>6. LoadInv'
  <2>1. va' \in KHEAP_START .. (KHEAP_START + KHEAP_PAGES)
    BY <1>1, VmmAssumption
  <2> QED BY <1>1, <1>2, <2>1 DEF LoadInv, Segment
<1>7. Translation' = Translation
  BY <1>1 DEF Translation
<1> QED BY <1>5, <1>6, <1>7 DEF AddressInv

\* The second loop ends, and all are.
LEMMA InitDoneStep ==
    ASSUME Arranged, AddressInv, InitDone, UNCHANGED <<load, program, seg, page, taken>>
    PROVE  AddressInv' /\ [Space!SpaceNext]_Translation
<1>1. /\ phase = "heap" /\ phase' = "run" /\ va = KHEAP_START + KHEAP_PAGES /\ vm' = vm
      /\ dirs' = dirs
  BY DEF InitDone
<1>2. LoadInv
  BY <1>1 DEF AddressInv
<1>3. PICK kind \in Kinds : Good(vm, kind) /\ FitsNow(kind)
  BY <1>1 DEF AddressInv
<1>4. Done = HeapPage /\ Done' = HeapPage
  <2>1. \A v \in HeapPage : v < va
    BY <1>1, VmmAssumption DEF HeapPage
  <2> QED BY <1>1, <2>1 DEF Done
<1>5. FitsNow(kind)' /\ Good(vm, kind)'
  BY <1>1, <1>3, <1>4 DEF FitsNow, Good, VmType
<1>6. LoadInv'
  BY <1>1, <1>2 DEF LoadInv, Segment
<1>7. Translation' = Translation
  BY <1>1 DEF Translation
<1> QED BY <1>5, <1>6, <1>7 DEF AddressInv

\* vmm_map gives nothing back.
LEMMA MapMore ==
    ASSUME NEW s, VmType(s), NEW q, NEW v, NEW p
    PROVE  More(s, vmm_map(s, q, v, p))
<1>1. PICK pdp : pdp = Descend(s, q, v, 4)
  OBVIOUS
<1>2. PICK pd : pd = Descend(pdp, pdp.got, v, 3)
  OBVIOUS
<1>3. PICK pt : pt = Descend(pd, pd.got, v, 2)
  OBVIOUS
<1>4. VmType(pdp) /\ VmType(pd) /\ VmType(pt)
  BY <1>1, <1>2, <1>3, DescendType
<1>5. More(s, pdp) /\ More(pdp, pd) /\ More(pd, pt)
  BY <1>1, <1>2, <1>3, <1>4, DescendMore
<1>a. s.pool \in Nat /\ pdp.pool \in Nat /\ pd.pool \in Nat /\ pt.pool \in Nat
  BY <1>4, VmmConstants DEF VmType
<1>6. vmm_map(s, q, v, p) = IF pt.panic THEN pt ELSE Store(pt, pt.got, Idx(v, 1), p)
  BY <1>1, <1>2, <1>3 DEF vmm_map
<1>7. vmm_map(s, q, v, p).used = pt.used /\ vmm_map(s, q, v, p).pool = pt.pool
  BY <1>4, <1>6, StoreUsed
<1> QED BY <1>5, <1>a, <1>7 DEF More

\* The second loop of vmm_init gives a page of the heap a frame of its own.
LEMMA MapHeapStep ==
    ASSUME Arranged, AddressInv, vm'.pool < POOL, MapHeap,
           UNCHANGED <<load, program, seg, page, taken>>
    PROVE  AddressInv' /\ [Space!SpaceNext]_Translation
<1>0. PICK a : a = pmm_alloc(vm)
  OBVIOUS
<1>1. /\ phase = "heap" /\ va < KHEAP_START + KHEAP_PAGES /\ va' = va + 1 /\ dirs' = dirs
      /\ Becomes(IF a.panic THEN a ELSE vmm_map(a, PML4, va, a.got))
  BY <1>0 DEF MapHeap
<1>2. LoadInv
  BY <1>1 DEF AddressInv
<1>3. PICK kind \in Kinds : Good(vm, kind) /\ FitsNow(kind)
  BY <1>1 DEF AddressInv
<1>4. va \in HeapPage /\ va \in Nat /\ KHEAP_START \in Nat /\ KHEAP_PAGES \in Nat
  BY <1>1, <1>2, VmmAssumption DEF LoadInv, HeapPage
<1>5. VmType(vm) /\ VmType(a) /\ vm.panic = FALSE /\ kind[PML4] = 4
  BY <1>0, <1>3, pmm_allocType DEF Good, Shape
<1>6. CASE Fails(vm, a)
  <2>1. Becomes(a) /\ a.panic = TRUE /\ a.mem = vm.mem
    BY <1>1, <1>6 DEF Fails
  <2>2. phase' = "panic" /\ vm'.mem = vm.mem
    BY <1>5, <2>1, BecomesGood
  <2>3. Translation' = Translation
    BY <1>1, <2>2 DEF Translation
  <2> QED BY <2>2, <2>3 DEF AddressInv
<1>7. ASSUME NEW x \in Frame, Takes(vm, a, x), a.mem = vm.mem
      PROVE  AddressInv' /\ [Space!SpaceNext]_Translation
  <2>1. a.panic = FALSE /\ a.got = x /\ x \in TablePage /\ x \in EntryValue
    BY <1>5, <1>7, VmmConstants DEF Takes
  <2>2. Becomes(vmm_map(a, PML4, va, x))
    BY <1>1, <2>1
  <2>3. PICK k \in {9, 10} : k = IF Clear THEN 9 ELSE 10
    OBVIOUS
  <2>4. PICK kind1 : Recast(kind, kind1, x, k)
    BY DEF Recast
  <2>5. k \in 0 .. 10 /\ k # 4 /\ k \in {0, 5, 9, 10} /\ (10 \notin Upper)
    BY DEF Upper
  <2>a. a.mem[x] = Empty \/ k \notin Upper
    <3>1. Clear => a.mem[x] = Empty
      BY <1>3, <1>7 DEF Good, Shape, Clean, Takes, Live
    <3> QED BY <2>3, <2>5, <3>1
  <2>6. kind[x] = 0 /\ Good(a, kind1)
    BY <1>3, <1>5, <1>7, <2>4, <2>5, <2>a, TakeKeeps
  <2>7. Widens(kind, kind1) /\ kind1 \in Kinds /\ kind1[x] = k
    BY <2>1, <2>4, <2>5, <2>6, RecastWidens
  <2>8. FitsNow(kind1)
    <3>1. Still(vm.mem, vm.mem, kind)
      BY DEF Still
    <3> QED BY <1>3, <1>5, <2>7, <3>1, DoneIn, FitStill DEF FitsNow
  <2>9. PML4 \in dirs
    BY <2>6, <2>8, VmmConstants DEF FitsNow, Fits, Roots, Good, Shape
  <2>10. Mapped(va) /\ \A w \in Done : ~SamePage(w, va) /\ w # va
    <3>1. SamePage(va, va)
      BY DEF SamePage
    <3>2. \A w \in Done : w \in HeapPage /\ w < va /\ w \in Nat
      BY <1>1, DoneIn DEF Done
    <3>3. \A w \in Done : w # va
      BY <1>4, <3>2
    <3>4. \A w \in Done : ~SamePage(w, va)
      BY <1>4, <3>2, <3>3, ArrangedFacts DEF Apart
    <3> QED BY <1>4, <3>1, <3>3, <3>4, ArrangedFacts DEF Mapped, InHeap
  <2>11. FitsAgain(kind1, PML4, va, x) /\ [Space!SpaceNext]_Translation
    BY <1>1, <1>4, <1>7, <2>1, <2>2, <2>6, <2>7, <2>8, <2>9, <2>10, MapFits
  <2>12. CASE phase' = "panic"
    BY <2>11, <2>12 DEF AddressInv
  <2>13. CASE phase' = phase
    <3>1. PICK kind2 \in Kinds : /\ Widens(kind1, kind2) /\ Good(vm, kind2)'
                                 /\ Fits(vm'.mem, kind2, dirs, Done, taken, load, seg, program)
      BY <1>1, <2>11, <2>13 DEF FitsAgain
    <3>2. Sets(vm.mem, vm'.mem, kind1, PML4, va, x)
      BY <1>1, <2>11, <2>13 DEF FitsAgain
    <3>3. Walk(vm'.mem, PML4, va) = x /\ kind2[x] \in {9, 10} /\ (Clear => kind2[x] = 9)
      <4>1. kind1[x] # 0 /\ kind1[x] = k
        BY <2>7
      <4>2. kind2[x] = k
        BY <2>1, <3>1, <4>1 DEF Widens
      <4> QED BY <2>3, <3>2, <4>2 DEF Sets
    <3>4. \A w \in Done : Walk(vm'.mem, PML4, w) # x
      <4> SUFFICES ASSUME NEW w \in Done PROVE Walk(vm'.mem, PML4, w) # x
        OBVIOUS
      <4>1. kind[Walk(vm.mem, PML4, w)] \in {9, 10}
        BY <1>3 DEF FitsNow, Fits, Backed
      <4>2. Walk(vm.mem, PML4, w) # x
        BY <2>6, <4>1
      <4>3. kind1[PML4] = 4 /\ w \in Nat /\ PML4 \in TablePage
        BY <2>6, DoneIn, VmmConstants DEF Good, Shape
      <4>4. Walk(vm'.mem, PML4, w) = Walk(vm.mem, PML4, w)
        BY <2>10, <3>2, <4>3 DEF Sets
      <4> QED BY <4>2, <4>4
    <3>5. Fits(vm'.mem, kind2, dirs, Done \cup {va}, taken, load, seg, program)
      BY <1>7, <3>1, <3>3, <3>4, FitHeap
    <3>6. Done' = Done \cup {va}
      <4>1. Done = {v \in HeapPage : v < va} /\ Done' = {v \in HeapPage : v < va + 1}
        BY <1>1, <2>13 DEF Done
      <4>2. \A v \in HeapPage : v \in Nat
        BY ArrangedFacts
      <4>3. \A v \in HeapPage : v < va + 1 <=> v < va \/ v = va
        BY <1>4, <4>2
      <4> QED BY <1>4, <4>1, <4>3
    <3>7. FitsNow(kind2)'
      BY <1>1, <3>5, <3>6 DEF FitsNow
    <3>8. LoadInv'
      <4>1. va' \in KHEAP_START .. (KHEAP_START + KHEAP_PAGES)
        BY <1>1, <1>2, <1>4 DEF LoadInv
      <4> QED BY <1>1, <1>2, <2>13, <4>1 DEF LoadInv, Segment
    <3> QED BY <2>11, <3>1, <3>7, <3>8 DEF AddressInv
  <2> QED BY <2>11, <2>12, <2>13 DEF FitsAgain
<1> QED BY <1>0, <1>5, <1>6, <1>7, pmm_allocTakes

\* Once vmm_init is done.
LEMMA RunDone == phase = "run" => Done = HeapPage
BY DEF Done

\* Steps of clients leave the loops alone.
LEMMA LoadStays ==
    ASSUME LoadInv, phase = "run", phase' = "run", UNCHANGED <<load, program, seg, page>>
    PROVE  LoadInv'
BY DEF LoadInv, Segment

\* Nobody runs any more.
LEMMA Stopped == phase' = "panic" => AddressInv'
BY DEF AddressInv

\* A client maps a page outside the heap.
LEMMA MapPageStep ==
    ASSUME Arranged, AddressInv, vm'.pool < POOL, load = "failed",
           NEW d \in dirs, NEW v \in Virt, NEW p \in Target, MapPage(d, v, p),
           UNCHANGED <<load, program, seg, page, taken>>
    PROVE  AddressInv' /\ [Space!SpaceNext]_Translation
<1>1. phase = "run" /\ Becomes(vmm_map(vm, d, v, p)) /\ va' = va /\ dirs' = dirs
  BY DEF MapPage
<1>2. LoadInv
  BY <1>1 DEF AddressInv
<1>3. PICK kind \in Kinds : Good(vm, kind) /\ FitsNow(kind)
  BY <1>1 DEF AddressInv
<1>4. p \in EntryValue /\ v \in Nat
  BY ContentAssumption, ArrangedFacts DEF EntryValue
<1>5. \A w \in Done : ~SamePage(w, v)
  BY <1>1, RunDone, ArrangedFacts
<1>6. vm.mem = vm.mem
  OBVIOUS
<1>7. FitsAgain(kind, d, v, p) /\ [Space!SpaceNext]_Translation
  BY <1>1, <1>3, <1>4, <1>5, <1>6, MapFits
<1>8. CASE phase' = phase
  <2>1. PICK kind2 \in Kinds : /\ Good(vm, kind2)'
                               /\ Fits(vm'.mem, kind2, dirs, Done, taken, load, seg, program)
    BY <1>1, <1>7, <1>8 DEF FitsAgain
  <2>2. Done' = Done
    BY <1>1, <1>8 DEF Done
  <2>3. FitsNow(kind2)'
    BY <1>1, <2>1, <2>2 DEF FitsNow
  <2>4. LoadInv'
    BY <1>1, <1>2, <1>8, LoadStays
  <2> QED BY <1>7, <2>1, <2>3, <2>4 DEF AddressInv
<1> QED BY <1>7, <1>8, Stopped DEF FitsAgain

\* A client unmaps such a page.
LEMMA UnmapPageStep ==
    ASSUME Arranged, AddressInv, load = "failed",
           NEW d \in dirs, NEW v \in Virt, UnmapPage(d, v),
           UNCHANGED <<load, program, seg, page, taken>>
    PROVE  AddressInv' /\ [Space!SpaceNext]_Translation
<1>0. PICK s : s = vmm_unmap(vm, d, v)
  OBVIOUS
<1>1. phase = "run" /\ Becomes(s) /\ va' = va /\ dirs' = dirs
  BY <1>0 DEF UnmapPage
<1>2. LoadInv
  BY <1>1 DEF AddressInv
<1>3. PICK kind \in Kinds : Good(vm, kind) /\ FitsNow(kind)
  BY <1>1 DEF AddressInv
<1>4. /\ v \in Nat /\ VmType(vm) /\ VmType(s) /\ kind[PML4] = 4 /\ Apart(Watched) /\ Watched \subseteq Nat
      /\ dirs \subseteq TablePage /\ Roots(dirs, kind) /\ d \in TablePage /\ kind[d] = 4
  BY <1>0, <1>3, ArrangedFacts, vmm_unmapType DEF Good, Shape, Apart, FitsNow, Fits, Roots
<1>5. vm'.mem = s.mem /\ (s.panic = TRUE => phase' = "panic")
  BY <1>1, <1>4, BecomesGood
<1>6. \/ s = vm
      \/ Good(s, kind) /\ Sets(vm.mem, s.mem, kind, d, v, None)
  BY <1>0, <1>3, <1>4, UnmapKeeps
<1>7. ASSUME Good(s, kind), Fits(s.mem, kind, dirs, Done, taken, load, seg, program)
      PROVE  AddressInv'
  <2>1. Good(vm, kind)' /\ phase' = phase
    BY <1>1, <1>4, <1>7, BecomesGood
  <2>2. Done' = Done
    BY <1>1, <2>1 DEF Done
  <2>3. FitsNow(kind)'
    BY <1>1, <1>5, <1>7, <2>2 DEF FitsNow
  <2>4. LoadInv'
    BY <1>1, <1>2, <2>1, LoadStays
  <2> QED BY <2>1, <2>3, <2>4 DEF AddressInv
<1>8. CASE s = vm
  <2>1. AddressInv'
    BY <1>3, <1>7, <1>8 DEF FitsNow
  <2>2. Translation' = Translation
    BY <1>1, <1>5, <1>8 DEF Translation
  <2> QED BY <2>1, <2>2
<1>9. CASE Good(s, kind) /\ Sets(vm.mem, s.mem, kind, d, v, None)
  <2>1. Widens(kind, kind)
    BY DEF Widens
  <2>2. \A w \in Done : ~SamePage(w, v)
    BY <1>1, RunDone, ArrangedFacts
  <2>3. Fits(s.mem, kind, dirs, Done, taken, load, seg, program)
    BY <1>3, <1>4, <1>9, <2>1, <2>2, DoneIn, FitSets DEF FitsNow
  <2>4. [Space!SpaceNext]_Translation
    BY <1>1, <1>4, <1>5, <1>9, SpaceSets
  <2> QED BY <1>7, <1>9, <2>3, <2>4
<1> QED BY <1>6, <1>8, <1>9

\* A client makes a directory.
LEMMA NewDirStep ==
    ASSUME Arranged, AddressInv, vm'.pool < POOL, load = "failed", vmm_new_pagedir,
           UNCHANGED <<load, program, seg, page, taken>>
    PROVE  AddressInv' /\ [Space!SpaceNext]_Translation
<1>0. PICK a, t : a = alloc_table(vm) /\ t = At(a, a.got)
  OBVIOUS
<1>1. /\ phase = "run" /\ va' = va
      /\ IF a.panic \/ t = None
         THEN Becomes([a EXCEPT !.panic = TRUE]) /\ dirs' = dirs
         ELSE /\ Becomes([a EXCEPT !.mem[t] = [i \in Index |->
                               IF i \in Copied THEN a.mem[PML4][i] ELSE @[i]]])
              /\ dirs' = dirs \cup {a.got}
  BY <1>0 DEF vmm_new_pagedir
<1>2. LoadInv
  BY <1>1 DEF AddressInv
<1>3. PICK kind \in Kinds : Good(vm, kind) /\ FitsNow(kind)
  BY <1>1 DEF AddressInv
<1>4. /\ VmType(vm) /\ VmType(a) /\ kind[PML4] = 4 /\ Watched \subseteq Nat /\ vm.panic = FALSE
      /\ dirs \subseteq TablePage /\ Roots(dirs, kind) /\ PML4 \in TablePage /\ PML4 \in dirs
      /\ Inside(kind) /\ Tree(vm.mem, kind) /\ vm.mem \in MemType
  BY <1>0, <1>3, ArrangedFacts, alloc_tableType, VmmConstants
     DEF Good, Shape, Apart, FitsNow, Fits, Roots, VmType, MemType
<1>5. vm.pool < POOL
  <2>1. PICK y, c : \/ vm' = [[a EXCEPT !.panic = TRUE] EXCEPT !.got = None]
                   \/ vm' = [[a EXCEPT !.mem[y] = c] EXCEPT !.got = None]
    BY <1>1 DEF Becomes
  <2>2. vm'.pool = a.pool
    BY <1>4, <2>1 DEF VmType
  <2>3. vm.pool <= a.pool /\ vm.pool \in Nat /\ a.pool \in Nat /\ POOL \in Nat
    BY <1>0, <1>4, AllocMore, VmmConstants DEF More, VmType
  <2> QED BY <2>2, <2>3
<1>6. PICK x \in TablePage : FromPool(vm, a, x)
  BY <1>0, <1>4, <1>5, alloc_tableTakes
<1>7. /\ Takes(vm, a, x) /\ a.got = x /\ kind[x] = 0 /\ x \in Int /\ a.panic = FALSE
  BY <1>3, <1>4, <1>6, NoneApart DEF FromPool, Good, Shape, Held, Takes
<1>8. t = x /\ x # None
  <2>1. x < 0
    BY <1>6, VmmAssumption DEF FromPool, TablePage, Image, PML4, PDP, PD, PT, PoolTable
  <2> QED BY <1>0, <1>7, <2>1, NoneApart DEF At
<1>9. ~(a.panic \/ t = None)
  BY <1>7, <1>8
<1> DEFINE c == [i \in Index |-> IF i \in Copied THEN a.mem[PML4][i] ELSE a.mem[x][i]]
<1>10. PICK r : r = [a EXCEPT !.mem[x] = c]
  OBVIOUS
<1>11. Becomes(r) /\ dirs' = dirs \cup {x}
  <2>1. r = [a EXCEPT !.mem[x] = [i \in Index |->
                              IF i \in Copied THEN a.mem[PML4][i] ELSE @[i]]]
    BY <1>10
  <2> HIDE DEF c
  <2> QED BY <1>1, <1>9, <1>7, <1>8, <2>1
<1>12. c \in [Index -> EntryValue] /\ \A i \in Index : c[i] = IF i \in KernelIndex THEN a.mem[PML4][i] ELSE a.mem[x][i]
  BY <1>4 DEF VmType, Copied
<1> HIDE DEF c
<1>13. /\ r.mem = [a.mem EXCEPT ![x] = c] /\ r.pool = a.pool /\ r.used = a.used
      /\ r.panic = a.panic
  BY <1>4, <1>10 DEF VmType
<1>14. VmType(r)
  <2>parts. PICK m \in [TablePage -> [Index -> EntryValue]], pl \in 0 .. POOL,
                 u \in SUBSET Frame, l \in Frame : \E g, y : a = VmRec(m, pl, u, l, g, y)
    BY <1>4, VmParts
  <2>1. PICK g, y : a = VmRec(m, pl, u, l, g, y)
    BY <2>parts
  <2>2. PICK m2 \in [TablePage -> [Index -> EntryValue]] : m2 = [m EXCEPT ![x] = c]
    BY <1>12
  <2>3. r = VmRec(m2, pl, u, l, g, y)
    BY <1>10, <2>1, <2>2 DEF VmRec
  <2> QED BY <2>3, VmBuilt
<1>15. Copies(a, r, x)
  BY <1>4, <1>12, <1>13 DEF VmType, Copies
<1>16. vm'.mem = r.mem /\ vm'.used = r.used
  BY <1>11, <1>14, BecomesGood
<1>17. PICK kind2 : Recast(kind, kind2, x, 4)
  BY DEF Recast
<1>18. /\ Good(r, kind2) /\ Still(vm.mem, r.mem, kind) /\ Born(vm.mem, r.mem, x)
  BY <1>3, <1>4, <1>6, <1>13, <1>14, <1>15, <1>17, NewDirKeeps
<1>19. x \notin dirs
  BY <1>4, <1>7 DEF Roots
<1>20. [Space!SpaceNext]_Translation
  BY <1>4, <1>11, <1>16, <1>18, <1>19, SpaceCreate
<1>21. Good(vm, kind2)' /\ phase' = phase
  BY <1>11, <1>14, <1>18, BecomesGood
<1>22. /\ kind2 \in Kinds /\ kind2[x] = 4 /\ \A u \in TablePage : u # x => kind2[u] = kind[u]
  BY <1>17 DEF Recast, Kinds
<1>23. FitsNow(kind2)'
  <2>1. \A v \in Nat : Walk(vm'.mem, PML4, v) = Walk(vm.mem, PML4, v)
    BY <1>4, <1>16, <1>18 DEF Still
  <2>2. Backed(vm.mem, kind, HeapPage) /\ TakenKinds(kind, taken)
    BY <1>1, <1>3, RunDone DEF FitsNow, Fits
  <2>3. Backed(vm'.mem, kind2, HeapPage)
    <3>1. \A v \in HeapPage : /\ Walk(vm.mem, PML4, v) \in Frame /\ Walk(vm.mem, PML4, v) # x
                              /\ kind[Walk(vm.mem, PML4, v)] \in {9, 10}
                              /\ Walk(vm'.mem, PML4, v) = Walk(vm.mem, PML4, v)
      BY <1>7, <2>1, <2>2, ArrangedFacts DEF Backed
    <3>2. Frame \subseteq TablePage
      BY VmmConstants
    <3>3. \A v \in HeapPage : kind2[Walk(vm.mem, PML4, v)] \in {9, 10}
      BY <1>22, <3>1, <3>2
    <3> QED BY <2>2, <3>1, <3>3 DEF Backed
  <2>4. TakenKinds(kind2, taken)
    <3>1. \A f \in taken : f \in TablePage /\ f # x
      BY <1>7, <2>2, VmmConstants DEF TakenKinds
    <3> QED BY <1>22, <2>2, <3>1 DEF TakenKinds
  <2>5. Roots(dirs', kind2) /\ dirs' \subseteq TablePage
    BY <1>4, <1>11, <1>22 DEF Roots
  <2>6. Done' = HeapPage
    BY <1>1, <1>21 DEF Done
  <2> QED BY <2>3, <2>4, <2>5, <2>6 DEF FitsNow, Fits
<1>24. LoadInv'
  BY <1>1, <1>2, <1>21, LoadStays
<1> QED BY <1>20, <1>21, <1>22, <1>23, <1>24 DEF AddressInv

\* A client frees one, and nothing else changes: its tables lie in the image.
LEMMA FreeDirStep ==
    ASSUME Arranged, AddressInv, NEW d \in dirs, vmm_free_pagedir(d),
           UNCHANGED <<load, program, seg, page, taken>>
    PROVE  AddressInv' /\ [Space!SpaceNext]_Translation
<1>1. PICK pdps, pds, pts : /\ pdps = Listed({d}, Freed) /\ pds = Listed(pdps, Index)
                            /\ pts = Listed(pds, Index)
  OBVIOUS
<1>2. PICK freed : freed = {d} \cup pdps \cup pds \cup pts
  OBVIOUS
<1>3. /\ phase = "run" /\ d # PML4 /\ va' = va
      /\ \/ Becomes([vm EXCEPT !.panic = TRUE]) /\ dirs' = dirs
         \/ Becomes([vm EXCEPT !.used = @ \ freed]) /\ dirs' = dirs \ {d}
  BY <1>1, <1>2 DEF vmm_free_pagedir
<1>4. LoadInv
  BY <1>3 DEF AddressInv
<1>5. PICK kind \in Kinds : Good(vm, kind) /\ FitsNow(kind)
  BY <1>3 DEF AddressInv
<1>6. /\ VmType(vm) /\ Inside(kind) /\ vm.panic = FALSE /\ Watched \subseteq Nat
      /\ dirs \subseteq TablePage /\ Roots(dirs, kind) /\ d \in TablePage /\ kind[d] = 4
  BY <1>5, ArrangedFacts DEF Good, Shape, FitsNow, Fits, Roots, Apart
<1>7. CASE Becomes([vm EXCEPT !.panic = TRUE]) /\ dirs' = dirs
  <2>1. PICK s : s = [vm EXCEPT !.panic = TRUE]
    OBVIOUS
  <2>2. VmType(s) /\ s.panic = TRUE /\ s.mem = vm.mem
    BY <1>6, <2>1, VmMarked DEF VmType
  <2>3. phase' = "panic" /\ vm'.mem = vm.mem
    BY <1>7, <2>1, <2>2, BecomesGood
  <2>4. Translation' = Translation
    BY <1>7, <2>3 DEF Translation
  <2> QED BY <2>3, <2>4, Stopped
<1>8. CASE Becomes([vm EXCEPT !.used = @ \ freed]) /\ dirs' = dirs \ {d}
  <2>1. \A c \in freed : c \notin Frame
    <3>1. 4 \in 2 .. 4 /\ 3 \in 2 .. 4 /\ 2 \in 2 .. 4 /\ 4 - 1 = 3 /\ 3 - 1 = 2 /\ 2 - 1 = 1
      OBVIOUS
    <3>2. Freed \in SUBSET Index /\ Index \in SUBSET Index
      BY Halves
    <3>3. OfKind(kind, {d}, 4)
      BY <1>6 DEF OfKind
    <3>4. OfKind(kind, pdps, 3)
      BY <1>1, <1>5, <3>1, <3>2, <3>3, ListedKinds
    <3>5. OfKind(kind, pds, 2)
      BY <1>1, <1>5, <3>1, <3>2, <3>4, ListedKinds
    <3>6. OfKind(kind, pts, 1)
      BY <1>1, <1>5, <3>1, <3>2, <3>5, ListedKinds
    <3>7. \A c \in freed : kind[c] \in 1 .. 4
      BY <1>2, <3>3, <3>4, <3>5, <3>6 DEF OfKind
    <3> QED BY <1>6, <3>7 DEF Inside
  <2>2. [vm EXCEPT !.used = @ \ freed] = vm
    <3>1. vm.used \ freed = vm.used
      BY <1>6, <2>1 DEF VmType
    <3> QED BY <1>6, <3>1 DEF VmType
  <2>3. Becomes(vm)
    BY <1>8, <2>2
  <2>4. PICK kind2 : Recast(kind, kind2, d, 0)
    BY DEF Recast
  <2>5. Good(vm, kind2) /\ Drops(kind, kind2, d)
    BY <1>3, <1>5, <1>6, <2>4, FreeDirKeeps
  <2>6. Good(vm, kind2)' /\ phase' = phase /\ vm'.mem = vm.mem
    BY <1>6, <2>3, <2>5, BecomesGood
  <2>7. [Space!SpaceNext]_Translation
    BY <1>3, <1>8, <2>6, SpaceDestroy
  <2>8. kind2 \in Kinds
    BY <2>5 DEF Good, Shape
  <2>9. FitsNow(kind2)'
    <3>1. Backed(vm.mem, kind, HeapPage) /\ TakenKinds(kind, taken) /\ Done' = HeapPage
      BY <1>3, <1>5, <2>6, RunDone DEF FitsNow, Fits, Done
    <3>2. \A t \in Frame : kind[t] \in 5 .. 10 => kind2[t] = kind[t]
      BY <2>5, VmmConstants DEF Drops
    <3>3. \A k \in {9, 10} : k \in 5 .. 10
      OBVIOUS
    <3>4. \A v \in HeapPage : kind2[Walk(vm.mem, PML4, v)] = kind[Walk(vm.mem, PML4, v)]
      BY <3>1, <3>2, <3>3 DEF Backed
    <3>5. Backed(vm.mem, kind2, HeapPage)
      BY <3>1, <3>4 DEF Backed
    <3>6. TakenKinds(kind2, taken)
      BY <3>1, <3>2 DEF TakenKinds
    <3>7. Roots(dirs', kind2) /\ dirs' \subseteq TablePage
      BY <1>6, <1>8, <2>5 DEF Roots, Drops
    <3>8. OnlyMapped(vm.mem) \/ load = "failed"
      BY <1>5 DEF FitsNow, Fits
    <3>9. load \in {"idle", "segments"} => Overwritten(vm.mem, kind2, HeapPage, seg, program)
      <4>1. Overwritten(vm.mem, kind, HeapPage, seg, program) \/ load \notin {"idle", "segments"}
        BY <1>3, <1>5, RunDone DEF FitsNow, Fits
      <4> QED BY <3>4, <4>1 DEF Overwritten
    <3> QED BY <2>6, <3>1, <3>5, <3>6, <3>7, <3>8, <3>9 DEF FitsNow, Fits
  <2>10. LoadInv'
    BY <1>3, <1>4, <2>6, LoadStays
  <2> QED BY <2>6, <2>7, <2>8, <2>9, <2>10 DEF AddressInv
<1> QED BY <1>3, <1>7, <1>8

-----------------------------------------------------------------------------
(* The steps of the loader *)

\* A segment has a first page and numbers of pages.
LEMMA SegmentPages ==
    ASSUME NEW s \in SegmentType
    PROVE  /\ Pages(s) \in Nat /\ Touched(s) \in Nat /\ Extent(s) \in Nat
           /\ Pages(s) <= Extent(s) /\ Touched(s) <= Extent(s)
           /\ \A k \in Nat : PageOf(s, k) \in Nat
<1>1. s.vaddr \in Nat /\ s.memsz \in Nat /\ s.filesz \in Nat
  BY DEF SegmentType
<1>2. PAGE_SIZE \in Nat \ {0} /\ WORD \in Nat \ {0} /\ WORD % PAGE_SIZE = 0
  BY LoaderAssumption
<1>3. PageStart(s) \in Nat
  BY <1>1, <1>2, DivIn DEF PageStart
<1>4. PICK n \in Nat : n = s.vaddr + s.memsz + PAGE_SIZE - 1
  BY <1>1, <1>2
<1>5. PICK e \in Nat : e = n % WORD
  BY <1>2, DivIn
<1>6. PageEnd(s) \in Nat
  <2>1. e \div PAGE_SIZE \in Nat
    BY <1>2, DivIn
  <2> QED BY <1>4, <1>5, <2>1 DEF PageEnd
<1>7. PICK q \in Nat : q = WORD \div PAGE_SIZE /\ WORD = PAGE_SIZE * q
  <2>1. PICK q \in Nat, r \in 0 .. (PAGE_SIZE - 1) :
            q = WORD \div PAGE_SIZE /\ r = WORD % PAGE_SIZE /\ WORD = PAGE_SIZE * q + r
    BY <1>2, DivIn
  <2>2. r = 0 /\ PAGE_SIZE * q \in Nat
    BY <1>2, <2>1
  <2> QED BY <2>1, <2>2
<1>8. q # 0
  <2>1. q = 0 => PAGE_SIZE * q = 0
    BY <1>2
  <2> QED BY <1>2, <1>7, <2>1
<1>9. PICK z \in Int : z = PageEnd(s) - PageStart(s)
  BY <1>3, <1>6
<1>10. z % q \in Nat
  BY <1>8
<1>11. Pages(s) \in Nat
  BY <1>7, <1>9, <1>10 DEF Pages
<1>12. ASSUME NEW k \in Nat PROVE PageOf(s, k) \in Nat
  <2>1. PICK n2 \in Nat : n2 = PageStart(s) + k
    BY <1>3
  <2>2. n2 % q \in Nat
    BY <1>8
  <2> QED BY <1>7, <2>1, <2>2 DEF PageOf
<1>13. Touched(s) \in Nat
  <2>1. PICK b \in Nat : b = Bytes(s)
    BY <1>1 DEF Bytes
  <2>2. PICK o \in Nat : o = s.vaddr % PAGE_SIZE
    BY <1>1, <1>2, DivIn
  <2>3. CASE b = 0
    BY <2>1, <2>3 DEF Touched
  <2>4. CASE b # 0
    <3>1. PICK n2 \in Nat : n2 = o + b - 1
      BY <2>4
    <3>2. PICK e2 \in Nat : e2 = n2 \div PAGE_SIZE
      BY <1>2, DivIn
    <3>3. Touched(s) = e2 + 1
      BY <2>1, <2>2, <2>4, <3>1, <3>2 DEF Touched
    <3> QED BY <3>3
  <2> QED BY <2>3, <2>4
<1>14. Extent(s) \in Nat /\ Pages(s) <= Extent(s) /\ Touched(s) <= Extent(s)
  BY <1>11, <1>13 DEF Extent
<1> QED BY <1>11, <1>12, <1>13, <1>14

\* What the arrangement says about a segment of a program.
LEMMA ArrangedSegments ==
    ASSUME Arranged, NEW g \in Programs, NEW n \in Nat \ {0}, n <= Len(g.segments)
    PROVE  /\ Len(g.segments) \in Nat /\ n \in 1 .. Len(g.segments)
           /\ g.segments[n] \in SegmentType
           /\ g.segments[n].type = PT_LOAD => \A k \in 0 .. (Extent(g.segments[n]) - 1) :
                   \/ InHeap(PageOf(g.segments[n], k))
                   \/ \E b \in 0 .. k : ~Mapped(PageOf(g.segments[n], b))
<1>1. g.segments \in Seq(SegmentType)
  BY DEF Arranged
<1>2. Len(g.segments) \in Nat /\ n \in 1 .. Len(g.segments) /\ g.segments[n] \in SegmentType
  BY <1>1
<1> QED BY <1>2 DEF Arranged

\* The loop over its pages starts within its bounds.
LEMMA SegmentStarts ==
    ASSUME Arranged, NEW g \in Programs, NEW n \in Nat \ {0}, n <= Len(g.segments)
    PROVE  0 <= Pages(g.segments[n])
BY ArrangedSegments, SegmentPages

\* Steps that leave the machine's memory alone.
LEMMA elf_checkStep ==
    ASSUME Arranged, AddressInv, elf_check
    PROVE  AddressInv' /\ [Space!SpaceNext]_Translation
<1>1. /\ phase = "run" /\ load = "idle" /\ phase' = "run" /\ vm' = vm /\ dirs' = dirs /\ taken' = taken
      /\ seg' = seg /\ page' = page
      /\ \/ load' = "failed"
         \/ load' = "segments" /\ program' \in Programs
  BY DEF elf_check, vmmVars
<1>2. LoadInv
  BY <1>1 DEF AddressInv
<1>3. PICK kind \in Kinds : Good(vm, kind) /\ FitsNow(kind)
  BY <1>1 DEF AddressInv
<1>4. seg = 1 /\ page = 0
  BY <1>1, <1>2 DEF LoadInv
<1>5. Done = HeapPage /\ Done' = HeapPage
  BY <1>1 DEF Done
<1>6. Overwritten(vm.mem, kind, HeapPage, 1, program')
  <2>1. Overwritten(vm.mem, kind, HeapPage, 1, program)
    BY <1>1, <1>3, <1>4, <1>5 DEF FitsNow, Fits
  <2>2. 1 .. (1 - 1) = {}
    OBVIOUS
  <2> QED BY <2>1, <2>2 DEF Overwritten
<1>7. FitsNow(kind)'
  BY <1>1, <1>3, <1>4, <1>5, <1>6 DEF FitsNow, Fits
<1>8. Good(vm, kind)'
  BY <1>1, <1>3 DEF Good, VmType
<1>9. LoadInv'
  <2>1. CASE load' = "failed"
    BY <1>1, <1>2, <2>1 DEF LoadInv
  <2>2. CASE load' = "segments" /\ program' \in Programs
    <3>1. 1 <= Len(program'.segments) => 0 <= Pages(program'.segments[1])
      BY <2>2, SegmentStarts
    <3>2. Segment' = program'.segments[1]
      BY <1>1, <1>4 DEF Segment
    <3>3. /\ 1 <= Len(program'.segments) => 0 <= Pages(Segment')
          /\ \A k \in 0 .. (0 - 1) : InHeap(PageOf(Segment', k))
      BY <3>1, <3>2
    <3> QED BY <1>1, <1>2, <1>4, <2>2, <3>3 DEF LoadInv
  <2> QED BY <1>1, <2>1, <2>2
<1>10. Translation' = Translation
  BY <1>1 DEF Translation
<1> QED BY <1>7, <1>8, <1>9, <1>10 DEF AddressInv

\* The loop over the segments goes to the next.
LEMMA LoopGoesOn ==
    ASSUME Arranged, LoadInv, phase = "run", phase' = "run", load = "segments", load' = load,
           program' = program, seg' = seg + 1, page' = 0
    PROVE  LoadInv'
<1>1. program \in Programs /\ seg' \in Nat \ {0}
  BY DEF LoadInv
<1>2. seg' <= Len(program'.segments) => 0 <= Pages(program'.segments[seg'])
  BY <1>1, SegmentStarts
<1>3. Segment' = program'.segments[seg']
  BY DEF Segment
<1>4. /\ seg' <= Len(program'.segments) => 0 <= Pages(Segment')
      /\ \A k \in 0 .. (0 - 1) : InHeap(PageOf(Segment', k))
  BY <1>2, <1>3
<1> QED BY <1>1, <1>4 DEF LoadInv

\* Copied segments stay copied.
LEMMA OverwrittenMore ==
    ASSUME NEW mem, NEW kind, NEW done, NEW n \in Nat, NEW g, Overwritten(mem, kind, done, n, g)
    PROVE  Overwritten(mem, kind, done, n + 1, g)
<1>1. \A j \in 1 .. (n - 1) : j \in 1 .. (n + 1 - 1)
  OBVIOUS
<1> QED BY <1>1 DEF Overwritten

\* A header that is not loaded.
LEMMA skip_segmentStep ==
    ASSUME Arranged, AddressInv, skip_segment
    PROVE  AddressInv' /\ [Space!SpaceNext]_Translation
<1>1. /\ phase = "run" /\ load = "segments" /\ phase' = "run" /\ vm' = vm /\ dirs' = dirs /\ taken' = taken
      /\ load' = load /\ program' = program /\ seg' = seg + 1 /\ page' = 0
  BY DEF skip_segment, Loading, next_segment, vmmVars
<1>2. LoadInv
  BY <1>1 DEF AddressInv
<1>3. PICK kind \in Kinds : Good(vm, kind) /\ FitsNow(kind)
  BY <1>1 DEF AddressInv
<1>4. Done = HeapPage /\ Done' = HeapPage
  BY <1>1 DEF Done
<1>5. Overwritten(vm.mem, kind, HeapPage, seg + 1, program)
  <2>1. Overwritten(vm.mem, kind, HeapPage, seg, program) /\ seg \in Nat
    BY <1>1, <1>2, <1>3, <1>4 DEF FitsNow, Fits, LoadInv
  <2> QED BY <2>1, OverwrittenMore
<1>6. FitsNow(kind)'
  BY <1>1, <1>3, <1>4, <1>5 DEF FitsNow, Fits
<1>7. Good(vm, kind)'
  BY <1>1, <1>3 DEF Good, VmType
<1>8. LoadInv'
  BY <1>1, <1>2, LoopGoesOn
<1>9. Translation' = Translation
  BY <1>1 DEF Translation
<1> QED BY <1>6, <1>7, <1>8, <1>9 DEF AddressInv

\* The end of the loop.
LEMMA elf_loadedStep ==
    ASSUME Arranged, AddressInv, elf_loaded
    PROVE  AddressInv' /\ [Space!SpaceNext]_Translation
<1>1. /\ phase = "run" /\ load = "segments" /\ load' = "loaded" /\ phase' = "run" /\ vm' = vm
      /\ dirs' = dirs /\ taken' = taken /\ program' = program /\ seg' = seg /\ page' = page
  BY DEF elf_loaded, vmmVars
<1>2. LoadInv
  BY <1>1 DEF AddressInv
<1>3. PICK kind \in Kinds : Good(vm, kind) /\ FitsNow(kind)
  BY <1>1 DEF AddressInv
<1>4. Done' = Done
  BY <1>1 DEF Done
<1>5. FitsNow(kind)' /\ Good(vm, kind)'
  BY <1>1, <1>3, <1>4 DEF FitsNow, Fits, Good, VmType
<1>6. LoadInv'
  BY <1>1, <1>2 DEF LoadInv
<1>7. Translation' = Translation
  BY <1>1 DEF Translation
<1> QED BY <1>5, <1>6, <1>7 DEF AddressInv

\* Nothing happens.
LEMMA LoaderStutters ==
    ASSUME AddressInv, UNCHANGED loaderVars
    PROVE  AddressInv' /\ [Space!SpaceNext]_Translation
<1>1. /\ phase' = phase /\ vm' = vm /\ va' = va /\ dirs' = dirs /\ taken' = taken /\ load' = load
      /\ program' = program /\ seg' = seg /\ page' = page
  BY DEF loaderVars, vmmVars
<1>2. Translation' = Translation
  BY <1>1 DEF Translation
<1>3. CASE phase = "panic"
  BY <1>1, <1>2, <1>3, Stopped
<1>4. CASE phase # "panic"
  <2>1. LoadInv
    BY <1>4 DEF AddressInv
  <2>2. PICK kind \in Kinds : Good(vm, kind) /\ FitsNow(kind)
    BY <1>4 DEF AddressInv
  <2>3. Done' = Done
    BY <1>1 DEF Done
  <2>4. FitsNow(kind)' /\ Good(vm, kind)'
    BY <1>1, <2>2, <2>3 DEF FitsNow, Fits, Good, VmType
  <2>5. LoadInv'
    BY <1>1, <2>1 DEF LoadInv, Segment
  <2> QED BY <1>2, <2>4, <2>5 DEF AddressInv
<1> QED BY <1>3, <1>4

\* proc_create_elf takes a frame, and writes where nothing is mapped.
LEMMA proc_create_elfStep ==
    ASSUME Arranged, AddressInv, proc_create_elf
    PROVE  AddressInv' /\ [Space!SpaceNext]_Translation
<1>0. PICK a : a = pmm_alloc(vm)
  OBVIOUS
<1>b. PICK b : b = (At(a, KERNEL_BASE + a.got) = None)
  OBVIOUS
<1>1. /\ phase = "run" /\ load = "loaded" /\ dirs' = dirs /\ taken' = taken /\ load' = load
      /\ program' = program /\ seg' = seg /\ page' = page /\ va' = va
      /\ Becomes(IF a.panic THEN a ELSE [a EXCEPT !.panic = b])
  BY <1>0, <1>b DEF proc_create_elf
<1>2. LoadInv
  BY <1>1 DEF AddressInv
<1>3. PICK kind \in Kinds : Good(vm, kind) /\ FitsNow(kind)
  BY <1>1 DEF AddressInv
<1>4. VmType(vm) /\ VmType(a) /\ vm.panic = FALSE /\ kind[PML4] = 4
  BY <1>0, <1>3, pmm_allocType DEF Good, Shape
<1>5. PICK s : s = IF a.panic THEN a ELSE [a EXCEPT !.panic = b]
  OBVIOUS
<1>6. VmType(s) /\ Becomes(s) /\ s.mem = a.mem /\ s.used = a.used /\ s.pool = a.pool
  BY <1>1, <1>4, <1>5, VmMarked DEF VmType
<1>7. vm'.mem = a.mem /\ vm'.used = a.used /\ (s.panic = TRUE => phase' = "panic")
  BY <1>6, BecomesGood
<1>8. a.mem = vm.mem
  BY <1>0, <1>4, pmm_allocTakes DEF Fails
<1>9. Translation' = Translation
  BY <1>1, <1>7, <1>8 DEF Translation
<1>10. CASE s.panic = TRUE
  BY <1>7, <1>9, <1>10, Stopped
<1>11. CASE s.panic # TRUE
  <2>1. PICK x \in Frame : Takes(vm, a, x)
    BY <1>0, <1>4, <1>5, <1>11, pmm_allocTakes DEF Fails
  <2>2. s.panic = FALSE
    BY <1>4, <1>5, <1>b, <1>11, <2>1 DEF Takes, VmType
  <2>3. PICK kind2 : Recast(kind, kind2, x, 0)
    BY DEF Recast
  <2>4. kind[x] = 0 /\ Good(a, kind2)
    <3>1. 0 \in 0 .. 10 /\ 0 \notin Upper /\ 0 \in {0, 5, 9, 10}
      BY DEF Upper
    <3> QED BY <1>3, <1>4, <2>1, <2>3, <3>1, TakeKeeps
  <2>5. kind2 = kind
    BY <2>3, <2>4 DEF Recast, Kinds
  <2>6. Good(s, kind)
    BY <1>6, <2>2, <2>4, <2>5 DEF Good
  <2>7. Good(vm, kind)' /\ phase' = phase
    BY <1>6, <2>6, BecomesGood
  <2>8. Done' = Done
    BY <1>1, <2>7 DEF Done
  <2>9. FitsNow(kind)'
    BY <1>1, <1>3, <1>7, <1>8, <2>8 DEF FitsNow, Fits
  <2>10. LoadInv'
    BY <1>1, <1>2, <2>7, LoadStays
  <2> QED BY <1>9, <2>7, <2>9, <2>10 DEF AddressInv
<1> QED BY <1>10, <1>11

\* The page the loader passes as a directory: it is not mapped, or it is a page of the
\* heap that nothing was copied to.
LEMMA LoadsInHeap ==
    ASSUME Arranged, Clear, LoadInv, NEW kind, FitsNow(kind), phase = "run", load = "segments",
           seg <= Len(program.segments), Segment.type = PT_LOAD, page < Pages(Segment),
           NEW q, q = PageOf(Segment, page), NEW h, h = Walk(vm.mem, PML4, q), h # None
    PROVE  h \in Frame /\ kind[h] = 9 /\ InHeap(q)
<1>1. program \in Programs /\ seg \in Nat \ {0} /\ page \in Nat /\ Segment = program.segments[seg]
  BY DEF LoadInv, Segment
<1>2. /\ Segment \in SegmentType /\ seg \in 1 .. Len(program.segments)
      /\ \A k \in 0 .. (Extent(Segment) - 1) : \/ InHeap(PageOf(Segment, k))
                                               \/ \E b \in 0 .. k : ~Mapped(PageOf(Segment, b))
  BY <1>1, ArrangedSegments
<1>3. /\ Pages(Segment) \in Nat /\ Extent(Segment) \in Nat /\ Pages(Segment) <= Extent(Segment)
      /\ q \in Nat
  BY <1>1, <1>2, SegmentPages
<1>4. page \in 0 .. (Extent(Segment) - 1) /\ q \in Nat
  BY <1>1, <1>3
<1>5. Mapped(q)
  <2>1. OnlyMapped(vm.mem)
    BY DEF FitsNow, Fits
  <2> QED BY <1>4, <2>1 DEF OnlyMapped
<1>6. InHeap(q)
  <2>1. \A k \in 0 .. (page - 1) : Mapped(PageOf(Segment, k))
    BY DEF LoadInv, Mapped
  <2>2. \A b \in 0 .. page : b = page \/ b \in 0 .. (page - 1)
    BY <1>1
  <2>3. \A b \in 0 .. page : Mapped(PageOf(Segment, b))
    BY <1>5, <2>1, <2>2
  <2> QED BY <1>2, <1>4, <2>3
<1>7. PICK w \in HeapPage : SamePage(q, w)
  BY <1>6 DEF InHeap
<1>8. h = Walk(vm.mem, PML4, w)
  BY <1>7, SameWalk
<1>9. h \in Frame /\ kind[h] \in {9, 10}
  BY <1>7, <1>8, RunDone DEF FitsNow, Fits, Backed
<1>10. kind[h] # 10
  <2> SUFFICES ASSUME kind[h] = 10 PROVE FALSE
    OBVIOUS
  <2>1. Overwritten(vm.mem, kind, HeapPage, seg, program)
    BY RunDone DEF FitsNow, Fits
  <2>2. Text # Empty
    BY <1>7, <1>8, <2>1 DEF Overwritten
  <2>3. PICK j \in 1 .. (seg - 1) : Occupies(program.segments[j], w)
    BY <1>7, <1>8, <2>1 DEF Overwritten
  <2>4. Occupies(program.segments[seg], w)
    BY <1>1, <1>4, <1>7 DEF Occupies
  <2>5. j \in 1 .. Len(program.segments) /\ j # seg
    <3>1. Len(program.segments) \in Nat
      BY <1>1, ArrangedSegments
    <3> QED BY <1>1, <3>1
  <2>6. \A i, k \in 1 .. Len(program.segments), v \in HeapPage :
           Occupies(program.segments[i], v) /\ Occupies(program.segments[k], v) => i = k
    BY <1>1, <2>2 DEF Arranged
  <2> QED BY <1>2, <2>3, <2>4, <2>5, <2>6
<1> QED BY <1>6, <1>9, <1>10

\* A pointer that leads nowhere.
LEMMA MapBroken ==
    ASSUME NEW s, VmType(s), NEW kind, NEW q, At(s, q) = None, NEW v, NEW p
    PROVE  Breaks(s, vmm_map(s, q, v, p), kind)
<1>1. PICK pdp : pdp = Descend(s, q, v, 4)
  OBVIOUS
<1>2. PICK pd : pd = Descend(pdp, pdp.got, v, 3)
  OBVIOUS
<1>3. PICK pt : pt = Descend(pd, pd.got, v, 2)
  OBVIOUS
<1>4. VmType(pdp) /\ VmType(pd)
  BY <1>1, <1>2, DescendType
<1>5. pdp = [s EXCEPT !.panic = TRUE]
  BY <1>1 DEF Descend
<1>6. Breaks(s, pdp, kind)
  <2>1. pdp.panic = TRUE /\ pdp.mem = s.mem
    BY <1>5 DEF VmType
  <2> QED BY <2>1 DEF Breaks, Still
<1>7. Breaks(s, pd, kind)
  BY <1>2, <1>4, <1>6, DescendBroken
<1>8. Breaks(s, pt, kind)
  BY <1>3, <1>4, <1>7, DescendBroken
<1>9. vmm_map(s, q, v, p) = IF pt.panic THEN pt ELSE Store(pt, pt.got, Idx(v, 1), p)
  BY <1>1, <1>2, <1>3 DEF vmm_map
<1>10. vmm_map(s, q, v, p) = pt
  BY <1>8, <1>9 DEF Breaks
<1> QED BY <1>8, <1>10

\* The loader takes a frame and calls vmm_map with a page of the heap as the
\* directory: what it writes is no table of a directory.
LEMMA load_pageStep ==
    ASSUME Arranged, AddressInv, vm'.pool < POOL, Clear \/ taken' = {}, load_page
    PROVE  AddressInv' /\ [Space!SpaceNext]_Translation
<1>0. PICK a, q : a = pmm_alloc(vm) /\ q = PageOf(Segment, page)
  OBVIOUS
<1>1. /\ phase = "run" /\ load = "segments" /\ seg <= Len(program.segments)
      /\ Segment.type = PT_LOAD /\ page < Pages(Segment)
      /\ \E flags \in Garbage : LET s == vmm_map(a, q, a.got, flags) IN
            IF a.panic THEN load' = "failed" /\ UNCHANGED <<vm, phase, taken, page>>
            ELSE /\ Becomes(s) /\ taken' = taken \cup (s.used \ vm.used) /\ page' = page + 1
                 /\ load' = load
      /\ va' = va /\ dirs' = dirs /\ program' = program /\ seg' = seg
  BY <1>0 DEF load_page, Loading
<1>2. LoadInv
  BY <1>1 DEF AddressInv
<1>3. PICK kind \in Kinds : Good(vm, kind) /\ FitsNow(kind)
  BY <1>1 DEF AddressInv
<1>4. /\ VmType(vm) /\ VmType(a) /\ vm.panic = FALSE /\ kind[PML4] = 4
      /\ dirs \subseteq TablePage /\ Roots(dirs, kind) /\ Watched \subseteq Nat
  BY <1>0, <1>3, pmm_allocType, ArrangedFacts DEF Good, Shape, FitsNow, Fits, Apart
<1>5. q \in Nat
  <2>1. program \in Programs /\ seg \in Nat \ {0} /\ page \in Nat /\ Segment = program.segments[seg]
    BY <1>1, <1>2 DEF LoadInv, Segment
  <2>2. Segment \in SegmentType
    BY <1>1, <2>1, ArrangedSegments
  <2> QED BY <1>0, <2>1, <2>2, SegmentPages
<1>6. CASE Fails(vm, a)
  <2>1. load' = "failed" /\ UNCHANGED <<vm, phase, taken, page>>
    BY <1>1, <1>6 DEF Fails
  <2>2. Done' = Done
    BY <1>1, <2>1 DEF Done
  <2>3. FitsNow(kind)' /\ Good(vm, kind)'
    BY <1>1, <1>3, <2>1, <2>2 DEF FitsNow, Fits, Good, VmType
  <2>4. LoadInv'
    BY <1>1, <1>2, <2>1 DEF LoadInv
  <2>5. Translation' = Translation
    BY <1>1, <2>1 DEF Translation
  <2> QED BY <2>3, <2>4, <2>5 DEF AddressInv
<1>7. ASSUME NEW x \in Frame, Takes(vm, a, x), a.mem = vm.mem
      PROVE  AddressInv' /\ [Space!SpaceNext]_Translation
  <2>1. a.panic = FALSE /\ a.got = x /\ x \in TablePage /\ x \in Nat
    BY <1>4, <1>7, VmmConstants DEF Takes
  <2>f. PICK flags \in Garbage : LET s == vmm_map(a, q, x, flags) IN
           /\ Becomes(s) /\ taken' = taken \cup (s.used \ vm.used) /\ page' = page + 1 /\ load' = load
    BY <1>1, <2>1
  <2>e. flags \in EntryValue
    BY LoaderAssumption DEF EntryValue
  <2>2. PICK s : /\ Becomes(s) /\ taken' = taken \cup (s.used \ vm.used) /\ page' = page + 1
                 /\ load' = load /\ s = vmm_map(a, q, x, flags)
    BY <2>f
  <2>3. VmType(s) /\ a.used \subseteq s.used
    BY <1>4, <2>2, <2>e, MapMore, vmm_mapType DEF More
  <2>4. vm'.pool = s.pool /\ vm'.mem = s.mem /\ (s.panic = TRUE => phase' = "panic")
    BY <2>2, <2>3, BecomesGood
  <2>c. Clear
    <3>1. x \in s.used \ vm.used
      BY <1>7, <2>3 DEF Takes, Live
    <3> QED BY <2>2, <3>1
  <2>5. PICK kind1 : Recast(kind, kind1, x, 5)
    BY DEF Recast
  <2>6. kind[x] = 0 /\ Good(a, kind1)
    <3>1. 5 \in 0 .. 10 /\ 5 \notin Upper /\ 5 \in {0, 5, 9, 10}
      BY DEF Upper
    <3> QED BY <1>3, <1>4, <1>7, <2>5, <3>1, TakeKeeps
  <2>7. /\ kind1 \in Kinds /\ Widens(kind, kind1) /\ kind1[x] = 5 /\ kind1[PML4] = 4
        /\ \A t \in TablePage : t # x => kind1[t] = kind[t]
    <3>1. 5 \in 0 .. 10 /\ 5 # 4
      OBVIOUS
    <3>2. kind1 \in Kinds /\ Widens(kind, kind1) /\ kind1[x] = 5
      BY <2>1, <2>5, <2>6, <3>1, RecastWidens
    <3> QED BY <2>5, <2>6, <3>2 DEF Recast, Kinds, Good, Shape
  <2>8. Roots(dirs, kind1)
    BY <1>4, <2>6, <2>7 DEF Roots
  <2>9. CASE Breaks(a, s, kind1)
    BY <1>1, <1>4, <1>7, <2>4, <2>8, <2>9, SpaceStill, Stopped DEF Breaks
  <2>10. PICK h : h = Walk(vm.mem, PML4, q)
    OBVIOUS
  <2>11. At(a, q) = h
    BY <1>5, <1>7, <2>10 DEF At
  <2>12. CASE h = None
    BY <1>4, <2>2, <2>9, <2>11, <2>12, MapBroken
  <2>13. CASE h # None
    <3>1. h \in Frame /\ kind[h] = 9 /\ InHeap(q)
      BY <1>0, <1>1, <1>2, <1>3, <2>c, <2>10, <2>13, LoadsInHeap
    <3>2. h \in TablePage /\ kind1[h] = 5 + 4 /\ 5 \in {0, 5}
      <4>1. h # x
        BY <2>6, <3>1
      <4> QED BY <2>7, <3>1, <4>1, VmmConstants
    <3>3. At(a, q) \in {h, None} /\ q \in Int
      BY <1>5, <2>11
    <3>4. Breaks(a, s, kind1) \/ Maps(a, kind1, s, 5, h, x, flags)
      BY <2>1, <2>2, <2>4, <2>6, <2>e, <3>2, <3>3, MapKeeps
    <3>5. CASE Maps(a, kind1, s, 5, h, x, flags)
      <4>1. PICK kind2 \in Kinds : /\ Good(s, kind2) /\ Adopts(a, kind1, s, kind2, 5)
                                   /\ Still(a.mem, s.mem, kind1)
        BY <3>5 DEF Maps, Outcome
      <4>2. Widens(kind1, kind2)
        BY <3>2, <4>1, AdoptsWidens
      <4>3. Good(vm, kind2)' /\ phase' = phase
        BY <2>2, <2>3, <4>1, BecomesGood
      <4>4. Still(vm.mem, vm'.mem, kind1)
        BY <1>7, <2>4, <4>1
      <4>5. Still(vm.mem, vm.mem, kind)
        BY DEF Still
      <4>6. Fits(vm.mem, kind1, dirs, Done, taken, load, seg, program)
        BY <1>3, <1>4, <2>7, <4>5, DoneIn, FitStill DEF FitsNow
      <4>7. Fits(vm'.mem, kind2, dirs, Done, taken, load, seg, program)
        BY <2>7, <4>2, <4>4, <4>6, DoneIn, FitStill
      <4>8. TakenKinds(kind2, taken')
        <5>1. TakenKinds(kind2, taken)
          BY <4>7 DEF Fits
        <5>2. s.used \subseteq Frame
          BY <2>3 DEF VmType
        <5>3. kind2[x] = 5
          <6>1. kind1[x] # 0
            BY <2>7
          <6> QED BY <2>1, <2>7, <4>2, <6>1 DEF Widens
        <5>6. \A f \in s.used \ vm.used : kind2[f] = 5
          BY <1>7, <4>1, <5>3 DEF Takes, Adopts
        <5> QED BY <2>2, <5>1, <5>2, <5>6 DEF TakenKinds
      <4>9. Done' = Done
        BY <1>1, <4>3 DEF Done
      <4>10. FitsNow(kind2)'
        BY <1>1, <2>2, <4>7, <4>8, <4>9 DEF FitsNow, Fits
      <4>11. LoadInv'
        <5>1. program \in Programs /\ seg \in Nat \ {0} /\ page \in Nat /\ page <= Pages(Segment)
              /\ \A k \in 0 .. (page - 1) : InHeap(PageOf(Segment, k))
          BY <1>1, <1>2 DEF LoadInv
        <5>2. Segment' = Segment
          BY <1>1 DEF Segment
        <5>3. Pages(Segment) \in Nat
          BY <1>1, <5>1, ArrangedSegments, SegmentPages DEF Segment
        <5>4. page' <= Pages(Segment) /\ page' \in Nat
          BY <1>1, <2>2, <5>1, <5>3
        <5>5. \A k \in 0 .. (page' - 1) : InHeap(PageOf(Segment, k))
          <6>1. \A k \in 0 .. (page' - 1) : k = page \/ k \in 0 .. (page - 1)
            BY <2>2, <5>1
          <6> QED BY <1>0, <3>1, <5>1, <6>1
        <5> QED BY <1>1, <1>2, <2>2, <4>3, <5>2, <5>4, <5>5 DEF LoadInv
      <4>12. [Space!SpaceNext]_Translation
        BY <1>1, <1>4, <2>8, <4>4, SpaceStill
      <4> QED BY <4>3, <4>10, <4>11, <4>12 DEF AddressInv
    <3> QED BY <2>9, <3>4, <3>5
  <2> QED BY <2>12, <2>13
<1>8. Fails(vm, a) \/ \E x \in Frame : Takes(vm, a, x) /\ a.mem = vm.mem
  BY <1>0, <1>4, pmm_allocTakes
<1> QED BY <1>6, <1>7, <1>8

\* The bytes of a segment are written over the frames dst.
Writes(s, r, dst) ==
    /\ r.pool = s.pool /\ r.used = s.used
    /\ \A t \in TablePage : r.mem[t] = IF t \in dst THEN Text ELSE s.mem[t]

\* Unless they read as an empty table, these are no tables any more.
Spoils(kind, kind2, dst) ==
    kind2 = [t \in TablePage |-> IF t \in dst /\ Text # Empty THEN 10 ELSE kind[t]]

\* Copying to frames of the heap keeps the shape and every translation.
LEMMA CopyKeeps ==
    ASSUME NEW s, NEW kind, Good(s, kind), NEW dst \in SUBSET Frame,
           \A t \in dst : kind[t] \in {9, 10},
           NEW r, VmType(r), Writes(s, r, dst), NEW kind2, Spoils(kind, kind2, dst)
    PROVE  (r.panic = FALSE => Good(r, kind2)) /\ Still(s.mem, r.mem, kind)
<1>1. /\ s.mem \in MemType /\ r.mem \in MemType /\ kind \in Kinds /\ kind[PML4] = 4
      /\ Tree(s.mem, kind) /\ OneParent(s.mem, kind) /\ Inside(kind)
      /\ Held(s.pool, s.used, kind) /\ Clean(s.mem, s.used)
  BY DEF Good, Shape, VmType, MemType
<1>2. PICK mem \in MemType, mem2 \in MemType : mem = s.mem /\ mem2 = r.mem
  BY <1>1
<1>3. \A t \in TablePage : mem2[t] = IF t \in dst THEN Text ELSE mem[t]
  BY <1>2 DEF Writes
<1>4. kind2 \in Kinds /\ \A t \in TablePage : kind2[t] = IF t \in dst /\ Text # Empty THEN 10 ELSE kind[t]
  BY <1>1 DEF Spoils, Kinds
<1>5. \A t \in TablePage : kind[t] \in 0 .. 8 => t \notin dst /\ kind2[t] = kind[t] /\ mem2[t] = mem[t]
  <2>1. \A k \in {9, 10} : k \notin 0 .. 8
    OBVIOUS
  <2> QED BY <1>3, <1>4, <2>1
<1>6. PML4 \in TablePage /\ 4 \in 0 .. 8
  BY VmmConstants
<1>7. Still(mem, mem2, kind)
  <2>1. \A t \in TablePage : kind[t] \in 1 .. 4 => mem2[t] = mem[t]
    BY <1>5
  <2> QED BY <1>1, <1>2, <2>1, UntouchedStill
<1>8. Inside(kind2)
  BY <1>1, <1>4, VmmConstants DEF Inside
<1>9. Tree(mem2, kind2)
  <2> SUFFICES ASSUME NEW t \in TablePage, NEW i \in Index, kind2[t] \in Upper, mem2[t][i] # None
               PROVE  mem2[t][i] \in TablePage /\ kind2[mem2[t][i]] = kind2[t] - 1
    BY DEF Tree
  <2>1. t \notin dst
    <3> SUFFICES ASSUME t \in dst PROVE FALSE
      OBVIOUS
    <3>1. 10 \notin Upper
      BY DEF Upper
    <3>2. Text = Empty
      BY <1>4, <3>1
    <3> QED BY <1>3, <3>2 DEF Empty
  <2>2. mem2[t][i] = mem[t][i] /\ kind2[t] = kind[t]
    BY <1>3, <1>4, <2>1
  <2>3. PICK c \in TablePage : c = mem[t][i] /\ kind[c] = kind[t] - 1
    BY <1>1, <1>2, <2>2 DEF Tree
  <2>4. kind[c] \in 0 .. 8
    BY <2>2, <2>3 DEF Upper
  <2>5. kind2[c] = kind[c]
    BY <1>5, <2>4
  <2> QED BY <2>2, <2>3, <2>5
<1>10. OneParent(mem2, kind2)
  <2>1. \A t \in TablePage : kind2[t] \in 2 .. 4 => kind[t] = kind2[t] /\ mem2[t] = mem[t]
    <3> SUFFICES ASSUME NEW t \in TablePage, kind2[t] \in 2 .. 4
                 PROVE  kind[t] = kind2[t] /\ mem2[t] = mem[t]
      OBVIOUS
    <3>1. kind2[t] # 10
      OBVIOUS
    <3>2. kind[t] = kind2[t]
      BY <1>4, <3>1
    <3>3. kind[t] \in 0 .. 8
      BY <3>2
    <3> QED BY <1>5, <3>2, <3>3
  <2> QED BY <1>1, <1>2, <2>1 DEF OneParent
<1>11. \A t \in TablePage : kind2[t] # 0 => kind[t] # 0
  <2>1. \A k \in {9, 10} : k # 0
    OBVIOUS
  <2> QED BY <1>4, <2>1
<1>12. Held(r.pool, r.used, kind2)
  BY <1>1, <1>11 DEF Held, Writes
<1>13. Clean(mem2, r.used)
  <2> SUFFICES ASSUME NEW f \in Frame, Clear, f \notin r.used PROVE mem2[f] = Empty
    BY DEF Clean
  <2>1. f \notin dst
    <3> SUFFICES ASSUME f \in dst PROVE FALSE
      OBVIOUS
    <3>1. kind[f] # 0 /\ f \in TablePage /\ ~(f < 0)
      <4>1. \A k \in {9, 10} : k # 0
        OBVIOUS
      <4>2. f \in TablePage /\ f \in Nat
        BY VmmConstants
      <4> QED BY <4>1, <4>2
    <3> QED BY <1>1, <3>1 DEF Held, Live, Writes
  <2>2. mem2[f] = mem[f]
    BY <1>3, <2>1, VmmConstants
  <2> QED BY <1>1, <1>2, <2>2 DEF Clean, Writes
<1>14. kind2[PML4] = 4
  BY <1>1, <1>5, <1>6
<1>16. ASSUME r.panic = FALSE PROVE Good(r, kind2)
  BY <1>2, <1>4, <1>8, <1>9, <1>10, <1>12, <1>13, <1>14, <1>16 DEF Good, Shape
<1> QED BY <1>2, <1>7, <1>16

\* Only pages of the copied segment are overwritten.
LEMMA CopyFits ==
    ASSUME NEW mem, NEW mem2, NEW kind, NEW kind2, NEW ds, NEW tk, NEW n \in Nat \ {0}, NEW g,
           kind[PML4] = 4, HeapPage \subseteq Nat,
           Fits(mem, kind, ds, HeapPage, tk, "segments", n, g), Still(mem, mem2, kind),
           NEW dst \in SUBSET Frame, \A t \in dst : kind[t] \in {9, 10}, Spoils(kind, kind2, dst),
           \A v \in HeapPage : Walk(mem, PML4, v) \in dst => Occupies(g.segments[n], v)
    PROVE  Fits(mem2, kind2, ds, HeapPage, tk, "segments", n + 1, g)
<1>1. \A t \in TablePage : kind2[t] = IF t \in dst /\ Text # Empty THEN 10 ELSE kind[t]
  BY DEF Spoils
<1>2. \A v \in HeapPage : Walk(mem2, PML4, v) = Walk(mem, PML4, v)
  BY VmmConstants DEF Still
<1>3. /\ ds \subseteq TablePage /\ Roots(ds, kind) /\ Backed(mem, kind, HeapPage)
      /\ TakenKinds(kind, tk) /\ OnlyMapped(mem) /\ Overwritten(mem, kind, HeapPage, n, g)
  BY DEF Fits
<1>4. Roots(ds, kind2)
  <2>1. \A t \in TablePage : kind2[t] = 4 <=> kind[t] = 4
    <3>1. \A k \in {9, 10} : k # 4
      OBVIOUS
    <3> QED BY <1>1, <3>1
  <2> QED BY <1>3, <2>1 DEF Roots
<1>5. Backed(mem2, kind2, HeapPage)
  <2>1. \A v \in HeapPage : Walk(mem, PML4, v) \in Frame /\ kind[Walk(mem, PML4, v)] \in {9, 10}
    BY <1>3 DEF Backed
  <2>2. \A v \in HeapPage : kind2[Walk(mem, PML4, v)] \in {9, 10}
    BY <1>1, <2>1, VmmConstants
  <2> QED BY <1>2, <1>3, <2>1, <2>2 DEF Backed
<1>6. TakenKinds(kind2, tk)
  <2> SUFFICES ASSUME NEW f \in tk PROVE kind2[f] = 5
    BY <1>3 DEF TakenKinds
  <2>1. kind[f] = 5 /\ f \in TablePage
    BY <1>3, VmmConstants DEF TakenKinds
  <2>2. f \notin dst
    BY <2>1
  <2> QED BY <1>1, <2>1, <2>2
<1>7. OnlyMapped(mem2)
  BY <1>3, VmmConstants DEF OnlyMapped, Still
<1>8. Overwritten(mem2, kind2, HeapPage, n + 1, g)
  <2> SUFFICES ASSUME NEW v \in HeapPage, Clear, kind2[Walk(mem2, PML4, v)] = 10
               PROVE  Text # Empty /\ \E j \in 1 .. (n + 1 - 1) : Occupies(g.segments[j], v)
    BY DEF Overwritten
  <2>1. PICK h \in Frame : h = Walk(mem, PML4, v) /\ h = Walk(mem2, PML4, v)
    BY <1>2, <1>3 DEF Backed
  <2>2. kind2[h] = 10 /\ h \in TablePage
    BY <2>1, VmmConstants
  <2>3. \A j \in 1 .. (n - 1) : j \in 1 .. (n + 1 - 1)
    OBVIOUS
  <2>4. n \in 1 .. (n + 1 - 1)
    OBVIOUS
  <2>5. CASE h \in dst /\ Text # Empty
    BY <2>1, <2>4, <2>5
  <2>6. CASE ~(h \in dst /\ Text # Empty)
    <3>1. kind[h] = 10
      BY <1>1, <2>2, <2>6
    <3> QED BY <1>3, <2>1, <2>3, <3>1 DEF Overwritten
  <2> QED BY <2>5, <2>6
<1> QED BY <1>3, <1>4, <1>5, <1>6, <1>7, <1>8 DEF Fits

\* Where the bytes of a segment go: to frames of the heap.
LEMMA ReachedInHeap ==
    ASSUME Arranged, LoadInv, NEW kind, FitsNow(kind), phase = "run", load = "segments",
           seg <= Len(program.segments), Segment.type = PT_LOAD, NEW k \in Reached(Segment)
    PROVE  \E w \in HeapPage : /\ At(vm, PageOf(Segment, k)) = Walk(vm.mem, PML4, w)
                               /\ Occupies(program.segments[seg], w)
<1>1. program \in Programs /\ seg \in Nat \ {0} /\ Segment = program.segments[seg]
  BY DEF LoadInv, Segment
<1>2. /\ Segment \in SegmentType
      /\ \A j \in 0 .. (Extent(Segment) - 1) : \/ InHeap(PageOf(Segment, j))
                                               \/ \E b \in 0 .. j : ~Mapped(PageOf(Segment, b))
  BY <1>1, ArrangedSegments
<1>3. /\ Touched(Segment) \in Nat /\ Extent(Segment) \in Nat /\ Touched(Segment) <= Extent(Segment)
      /\ \A j \in Nat : PageOf(Segment, j) \in Nat
  BY <1>2, SegmentPages
<1>4. k \in 0 .. (Touched(Segment) - 1) /\ \A j \in 0 .. k : At(vm, PageOf(Segment, j)) # None
  BY DEF Reached
<1>5. k \in 0 .. (Extent(Segment) - 1) /\ k \in Nat
  BY <1>3, <1>4
<1>6. \A j \in 0 .. k : Mapped(PageOf(Segment, j))
  <2> SUFFICES ASSUME NEW j \in 0 .. k PROVE Mapped(PageOf(Segment, j))
    OBVIOUS
  <2>1. PICK q \in Nat : q = PageOf(Segment, j)
    BY <1>3, <1>5
  <2>2. Walk(vm.mem, PML4, q) # None
    BY <1>4, <2>1 DEF At
  <2>3. OnlyMapped(vm.mem)
    BY DEF FitsNow, Fits
  <2> QED BY <2>1, <2>2, <2>3 DEF OnlyMapped
<1>7. PICK q \in Nat : q = PageOf(Segment, k)
  BY <1>3, <1>5
<1>8. PICK w \in HeapPage : SamePage(q, w)
  BY <1>2, <1>5, <1>6, <1>7 DEF InHeap
<1>9. At(vm, q) = Walk(vm.mem, PML4, w)
  BY <1>8, SameWalk DEF At
<1>10. Occupies(program.segments[seg], w)
  BY <1>1, <1>5, <1>7, <1>8 DEF Occupies
<1> QED BY <1>7, <1>9, <1>10

\* The loader copies a segment.
LEMMA copy_segmentStep ==
    ASSUME Arranged, AddressInv, copy_segment
    PROVE  AddressInv' /\ [Space!SpaceNext]_Translation
<1>0. PICK dst : dst = {At(vm, PageOf(Segment, k)) : k \in Reached(Segment)}
  OBVIOUS
<1>b. PICK b \in BOOLEAN : b = (Reached(Segment) # 0 .. (Touched(Segment) - 1))
  OBVIOUS
<1>r. PICK r : r = [vm EXCEPT !.mem = [t \in DOMAIN @ |-> IF t \in dst THEN Text ELSE @[t]], !.panic = b]
  OBVIOUS
<1>1. /\ phase = "run" /\ load = "segments" /\ seg <= Len(program.segments)
      /\ Segment.type = PT_LOAD /\ Becomes(r)
      /\ seg' = seg + 1 /\ page' = 0
      /\ dirs' = dirs /\ load' = load /\ program' = program /\ taken' = taken
  BY <1>0, <1>b, <1>r DEF copy_segment, Loading, next_segment
<1>2. LoadInv
  BY <1>1 DEF AddressInv
<1>3. PICK kind \in Kinds : Good(vm, kind) /\ FitsNow(kind)
  BY <1>1 DEF AddressInv
<1>4. /\ VmType(vm) /\ kind[PML4] = 4
      /\ dirs \subseteq TablePage /\ Roots(dirs, kind) /\ Watched \subseteq Nat
      /\ HeapPage \subseteq Nat /\ Backed(vm.mem, kind, HeapPage)
  BY <1>1, <1>3, ArrangedFacts, RunDone DEF Good, Shape, FitsNow, Fits, Apart
<1>5. seg \in Nat \ {0}
  BY <1>2 DEF LoadInv
<1>6. \A t \in dst : \E w \in HeapPage : t = Walk(vm.mem, PML4, w) /\ Occupies(program.segments[seg], w)
  <2> SUFFICES ASSUME NEW t \in dst
               PROVE  \E w \in HeapPage : t = Walk(vm.mem, PML4, w) /\ Occupies(program.segments[seg], w)
    OBVIOUS
  <2>1. PICK k \in Reached(Segment) : t = At(vm, PageOf(Segment, k))
    BY <1>0
  <2> QED BY <1>1, <1>2, <1>3, <2>1, ReachedInHeap
<1>7. dst \in SUBSET Frame /\ \A t \in dst : kind[t] \in {9, 10}
  BY <1>4, <1>6 DEF Backed
<1>8. VmType(r) /\ Writes(vm, r, dst) /\ r.panic = b
  <2>parts. PICK m \in [TablePage -> [Index -> EntryValue]], p \in 0 .. POOL,
                 u \in SUBSET Frame, l \in Frame : \E g, x : vm = VmRec(m, p, u, l, g, x)
    BY <1>4, VmParts
  <2>1. PICK g, x : vm = VmRec(m, p, u, l, g, x)
    BY <2>parts
  <2> DEFINE c == [t \in TablePage |-> IF t \in dst THEN Text ELSE m[t]]
  <2>2. r = VmRec(c, p, u, l, g, b)
    <3>1. vm.mem = m
      BY <2>1 DEF VmRec
    <3>2. r = [vm EXCEPT !.mem = c, !.panic = b]
      BY <1>r, <3>1
    <3> HIDE DEF c
    <3> QED BY <2>1, <3>2 DEF VmRec
  <2>3. c \in [TablePage -> [Index -> EntryValue]]
    BY LoaderAssumption
  <2>4. \A t \in TablePage : c[t] = IF t \in dst THEN Text ELSE m[t]
    OBVIOUS
  <2> HIDE DEF c
  <2>5. VmType(r)
    BY <2>2, <2>3, VmBuilt
  <2>6. /\ r.mem = c /\ r.pool = p /\ r.used = u /\ r.panic = b
        /\ vm.mem = m /\ vm.pool = p /\ vm.used = u
    BY <2>1, <2>2 DEF VmRec
  <2> QED BY <2>4, <2>5, <2>6 DEF Writes
<1>9. PICK kind2 : Spoils(kind, kind2, dst)
  BY DEF Spoils
<1>10. (r.panic = FALSE => Good(r, kind2)) /\ Still(vm.mem, r.mem, kind)
  BY <1>3, <1>7, <1>8, <1>9, CopyKeeps
<1>11. vm'.mem = r.mem /\ (r.panic = TRUE => phase' = "panic")
  BY <1>1, <1>8, BecomesGood
<1>12. [Space!SpaceNext]_Translation
  BY <1>1, <1>4, <1>10, <1>11, SpaceStill
<1>13. CASE b = TRUE
  BY <1>8, <1>11, <1>12, <1>13, Stopped
<1>14. CASE b = FALSE
  <2>1. Good(r, kind2)
    BY <1>8, <1>10, <1>14
  <2>2. Good(vm, kind2)' /\ phase' = phase
    BY <1>1, <1>8, <2>1, BecomesGood
  <2>3. Done = HeapPage /\ Done' = HeapPage
    BY <1>1, <2>2 DEF Done
  <2>4. Fits(vm.mem, kind, dirs, HeapPage, taken, "segments", seg, program)
    BY <1>1, <1>3, <2>3 DEF FitsNow
  <2>5. \A v \in HeapPage : Walk(vm.mem, PML4, v) \in dst => Occupies(program.segments[seg], v)
    BY <1>4, <1>6 DEF Backed
  <2>6. Fits(r.mem, kind2, dirs, HeapPage, taken, "segments", seg + 1, program)
    BY <1>4, <1>5, <1>7, <1>9, <1>10, <2>4, <2>5, CopyFits
  <2>7. FitsNow(kind2)'
    BY <1>1, <1>11, <2>3, <2>6 DEF FitsNow
  <2>8. LoadInv'
    BY <1>1, <1>2, <2>2, LoopGoesOn
  <2>9. kind2 \in Kinds
    BY <2>1 DEF Good, Shape
  <2> QED BY <1>12, <2>2, <2>7, <2>8, <2>9 DEF AddressInv
<1> QED BY <1>13, <1>14

-----------------------------------------------------------------------------
(* The invariant holds at the start *)

\* The boot tables: one entry in each of the upper three.
LEMMA BootShape ==
    ASSUME NEW ram, NEW mem, mem = BootTables(ram)
    PROVE  /\ 0 \in Index
           /\ \A i \in Index : /\ mem[PML4][i] = IF i = 0 THEN PDP ELSE None
                               /\ mem[PDP][i] = IF i = 0 THEN PD ELSE None
                               /\ mem[PD][i] = IF i = 0 THEN PT ELSE None
           /\ \A f \in Frame : mem[f] = ram
<1>1. 0 \in Index
  BY VmmAssumption DEF Index
<1>2. {PML4, PDP, PD} \subseteq TablePage
  BY DEF TablePage, Image
<1>3. /\ mem[PML4] = [Empty EXCEPT ![0] = PDP] /\ mem[PDP] = [Empty EXCEPT ![0] = PD]
      /\ mem[PD] = [Empty EXCEPT ![0] = PT]
  <2>1. /\ PDP # PML4 /\ PD # PML4 /\ PD # PDP /\ PT # PML4 /\ PT # PDP /\ PT # PD
        /\ PML4 \notin Frame /\ PDP \notin Frame /\ PD \notin Frame
    BY VmmConstants DEF PML4, PDP, PD, PT
  <2>2. PICK top : top = [Empty EXCEPT ![0] = PDP]
    OBVIOUS
  <2>3. PICK mid : mid = [Empty EXCEPT ![0] = PD]
    OBVIOUS
  <2>4. PICK low : low = [Empty EXCEPT ![0] = PT]
    OBVIOUS
  <2>5. PICK own : own = [i \in Index |-> i]
    OBVIOUS
  <2>6. mem = [t \in TablePage |-> CASE t = PML4 -> top [] t = PDP -> mid [] t = PD -> low
                                     [] t = PT -> own [] t \in Frame -> ram [] OTHER -> Empty]
    BY <2>2, <2>3, <2>4, <2>5 DEF BootTables
  <2>7. mem[PML4] = top /\ mem[PDP] = mid /\ mem[PD] = low
    BY <1>2, <2>1, <2>6
  <2> QED BY <2>2, <2>3, <2>4, <2>7
<1>4. \A f \in Frame : mem[f] = ram
  <2> SUFFICES ASSUME NEW f \in Frame PROVE mem[f] = ram
    OBVIOUS
  <2>1. f \in TablePage /\ f \in Nat
    BY VmmConstants
  <2>2. f # PML4 /\ f # PDP /\ f # PD /\ f # PT
    BY <2>1 DEF PML4, PDP, PD, PT
  <2> QED BY <2>1, <2>2 DEF BootTables
<1>5. \A i \in Index : /\ mem[PML4][i] = IF i = 0 THEN PDP ELSE None
                       /\ mem[PDP][i] = IF i = 0 THEN PD ELSE None
                       /\ mem[PD][i] = IF i = 0 THEN PT ELSE None
  <2> SUFFICES ASSUME NEW i \in Index
               PROVE  /\ mem[PML4][i] = IF i = 0 THEN PDP ELSE None
                      /\ mem[PDP][i] = IF i = 0 THEN PD ELSE None
                      /\ mem[PD][i] = IF i = 0 THEN PT ELSE None
    OBVIOUS
  <2>1. DOMAIN Empty = Index /\ Empty[i] = None
    BY DEF Empty
  <2>2. \A e : [Empty EXCEPT ![0] = e][i] = IF i = 0 THEN e ELSE None
    BY <1>1, <2>1
  <2> QED BY <1>3, <2>2
<1> QED BY <1>1, <1>4, <1>5

\* They map low pages only.
LEMMA BootWalk ==
    ASSUME NEW ram, NEW mem, mem = BootTables(ram), NEW v \in Nat, Walk(mem, PML4, v) # None
    PROVE  Low(v)
<1>1. PICK i4 \in Index : i4 = Idx(v, 4)
  BY IdxIn
<1>2. PICK i3 \in Index : i3 = Idx(v, 3)
  BY IdxIn
<1>3. PICK i2 \in Index : i2 = Idx(v, 2)
  BY IdxIn
<1>4. PML4 # None /\ PDP # None /\ PD # None
  BY VmmAssumption DEF PML4, PDP, PD
<1>5. Pdp(mem, PML4, v) = IF i4 = 0 THEN PDP ELSE None
  BY <1>1, <1>4, BootShape DEF Pdp, Entry
<1>6. Pd(mem, PML4, v) # None => i4 = 0 /\ i3 = 0 /\ Pd(mem, PML4, v) = PD
  BY <1>2, <1>4, <1>5, BootShape DEF Pd, Entry
<1>7. Pt(mem, PML4, v) # None => i4 = 0 /\ i3 = 0 /\ i2 = 0
  BY <1>3, <1>4, <1>6, BootShape DEF Pt, Entry
<1>8. Pt(mem, PML4, v) # None
  BY WalkIs DEF Entry
<1>9. \A level \in 2 .. 4 : level = 2 \/ level = 3 \/ level = 4
  OBVIOUS
<1> QED BY <1>1, <1>2, <1>3, <1>7, <1>8, <1>9 DEF Low

\* The boot tables are of the levels 4 to 1; nothing else has been handed out.
BootKind == [t \in TablePage |-> IF t = PML4 THEN 4 ELSE IF t = PDP THEN 3
                                 ELSE IF t = PD THEN 2 ELSE IF t = PT THEN 1 ELSE 0]

\* They have the shape.
LEMMA BootGood ==
    ASSUME Arranged, LoaderInit
    PROVE  Good(vm, BootKind) /\ OnlyMapped(vm.mem)
<1>1. PICK ram \in Ram : vm = VmInit(ram)
  BY DEF LoaderInit, VmmInit
<1>2. VmType(vm)
  BY VmmInvInit DEF LoaderInit, VmmInv
<1>3. PICK mem \in MemType : mem = vm.mem
  BY <1>2 DEF VmType, MemType
<1>4. vm.pool = 0 /\ vm.used = {} /\ vm.panic = FALSE /\ mem = BootTables(ram)
  BY <1>1, <1>3 DEF VmInit
<1>5. /\ PML4 = -1 /\ PDP = -2 /\ PD = -3 /\ PT = -4
      /\ {PML4, PDP, PD, PT} \subseteq TablePage
  BY DEF TablePage, Image, PML4, PDP, PD, PT
<1>6. /\ BootKind \in Kinds /\ BootKind[PML4] = 4 /\ BootKind[PDP] = 3 /\ BootKind[PD] = 2
      /\ BootKind[PT] = 1
      /\ \A t \in TablePage : BootKind[t] = IF t = PML4 THEN 4 ELSE IF t = PDP THEN 3
                                            ELSE IF t = PD THEN 2 ELSE IF t = PT THEN 1 ELSE 0
  BY <1>5 DEF BootKind, Kinds
<1>7. \A t \in TablePage, i \in Index : BootKind[t] \in Upper /\ mem[t][i] # None =>
         /\ i = 0
         /\ \/ t = PML4 /\ mem[t][i] = PDP
            \/ t = PDP /\ mem[t][i] = PD
            \/ t = PD /\ mem[t][i] = PT
  <2> SUFFICES ASSUME NEW t \in TablePage, NEW i \in Index, BootKind[t] \in Upper, mem[t][i] # None
               PROVE  /\ i = 0
                      /\ \/ t = PML4 /\ mem[t][i] = PDP
                         \/ t = PDP /\ mem[t][i] = PD
                         \/ t = PD /\ mem[t][i] = PT
    OBVIOUS
  <2>1. t = PML4 \/ t = PDP \/ t = PD
    BY <1>6 DEF Upper
  <2>2. /\ mem[PML4][i] = IF i = 0 THEN PDP ELSE None
        /\ mem[PDP][i] = IF i = 0 THEN PD ELSE None
        /\ mem[PD][i] = IF i = 0 THEN PT ELSE None
    BY <1>4, BootShape
  <2> QED BY <2>1, <2>2
<1>8. Tree(mem, BootKind)
  <2> SUFFICES ASSUME NEW t \in TablePage, NEW i \in Index, BootKind[t] \in Upper, mem[t][i] # None
               PROVE  mem[t][i] \in TablePage /\ BootKind[mem[t][i]] = BootKind[t] - 1
    BY DEF Tree
  <2> QED BY <1>5, <1>6, <1>7
<1>9. OneParent(mem, BootKind)
  <2> SUFFICES ASSUME NEW t \in TablePage, NEW u \in TablePage, NEW i \in Index, NEW j \in Index,
                      BootKind[t] \in 2 .. 4, BootKind[u] \in 2 .. 4,
                      mem[t][i] = mem[u][j], mem[t][i] # None
               PROVE  i = j /\ t = u
    BY DEF OneParent
  <2>1. BootKind[t] \in Upper /\ BootKind[u] \in Upper
    BY DEF Upper
  <2> QED BY <1>5, <1>7, <2>1
<1>10. Held(vm.pool, vm.used, BootKind)
  BY <1>4, <1>5, <1>6 DEF Held, Live
<1>11. Inside(BootKind)
  BY <1>5, <1>6, VmmConstants DEF Inside
<1>12. Clean(mem, vm.used)
  BY <1>4, BootShape DEF Clean, Clear
<1>13. OnlyMapped(mem)
  BY <1>4, BootWalk DEF OnlyMapped, Mapped
<1> QED BY <1>2, <1>3, <1>4, <1>6, <1>8, <1>9, <1>10, <1>11, <1>12, <1>13 DEF Good, Shape

\* The invariant holds at the start.
LEMMA AddressStarts ==
    ASSUME Arranged, LoaderInit
    PROVE  AddressInv /\ Space!SpaceInit
<1>1. Good(vm, BootKind) /\ OnlyMapped(vm.mem)
  BY BootGood
<1>2. /\ phase = "identity" /\ va = BASE /\ dirs = {PML4} /\ load = "idle" /\ seg = 1 /\ page = 0
      /\ taken = {} /\ Done = {}
  BY DEF LoaderInit, VmmInit, Done
<1>3. Roots(dirs, BootKind) /\ dirs \subseteq TablePage
  <2>1. \A t \in TablePage : BootKind[t] = 4 <=> t = PML4
    BY DEF BootKind
  <2> QED BY <1>2, <2>1, VmmConstants DEF Roots
<1>4. FitsNow(BootKind)
  BY <1>1, <1>2, <1>3 DEF FitsNow, Fits, Backed, TakenKinds, Overwritten
<1>5. LoadInv
  BY <1>2, VmmConstants DEF LoadInv
<1>6. BootKind \in Kinds
  BY <1>1 DEF Good, Shape
<1>7. DOMAIN Translation = {PML4}
  BY <1>2 DEF Translation
<1> QED BY <1>1, <1>4, <1>5, <1>6, <1>7 DEF AddressInv, Space!SpaceInit, Space!live

-----------------------------------------------------------------------------
(* Every step keeps the invariant, and is a step of flat address spaces *)

\* The region in which the tables are safe: no frame has become a table yet, and the
\* loader took no frame unless memory started clear, as it takes pages of the heap for
\* directories.
Room == vm.pool < POOL /\ (Ram = {Empty} \/ taken = {})

\* Nothing returns to the pool, and the loader forgets no frame.
LEMMA PoolGrows ==
    ASSUME VmmInv, [LoaderNext]_loaderVars
    PROVE  vm.pool <= vm'.pool /\ taken \subseteq taken'
<1>1. VmType(vm) /\ vm.pool \in Nat
  BY VmmConstants DEF VmmInv, VmType
<1>2. ASSUME NEW s, VmType(s), More(vm, s), Becomes(s) PROVE vm.pool <= vm'.pool
  BY <1>2, BecomesGood DEF More
<1>3. ASSUME NEW d, NEW v, NEW p \in EntryValue, Becomes(vmm_map(vm, d, v, p)) PROVE vm.pool <= vm'.pool
  BY <1>1, <1>2, <1>3, vmm_mapType, MapMore
<1>4. PICK a : a = pmm_alloc(vm)
  OBVIOUS
<1>5. VmType(a) /\ More(vm, a) /\ a.pool \in Nat
  BY <1>1, <1>4, pmm_allocType, AllocMore, VmmConstants DEF VmType
<1>6. ASSUME NEW d, NEW v, NEW p \in EntryValue, Becomes(vmm_map(a, d, v, p)) PROVE vm.pool <= vm'.pool
  <2>1. PICK s : s = vmm_map(a, d, v, p)
    OBVIOUS
  <2>2. VmType(s) /\ More(a, s) /\ s.pool \in Nat
    BY <1>5, <2>1, vmm_mapType, MapMore, VmmConstants DEF VmType
  <2>3. More(vm, s)
    BY <1>1, <1>5, <2>2 DEF More
  <2> QED BY <1>2, <1>6, <2>1, <2>2, <2>3
<1>7. CASE vmm_init /\ UNCHANGED <<load, program, seg, page, taken>>
  <2>1. CASE MapIdentity
    <3>1. phase = "identity" /\ Becomes(vmm_map(vm, PML4, va, va)) /\ va \in Nat /\ va < BASE + TOTAL
      BY <2>1 DEF MapIdentity, BeforeEnd, VmmInv
    <3>2. va \in EntryValue
      BY <3>1, VmmConstants DEF VmmInv, VmmTypeOK, EntryValue
    <3> QED BY <1>3, <1>7, <3>1, <3>2
  <2>2. CASE StartHeap \/ InitDone
    BY <1>1, <1>7, <2>2 DEF StartHeap, InitDone
  <2>3. CASE MapHeap
    <3>1. Becomes(IF a.panic THEN a ELSE vmm_map(a, PML4, va, a.got))
      BY <1>4, <2>3 DEF MapHeap
    <3>2. a.panic \/ a.got \in EntryValue
      <4>1. Fails(vm, a) \/ \E x \in Frame : Takes(vm, a, x)
        BY <1>1, <1>4, pmm_allocTakes
      <4> QED BY <4>1, VmmConstants DEF Fails, Takes
    <3> QED BY <1>2, <1>5, <1>6, <1>7, <3>1, <3>2
  <2> QED BY <1>7, <2>1, <2>2, <2>3 DEF vmm_init
<1>8. CASE load = "failed" /\ Client /\ UNCHANGED <<load, program, seg, page, taken>>
  <2>1. CASE vmm_new_pagedir
    <3>1. PICK b : b = alloc_table(vm)
      OBVIOUS
    <3>2. VmType(b) /\ More(vm, b)
      BY <1>1, <3>1, alloc_tableType, AllocMore
    <3>3. PICK y, c : \/ vm' = [[b EXCEPT !.panic = TRUE] EXCEPT !.got = None]
                      \/ vm' = [[b EXCEPT !.mem[y] = c] EXCEPT !.got = None]
      BY <2>1, <3>1 DEF vmm_new_pagedir, Becomes
    <3>4. vm'.pool = b.pool
      BY <3>2, <3>3 DEF VmType
    <3> QED BY <1>8, <3>2, <3>4 DEF More
  <2>2. ASSUME NEW d \in dirs, vmm_free_pagedir(d) PROVE vm'.pool = vm.pool
    <3>1. PICK u : \/ vm' = [[vm EXCEPT !.panic = TRUE] EXCEPT !.got = None]
                   \/ vm' = [[vm EXCEPT !.used = u] EXCEPT !.got = None]
      BY <2>2 DEF vmm_free_pagedir, Becomes
    <3> QED BY <1>1, <3>1 DEF VmType
  <2>3. ASSUME NEW d \in dirs, NEW v \in Virt, UnmapPage(d, v) PROVE vm'.pool = vm.pool
    <3>1. PICK s : s = vmm_unmap(vm, d, v) /\ Becomes(s)
      BY <2>3 DEF UnmapPage
    <3>2. PICK t : s = [vm EXCEPT !.panic = TRUE] \/ s = vm \/ s = Store(vm, t, Idx(v, 1), None)
      BY <3>1 DEF vmm_unmap
    <3>3. s.pool = vm.pool /\ VmType(s)
      BY <1>1, <3>1, <3>2, StoreUsed, vmm_unmapType DEF VmType
    <3> QED BY <3>1, <3>3, BecomesGood
  <2>4. ASSUME NEW d \in dirs, NEW v \in Virt, NEW p \in Target, MapPage(d, v, p)
        PROVE  vm.pool <= vm'.pool
    <3>1. Becomes(vmm_map(vm, d, v, p)) /\ p \in EntryValue
      BY <2>4, ContentAssumption DEF MapPage, EntryValue
    <3> QED BY <1>3, <3>1
  <2>5. \/ vmm_new_pagedir \/ \E d \in dirs : vmm_free_pagedir(d)
        \/ \E d \in dirs, v \in Virt : UnmapPage(d, v) \/ \E p \in Target : MapPage(d, v, p)
    BY <1>8 DEF Client
  <2> QED BY <1>1, <1>8, <2>1, <2>2, <2>3, <2>4, <2>5
<1>9. CASE elf_check \/ skip_segment \/ elf_loaded \/ Halted \/ UNCHANGED loaderVars
  BY <1>1, <1>9 DEF elf_check, skip_segment, elf_loaded, Halted, loaderVars, vmmVars
<1>10. CASE load_page
  <2>1. PICK q : q = PageOf(Segment, page)
    OBVIOUS
  <2>2. \/ vm' = vm /\ taken' = taken
        \/ /\ taken \subseteq taken'
           /\ \E flags \in Garbage : Becomes(vmm_map(a, q, a.got, flags))
    BY <1>4, <1>10, <2>1 DEF load_page
  <2>3. \A flags \in Garbage : flags \in EntryValue
    BY LoaderAssumption DEF EntryValue
  <2> QED BY <1>1, <1>6, <2>2, <2>3
<1>11. CASE copy_segment
  <2>1. PICK m, b : vm' = [[vm EXCEPT !.mem = m, !.panic = b] EXCEPT !.got = None]
    BY <1>11 DEF copy_segment, Becomes
  <2>2. taken' = taken
    BY <1>11 DEF copy_segment
  <2> QED BY <1>1, <2>1, <2>2 DEF VmType
<1>12. CASE proc_create_elf
  <2>1. PICK b : \/ vm' = [a EXCEPT !.got = None]
                 \/ vm' = [[a EXCEPT !.panic = b] EXCEPT !.got = None]
    BY <1>4, <1>12 DEF proc_create_elf, Becomes
  <2>2. taken' = taken
    BY <1>12 DEF proc_create_elf
  <2> QED BY <1>5, <2>1, <2>2 DEF VmType, More
<1> QED BY <1>7, <1>8, <1>9, <1>10, <1>11, <1>12 DEF LoaderNext

\* So what has room now had room before.
LEMMA RoomBefore ==
    ASSUME VmmInv, [LoaderNext]_loaderVars, Room'
    PROVE  Room
<1>1. vm.pool \in Nat /\ vm'.pool \in Nat /\ POOL \in Nat
  BY LoaderKeeps, VmmConstants DEF VmmInv, VmType
<1>2. vm.pool <= vm'.pool /\ taken \subseteq taken'
  BY PoolGrows
<1>3. vm.pool < POOL
  BY <1>1, <1>2 DEF Room
<1> QED BY <1>2, <1>3 DEF Room

\* Every step that leaves room keeps the invariant.
LEMMA AddressStep ==
    ASSUME Arranged, AddressInv, [LoaderNext]_loaderVars, Room'
    PROVE  AddressInv' /\ [Space!SpaceNext]_Translation
<1>0. vm'.pool < POOL /\ (Clear \/ taken' = {})
  BY DEF Room, Clear
<1>1. CASE vmm_init /\ UNCHANGED <<load, program, seg, page, taken>>
  BY <1>0, <1>1, MapIdentityStep, StartHeapStep, MapHeapStep, InitDoneStep DEF vmm_init
<1>2. CASE load = "failed" /\ Client /\ UNCHANGED <<load, program, seg, page, taken>>
  <2>1. CASE vmm_new_pagedir
    BY <1>0, <1>2, <2>1, NewDirStep
  <2>2. ASSUME NEW d \in dirs, NEW v \in Virt, UnmapPage(d, v)
        PROVE  AddressInv' /\ [Space!SpaceNext]_Translation
    BY <1>2, <2>2, UnmapPageStep
  <2>3. ASSUME NEW d \in dirs, NEW v \in Virt, NEW p \in Target, MapPage(d, v, p)
        PROVE  AddressInv' /\ [Space!SpaceNext]_Translation
    BY <1>0, <1>2, <2>3, MapPageStep
  <2>4. ASSUME NEW d \in dirs, vmm_free_pagedir(d)
        PROVE  AddressInv' /\ [Space!SpaceNext]_Translation
    BY <1>2, <2>4, FreeDirStep
  <2>5. \/ vmm_new_pagedir \/ \E d \in dirs : vmm_free_pagedir(d)
        \/ \E d \in dirs, v \in Virt : UnmapPage(d, v) \/ \E p \in Target : MapPage(d, v, p)
    BY <1>2 DEF Client
  <2> QED BY <2>1, <2>2, <2>3, <2>4, <2>5
<1>3. CASE Halted \/ UNCHANGED loaderVars
  BY <1>3, LoaderStutters DEF Halted
<1>4. CASE elf_check
  BY <1>4, elf_checkStep
<1>5. CASE skip_segment
  BY <1>5, skip_segmentStep
<1>6. CASE load_page
  BY <1>0, <1>6, load_pageStep
<1>7. CASE copy_segment
  BY <1>7, copy_segmentStep
<1>8. CASE elf_loaded
  BY <1>8, elf_loadedStep
<1>9. CASE proc_create_elf
  BY <1>9, proc_create_elfStep
<1> QED BY <1>1, <1>2, <1>3, <1>4, <1>5, <1>6, <1>7, <1>8, <1>9 DEF LoaderNext

\* The tables below others.
Children(mem, tables, only) == {mem[t][i] : t \in tables, i \in only} \ {None}

\* The kinds keep tables, heap and loaded frames apart.
LEMMA Accounted == AddressInv => FramesAccounted
<1> SUFFICES ASSUME AddressInv, phase = "run" PROVE FramesAccounted
  BY DEF FramesAccounted
<1>1. PICK kind \in Kinds : Good(vm, kind) /\ FitsNow(kind)
  BY DEF AddressInv
<1>2. /\ Tree(vm.mem, kind) /\ Held(vm.pool, vm.used, kind) /\ Roots(dirs, kind)
      /\ dirs \subseteq TablePage /\ Backed(vm.mem, kind, HeapPage) /\ TakenKinds(kind, taken)
  BY <1>1, RunDone DEF Good, Shape, FitsNow, Fits
<1>3. PICK tables : tables = (UNION {TablesOf(d) : d \in dirs}) \cap Frame
  OBVIOUS
<1>4. \A d \in dirs : \A t \in TablesOf(d) : t \in TablePage /\ kind[t] \in 1 .. 4
  <2> SUFFICES ASSUME NEW d \in dirs PROVE \A t \in TablesOf(d) : t \in TablePage /\ kind[t] \in 1 .. 4
    OBVIOUS
  <2>1. PICK pdps, pds, pts : /\ pdps = Children(vm.mem, {d}, Index)
                              /\ pds = Children(vm.mem, pdps, Index)
                              /\ pts = Children(vm.mem, pds, Index)
    OBVIOUS
  <2>2. TablesOf(d) = {d} \cup pdps \cup pds \cup pts
    BY <2>1 DEF TablesOf, Children
  <2>3. 4 \in Upper /\ 3 \in Upper /\ 2 \in Upper
    BY DEF Upper
  <2>4. d \in TablePage /\ kind[d] = 4
    BY <1>2 DEF Roots
  <2>5. \A t \in pdps : t \in TablePage /\ kind[t] = 3
    BY <1>2, <2>1, <2>3, <2>4 DEF Children, Tree
  <2>6. \A t \in pds : t \in TablePage /\ kind[t] = 2
    BY <1>2, <2>1, <2>3, <2>5 DEF Children, Tree
  <2>7. \A t \in pts : t \in TablePage /\ kind[t] = 1
    BY <1>2, <2>1, <2>3, <2>6 DEF Children, Tree
  <2> QED BY <2>2, <2>4, <2>5, <2>6, <2>7
<1>5. \A t \in tables : t \in Frame /\ kind[t] \in 1 .. 4
  BY <1>3, <1>4
<1>6. \A t \in HeapFrames : t \in Frame /\ kind[t] \in {9, 10}
  BY <1>2 DEF HeapFrames, Backed
<1>7. \A t \in taken : t \in Frame /\ kind[t] = 5
  BY <1>2 DEF TakenKinds
<1>8. \A t \in Frame : kind[t] # 0 => t \in vm.used
  <2>1. \A t \in Frame : t \in TablePage /\ t \in Nat
    BY VmmConstants
  <2> QED BY <1>2, <2>1 DEF Held, Live
<1>9. \A k : /\ k \in 1 .. 4 => k # 0 /\ k # 5 /\ k \notin {9, 10}
             /\ k = 5 => k # 0 /\ k \notin {9, 10}
             /\ k \in {9, 10} => k # 0
  OBVIOUS
<1>10. tables \cup HeapFrames \cup taken \subseteq vm.used
  BY <1>5, <1>6, <1>7, <1>8, <1>9
<1>11. tables \cap taken = {} /\ HeapFrames \cap (tables \cup taken) = {}
  BY <1>5, <1>6, <1>7, <1>9
<1> QED BY <1>3, <1>10, <1>11 DEF FramesAccounted

\* While there is room, the invariant holds and steps are steps of flat address spaces.
LEMMA AddressStays ==
    ASSUME Arranged
    PROVE  LoaderSpec => /\ Space!SpaceInit /\ [](Room => AddressInv)
                         /\ [][Room' => Space!SpaceNext]_Translation
<1>1. LoaderInit => VmmInv /\ AddressInv /\ Space!SpaceInit
  BY AddressStarts, VmmInvInit DEF LoaderInit
<1>2. VmmInv /\ (Room => AddressInv) /\ [LoaderNext]_loaderVars
        => /\ VmmInv' /\ (Room => AddressInv)'
           /\ [Room' => Space!SpaceNext]_Translation
  BY LoaderKeeps, RoomBefore, AddressStep
<1> QED BY <1>1, <1>2, PTL DEF LoaderSpec

\* Wherever the frames lie, those behind the addresses of the heap included, whatever
\* the program is and however clients map, unmap, make and free directories: until the
\* pool of static tables is used up, no frame of a table, of the heap or of a failed load
\* is handed out twice, and none holds a frame of another.
THEOREM FramesStayAccounted ==
    ASSUME Arranged
    PROVE  LoaderSpec => [](Room => FramesAccounted)
<1>1. (Room => AddressInv) => (Room => FramesAccounted)
  BY Accounted
<1> QED BY <1>1, AddressStays, PTL

\* As long, the tables, shared kernel half included, implement flat address spaces: no
\* operation on one page of one directory changes what another page or another
\* directory's user half translates to, and no load changes what anything translates to.
THEOREM LoaderImplementsAddressSpace ==
    ASSUME Arranged
    PROVE  LoaderSpec /\ []Room => ImplementsAddressSpace
<1>1. Room' /\ [Room' => Space!SpaceNext]_Translation => [Space!SpaceNext]_Translation
  OBVIOUS
<1> QED BY <1>1, AddressStays, PTL DEF ImplementsAddressSpace, Space!SpaceSpec
=============================================================================
