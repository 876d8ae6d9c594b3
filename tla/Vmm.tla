-------------------------------- MODULE Vmm --------------------------------
(***************************************************************************)
(* The virtual memory manager of src/unnamed/part_005 (vmm.c) and the     *)
(* kernel-space memory calls of the Gecko facade (src/unnamed/part_002),  *)
(* over the page tables of PageTables and the buddy allocator of Pmm.     *)
(*                                                                         *)
(* Every public call is one atomic step: the kernel runs these calls with *)
(* no lock, but no caller in the repository makes them concurrently.  The *)
(* callers are the environment.  They only free what they were given,     *)
(* with the size they asked for, and only unmap what they mapped.         *)
(* An address space is Kernel (the static kernel_address_space) or the    *)
(* frame of the page vmm_create_address_space allocated for its struct.   *)
(*                                                                         *)
(* The contents of a frame are kept only as page-table entries (mem);    *)
(* a data page keeps whatever entries it last held.  Frame 0, which the   *)
(* code reaches through NULL pointers, starts zeroed.                     *)
(***************************************************************************)
EXTENDS Integers, Sequences, FiniteSets, TLC

CONSTANTS
  MaxOrder, Regions, AllocOrders, MaxRequestPages, SeedLists,  \* of Pmm
  DeviceFrames,   \* physical frames outside RAM that callers map (device memory)
  AllocSizes,     \* byte sizes callers pass to the allocation calls
  UserFlags,      \* the VMM_* flag sets callers pass for user-space calls
  MapVpns,        \* page numbers callers pass to vmm_map_page
  MaxSpaces       \* bound on the user address spaces alive at once

VARIABLES
  freeList, freePages, held,  \* the buddy allocator's state (Pmm)
  mem,         \* frame -> index -> page-table entry
  kernelRoot,  \* kernel_address_space.page_table_root
  root,        \* user space (its struct frame) -> its page_table_root
  cr3,         \* the CR3 register
  allocs,      \* ghost: the allocations the callers hold
  devmaps      \* ghost: the <<space, page>> mappings callers made with vmm_map_page

vars == <<freeList, freePages, held, mem, kernelRoot, root, cr3, allocs, devmaps>>

P == INSTANCE Pmm

NULL == 0

\* pmm_alloc_page and pmm_free_page: the order-0 calls of the allocator.
PmmAllocPage(p) == P!AllocBlock(p, 0)
PmmFreePage(p, f) == P!FreeBlock(p, f, 0)

Frames == {NULL} \cup P!ArenaFrames \cup DeviceFrames

\* vmm.c's two fixed bases: 0x100000 for vmm_alloc_memory and 0x200000 for
\* vmm_alloc_page, as page numbers.
AllocBase == 256
PageBase  == 512

\* The pages the model touches; the table indices they use.
MaxPages == 2^MaxOrder
Vpns == (AllocBase..(AllocBase + MaxPages - 1)) \cup {PageBase} \cup MapVpns

Idx == UNION {{(v \div 2^27) % 512, (v \div 2^18) % 512, (v \div 2^9) % 512, v % 512} :
                v \in Vpns}

PT == INSTANCE PageTables

Kernel == -1       \* &kernel_address_space, static: no frame
BootTables == -2   \* the tables the boot loader left in CR3

\* VMM_* flags of vmm.h, as the set of the bits that are set.
VMM_READ   == 1
VMM_WRITE  == 2
VMM_EXEC   == 4
VMM_USER   == 8
VMM_KERNEL == 16

\* The flag translation of vmm_alloc_memory, vmm_alloc_page and
\* vmm_map_page.  page_flags is a uint32_t, so PTE_NX (bit 63) is lost when
\* it is ORed in.
page_flags(flags) ==
  LET pte  == (VMM_READ :> PT!PTE_P) @@ (VMM_WRITE :> PT!PTE_W) @@ (VMM_USER :> PT!PTE_U)
      wide == {pte[f] : f \in flags \cap DOMAIN pte}
                \cup IF VMM_EXEC \in flags THEN {} ELSE {PT!PTE_NX}
  IN  {b \in wide : b < 32}


\* The page count of the size computations of vmm_alloc_memory and
\* vmm_free_memory: size rounded up to whole pages.
page_count(size) == (size + 4095) \div 4096

\* validate_allocation (vmm.c): byte checks against pmm_get_free_memory,
\* half of pmm_get_total_memory, and 100 MB.
validate_allocation(p, size) ==
  /\ size <= p.freePages * 4096
  /\ size <= (P!TotalPages * 4096) \div 2
  /\ size <= 100 * 1024 * 1024

Spaces == {Kernel} \cup DOMAIN root

RootOf(s) == IF s = Kernel THEN kernelRoot ELSE root[s]

\* The state the page-table operators work on.
VS == [pmm |-> P!PS, mem |-> mem]

\* Assigns the allocator's variables and mem from a state record.
SetVS(st) == P!SetPmm(st.pmm) /\ mem' = st.mem

(***************************************************************************)
(* The mapping loop of vmm_alloc_memory from page i on: page i of the     *)
(* block at AllocBase + i.  Returns <<state, the first page whose map     *)
(* failed, or n>>.  MapStep continues it on the result r of one map.      *)
(***************************************************************************)
RECURSIVE MapPages(_, _, _, _, _, _), MapStep(_, _, _, _, _, _)
MapPages(st, rt, block, i, n, fl) ==
  IF i = n THEN <<st, n>>
  ELSE MapStep(PT!map_virtual_address(st, rt, AllocBase + i, block + i, fl), rt, block, i, n, fl)
MapStep(r, rt, block, i, n, fl) ==
  IF r[2] # 0 THEN <<r[1], i>> ELSE MapPages(r[1], rt, block, i + 1, n, fl)

\* unmap_virtual_address of n consecutive pages from page v on: the
\* cleanup loop of vmm_alloc_memory and the loop of vmm_free_memory.
RECURSIVE UnmapPages(_, _, _, _)
UnmapPages(st, rt, v, n) ==
  IF n = 0 THEN st ELSE UnmapPages(PT!unmap_virtual_address(st, rt, v), rt, v + 1, n - 1)

\* Mutation variant: the cleanup frees the block with the page count
\* where pmm_free_pages takes an order.
MappedOrUndoneFreeCount(rt, n, block, m) ==
  IF m[2] < n
  THEN <<[UnmapPages(m[1], rt, AllocBase, m[2]) EXCEPT
            !.pmm = P!FreeBlock(@, block, n)], NULL, NULL>>
  ELSE <<m[1], AllocBase, block>>

\* Mutation variant: the cleanup frees the block without unmapping the
\* pages mapped before the failure.
MappedOrUndoneNoUnmap(rt, n, block, m) ==
  IF m[2] < n
  THEN <<[m[1] EXCEPT !.pmm = P!FreeBlock(@, block, P!order_from_pages(n))], NULL, NULL>>
  ELSE <<m[1], AllocBase, block>>

\* The end of vmm_alloc_memory on the result m of the mapping loop: on a
\* failed map the pages mapped before it are unmapped and the block freed.
MappedOrUndone(rt, n, block, m) ==
  IF m[2] < n
  THEN <<[UnmapPages(m[1], rt, AllocBase, m[2]) EXCEPT
            !.pmm = P!FreeBlock(@, block, P!order_from_pages(n))], NULL, NULL>>
  ELSE <<m[1], AllocBase, block>>

\* vmm_alloc_memory after pmm_alloc_pages returned a = <<pmm, block>>.
AllocThenMap(st, rt, n, a, fl) ==
  IF a[2] = P!NoBlock THEN <<[st EXCEPT !.pmm = a[1]], NULL, NULL>>
  ELSE MappedOrUndone(rt, n, a[2], MapPages([st EXCEPT !.pmm = a[1]], rt, a[2], 0, n, fl))

(***************************************************************************)
(* vmm_alloc_memory(space, size, flags): validate_allocation, one        *)
(* pmm_alloc_pages block of order_from_pages(page_count), then the pages *)
(* mapped one by one at 0x100000.  Returns <<state, address or NULL,      *)
(* block>>.                                                                *)
(***************************************************************************)
vmm_alloc_memory(st, rt, size, flags) ==
  IF ~validate_allocation(st.pmm, size) THEN <<st, NULL, NULL>>
  ELSE AllocThenMap(st, rt, page_count(size),
                    P!AllocBlock(st.pmm, P!order_from_pages(page_count(size))), page_flags(flags))

\* vmm_free_memory(space, addr, size): every page unmapped;
\* find_physical_address returns NULL, so no frame is given back.
vmm_free_memory(st, rt, v, size) == UnmapPages(st, rt, v, page_count(size))

\* vmm_alloc_page after the map of frame f returned m: the frame is freed
\* again when the map failed.
PageOrFree(m, f) ==
  IF m[2] # 0 THEN <<[m[1] EXCEPT !.pmm = PmmFreePage(@, f)], NULL, NULL>>
  ELSE <<m[1], PageBase, f>>

\* vmm_alloc_page after pmm_alloc_page returned a = <<pmm, frame>>.
PageThenMap(st, rt, a, fl) ==
  IF a[2] = NULL THEN <<[st EXCEPT !.pmm = a[1]], NULL, NULL>>
  ELSE PageOrFree(PT!map_virtual_address([st EXCEPT !.pmm = a[1]], rt, PageBase, a[2], fl), a[2])

\* vmm_alloc_page(space, flags): one page mapped at 0x200000.  Returns
\* <<state, address or NULL, frame>>.
vmm_alloc_page(st, rt, flags) == PageThenMap(st, rt, PmmAllocPage(st.pmm), page_flags(flags))

\* vmm_free_page(space, addr): the page unmapped, its frame not freed.
vmm_free_page(st, rt, v) == PT!unmap_virtual_address(st, rt, v)

\* vmm_map_page: the flag translation and map_virtual_address.
vmm_map_page(st, rt, v, frame, flags) == PT!map_virtual_address(st, rt, v, frame, page_flags(flags))

\* Mutation variant: the root is not checked for NULL.
SpaceOrFreeNoCheck(a, c) == <<c[1], a[2], c[2]>>

\* vmm_create_address_space after the struct page a = <<pmm, frame>> and
\* the root table c = <<state, frame>> were asked for.
SpaceOrFree(a, c) ==
  IF c[2] = NULL THEN <<[c[1] EXCEPT !.pmm = PmmFreePage(@, a[2])], NULL, NULL>>
  ELSE <<c[1], a[2], c[2]>>

StructThenRoot(st, a) ==
  IF a[2] = NULL THEN <<[st EXCEPT !.pmm = a[1]], NULL, NULL>>
  ELSE SpaceOrFree(a, PT!create_page_table_page([st EXCEPT !.pmm = a[1]]))

\* vmm_create_address_space: a page for the struct, then a root table;
\* without a root the struct page is freed again.  Returns <<state,
\* struct frame or NULL, root>>.
vmm_create_address_space(st) == StructThenRoot(st, PmmAllocPage(st.pmm))

\* vmm_destroy_address_space: the root table page and the struct page are
\* freed; no other table of the space is.
vmm_destroy_address_space(st, s, rt) ==
  [PT!destroy_page_table_page(st, rt) EXCEPT !.pmm = PmmFreePage(@, s)]

-----------------------------------------------------------------------------
(***************************************************************************)
(* Boot: the allocator as Pmm starts it (the memory map given and the    *)
(* free lists seeded), then vmm_init, whose create_page_table_page gives *)
(* the kernel space its root table.                                       *)
(***************************************************************************)
Booted(c) ==
  /\ freeList = c[1].pmm.freeList
  /\ freePages = c[1].pmm.freePages
  /\ held = c[1].pmm.held
  /\ mem = c[1].mem
  /\ kernelRoot = c[2]

Init ==
  /\ Booted(PT!create_page_table_page([pmm |-> P!InitPmm, mem |-> [f \in Frames |-> PT!ZeroPage]]))
  /\ root = [s \in {} |-> NULL]
  /\ cr3 = BootTables
  /\ allocs = {}
  /\ devmaps = {}

\* An allocation a caller holds.
Alloc(space, va, pages, block) == [space |-> space, va |-> va, pages |-> pages, block |-> block]

\* The caller of an allocation call in space s that returned r = <<state,
\* address or NULL, block>> holds n pages more when it succeeded.
Allocated(s, n, r) ==
  /\ SetVS(r[1])
  /\ allocs' = IF r[2] = NULL THEN allocs ELSE allocs \cup {Alloc(s, r[2], n, r[3])}
  /\ UNCHANGED <<kernelRoot, root, cr3, devmaps>>

\* A caller asks for size bytes in space s: vmm_alloc_kernel_memory (the
\* gecko_alloc_page, gecko_alloc_pages and gecko_alloc_kernel_memory calls,
\* flags VMM_KERNEL | VMM_READ | VMM_WRITE) for the kernel, vmm_alloc_memory
\* with flags fl for a user space.
VmmAllocMemory(s, size, fl) ==
  Allocated(s, page_count(size), vmm_alloc_memory(VS, RootOf(s), size, fl))

\* The holder of a frees it: vmm_free_kernel_memory (gecko_free_page,
\* gecko_free_pages, gecko_free_kernel_memory), which frees PAGE_SIZE
\* whatever was allocated, for the kernel; vmm_free_memory with the size
\* asked for, for a user space.
VmmFreeMemory(a) ==
  /\ a.va = AllocBase
  /\ SetVS(vmm_free_memory(VS, RootOf(a.space), a.va,
                           IF a.space = Kernel THEN 4096 ELSE a.pages * 4096))
  /\ allocs' = allocs \ {a}
  /\ UNCHANGED <<kernelRoot, root, cr3, devmaps>>

\* vmm_alloc_page(space, flags).
VmmAllocPage(s, fl) == Allocated(s, 1, vmm_alloc_page(VS, RootOf(s), fl))

\* vmm_free_page(space, addr) by the holder of a page vmm_alloc_page gave.
VmmFreePage(a) ==
  /\ a.va = PageBase
  /\ SetVS(vmm_free_page(VS, RootOf(a.space), a.va))
  /\ allocs' = allocs \ {a}
  /\ UNCHANGED <<kernelRoot, root, cr3, devmaps>>

\* A vmm_map_page of page v in space s that returned r = <<state, code>>.
Mapped(s, v, r) ==
  /\ SetVS(r[1])
  /\ devmaps' = IF r[2] = 0 THEN devmaps \cup {<<s, v>>} ELSE devmaps
  /\ UNCHANGED <<kernelRoot, root, cr3, allocs>>

\* vmm_map_page of a device frame (gecko_map_virtual_memory for the kernel).
VmmMapPage(s, v, f, fl) == Mapped(s, v, vmm_map_page(VS, RootOf(s), v, f, fl))

\* vmm_unmap_page (gecko_unmap_virtual_memory for the kernel) of a mapping
\* the caller made.
VmmUnmapPage(d) ==
  /\ SetVS(PT!unmap_virtual_address(VS, RootOf(d[1]), d[2]))
  /\ devmaps' = devmaps \ {d}
  /\ UNCHANGED <<kernelRoot, root, cr3, allocs>>

\* A vmm_create_address_space that returned r = <<state, struct, root>>.
Created(r) ==
  /\ SetVS(r[1])
  /\ root' = IF r[2] = NULL THEN root ELSE root @@ (r[2] :> r[3])
  /\ UNCHANGED <<kernelRoot, cr3, allocs, devmaps>>

\* vmm_create_address_space, while fewer than MaxSpaces user spaces live.
VmmCreateAddressSpace ==
  /\ Cardinality(DOMAIN root) < MaxSpaces
  /\ Created(vmm_create_address_space(VS))

\* vmm_destroy_address_space of a user space; what its callers held in it
\* is gone with it.
VmmDestroyAddressSpace(s) ==
  /\ SetVS(vmm_destroy_address_space(VS, s, root[s]))
  /\ root' = [x \in DOMAIN root \ {s} |-> root[x]]
  /\ allocs' = {a \in allocs : a.space # s}
  /\ devmaps' = {d \in devmaps : d[1] # s}
  /\ UNCHANGED <<kernelRoot, cr3>>

\* vmm_switch_address_space: CR3 gets the space's root.
VmmSwitchAddressSpace(s) ==
  /\ cr3' = RootOf(s)
  /\ UNCHANGED <<freeList, freePages, held, mem, kernelRoot, root, allocs, devmaps>>

KernelFlags == {VMM_KERNEL, VMM_READ, VMM_WRITE}

(***************************************************************************)
(* The memory calls of the gecko facade (part_001): the kernel-space      *)
(* callers of the VMM.                                                    *)
(***************************************************************************)
\* gecko_alloc_page, gecko_alloc_pages(count) and
\* gecko_alloc_kernel_memory(size): vmm_alloc_kernel_memory of 4096,
\* count * 4096 and size bytes (the uint32 product wraps from 2^20 pages
\* on, far above the counts the runs pass).
gecko_alloc_page == VmmAllocMemory(Kernel, 4096, KernelFlags)
gecko_alloc_pages(count) == VmmAllocMemory(Kernel, count * 4096, KernelFlags)
gecko_alloc_kernel_memory(size) == VmmAllocMemory(Kernel, size, KernelFlags)

\* gecko_free_page, gecko_free_pages and gecko_free_kernel_memory of a
\* kernel allocation: each skips NULL and calls vmm_free_kernel_memory,
\* whatever count they are given.
gecko_free_kernel_memory(a) == a.space = Kernel /\ VmmFreeMemory(a)

\* gecko_map_virtual_memory: flag bits 1, 2, 4 and 8 copied into the VMM
\* flags, then vmm_map_page in the kernel space (never NULL: it is static).
gecko_map_virtual_memory(v, f, flags) ==
  VmmMapPage(Kernel, v, f, flags \cap {VMM_READ, VMM_WRITE, VMM_EXEC, VMM_USER})

\* gecko_unmap_virtual_memory: vmm_unmap_page in the kernel space.
gecko_unmap_virtual_memory(d) == d[1] = Kernel /\ VmmUnmapPage(d)

\* The page counts kernel callers pass to gecko_alloc_pages.
GeckoPageCounts == {page_count(size) : size \in AllocSizes}

Next ==
  \/ gecko_alloc_page
  \/ \E count \in GeckoPageCounts : gecko_alloc_pages(count)
  \/ \E size \in AllocSizes : gecko_alloc_kernel_memory(size)
  \/ \E a \in allocs : gecko_free_kernel_memory(a)
  \/ \E v \in MapVpns, f \in DeviceFrames, fl \in UserFlags : gecko_map_virtual_memory(v, f, fl)
  \/ \E d \in devmaps : gecko_unmap_virtual_memory(d)
  \/ \E s \in DOMAIN root, size \in AllocSizes, fl \in UserFlags : VmmAllocMemory(s, size, fl)
  \/ \E a \in allocs : a.space # Kernel /\ VmmFreeMemory(a)
  \/ \E s \in Spaces, fl \in UserFlags : VmmAllocPage(s, fl)
  \/ \E a \in allocs : VmmFreePage(a)
  \/ \E s \in DOMAIN root, v \in MapVpns, f \in DeviceFrames, fl \in UserFlags : VmmMapPage(s, v, f, fl)
  \/ \E d \in devmaps : d[1] # Kernel /\ VmmUnmapPage(d)
  \/ VmmCreateAddressSpace
  \/ \E s \in DOMAIN root : VmmDestroyAddressSpace(s)
  \/ \E s \in Spaces : VmmSwitchAddressSpace(s)

Spec == Init /\ [][Next]_vars
-----------------------------------------------------------------------------
(***************************************************************************)
(* Properties.                                                             *)
(***************************************************************************)
TypeOK ==
  /\ P!TypeOK
  /\ DOMAIN mem = Frames
  /\ \A f \in Frames : DOMAIN mem[f] = Idx /\ \A i \in Idx : mem[f][i] \in PT!Entry
  /\ kernelRoot \in P!ArenaFrames
  /\ DOMAIN root \subseteq P!ArenaFrames /\ \A s \in DOMAIN root : root[s] \in P!ArenaFrames
  /\ cr3 \in Frames \cup {BootTables}
  /\ allocs \subseteq [space : Spaces, va : {AllocBase, PageBase}, pages : 1..MaxPages,
                       block : P!ArenaFrames]
  /\ devmaps \subseteq Spaces \X MapVpns

\* The frames on the free lists.
FreeFrames == UNION {P!EntryFrames(e) : e \in P!FreeEntries}

\* The four table indices of page v, top level first.
Indices(v) == <<PT!PML4_INDEX(v), PT!PDPT_INDEX(v), PT!PD_INDEX(v), PT!PT_INDEX(v)>>

\* The frames the present entries name along the walk from table t
\* through the indices idx: the tables below t, then the mapped page.
RECURSIVE Reached(_, _)
Reached(t, idx) ==
  IF idx = <<>> THEN {}
  ELSE LET e == mem[t][Head(idx)]
       IN  IF PT!pte_present(e) THEN {e.frame} \cup Reached(e.frame, Tail(idx)) ELSE {}

\* No frame a live address space uses is free: not its struct page, not
\* its root, not a table below it, not a page it maps.  Freeing a frame
\* that a page table still names (a cleanup that frees before it unmaps,
\* a destroy that frees a table still linked) lets the allocator hand the
\* frame out again while the hardware still walks it.
LiveFramesNotFree ==
  \A s \in Spaces :
    /\ s # Kernel => s \notin FreeFrames
    /\ \A v \in Vpns : ({RootOf(s)} \cup Reached(RootOf(s), Indices(v))) \cap FreeFrames = {}

\* Every allocation a caller holds is mapped where vmm_alloc_memory or
\* vmm_alloc_page said it is: page i of it translates, in its space, to
\* frame i of the block it was given (spec 8.3).  Only the flag sets with
\* VMM_READ are enumerated, so every allocation is mapped present.
AllocationsMapped ==
  \A a \in allocs : \A i \in 0..(a.pages - 1) :
    PT!get_physical_address(mem, RootOf(a.space), a.va + i) = a.block + i

\* The VMM is a caller of the buddy allocator that keeps its contract: it
\* frees only blocks it was given, with the order it asked for, once
\* (the cleanup of vmm_alloc_memory, the struct page of a failed
\* vmm_create_address_space, the root and struct page of a destroyed
\* space).  Seen through the refinement mapping of Pmm, the allocator the
\* VMM drives still implements FrameAllocator, each VMM step being the net
\* effect of the allocator calls it makes.
AllocatorContractKept == P!Abstract!CallsSpec
====
