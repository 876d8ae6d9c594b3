-------------------------------- MODULE Pmm --------------------------------
(***************************************************************************)
(* The physical memory manager of the Gecko microkernel: the buddy         *)
(* allocator of src/fusion_os/gecko/pmm.c.                                 *)
(*                                                                         *)
(* A frame is named by its absolute frame number (physical address / 4096) *)
(* so that find_buddy's XOR on the byte address is an XOR of 2^order on    *)
(* the frame number.  free_lists[k] is a sequence whose head is the list   *)
(* head; pushes go to the front, exactly like the singly-linked lists of   *)
(* memory_block_t.  The callers of the allocator are the environment: they *)
(* hold the blocks they were given (a bag, so that handing out one block   *)
(* twice is visible) and give each back with the order they asked for, as  *)
(* the contract of pmm_free_pages requires.                                *)
(*                                                                         *)
(* The order field stored in a free block's header is not a variable: the  *)
(* coalescing loop tests it and then searches free_lists[order] for the    *)
(* buddy, and only free blocks have a header the allocator wrote, so the   *)
(* header test followed by the search succeeds exactly when the buddy is   *)
(* on free_lists[order].                                                   *)
(***************************************************************************)
EXTENDS Integers, Sequences, SequencesExt, FiniteSets, Bags, BagsExt, Bitwise

CONSTANTS
  MaxOrder,         \* MAX_ORDER (20 in pmm.h), scaled down
  Regions,          \* the Available memory-map entries, as <<base frame, frame count>>
  AllocOrders,      \* the orders callers request from pmm_alloc_pages
  MaxRequestPages,  \* the 100 MiB cap of validate_allocation, in pages
  AllocSizes,       \* the byte sizes callers pass to pmm_alloc and pmm_free
  SeedLists         \* TRUE: free lists seeded at boot as spec 4.1 says;
                    \* FALSE: as pmm_set_memory_map leaves them (empty)

ASSUME MaxOrder \in Nat /\ AllocOrders \subseteq 0..MaxOrder
ASSUME SeedLists \in BOOLEAN

VARIABLES
  freeList,   \* global_pmm.free_lists: order -> sequence of block frame numbers
  freePages,  \* global_pmm.free_pages
  held        \* bag of [addr, order] blocks the callers currently own

vars == <<freeList, freePages, held>>

Orders == 0..MaxOrder

\* pages_from_order
PagesFromOrder(order) == 2^order

\* order_from_pages: the smallest order with 2^order >= pages.
order_from_pages(n) == CHOOSE o \in 0..n : 2^o >= n /\ (o = 0 \/ 2^(o - 1) < n)

\* The pages a byte size rounds up to, as pmm_alloc and pmm_free count them.
PagesNeeded(size) == (size + 4095) \div 4096

\* Mutation variant: the buddy taken as the next block up, not by XOR.
FindBuddyNext(block, order) == block + PagesFromOrder(order)

\* find_buddy: block address XOR (2^order * PAGE_SIZE), on frame numbers
FindBuddy(block, order) == block ^^ PagesFromOrder(order)

\* The frames a block of the given order covers.
BlockFrames(block, order) == block..(block + PagesFromOrder(order) - 1)

\* pmm_set_memory_map: every Available entry adds its length to total_pages
\* (and to free_pages); nothing is put on a free list.
TotalPages == LET Len2(r) == r[2] IN MapThenSumSet(Len2, Regions)

ArenaFrames == UNION {r[1]..(r[1] + r[2] - 1) : r \in Regions}

\* validate_allocation: the three admission checks.  The gigabyte figures
\* are uint32 byte counts (pages * 4096) divided by 2^30; in pages, the byte
\* count wraps every 2^20 pages and a gigabyte is 2^18 pages.
ValidateAllocation(order) ==
  LET requested   == PagesFromOrder(order)
      totalGB     == (TotalPages % 2^20) \div 2^18
      requestedGB == (requested % 2^20) \div 2^18
  IN  /\ ~(requestedGB > totalGB /\ totalGB > 0)
      /\ ~(requested > TotalPages \div 2)
      /\ ~(requested > MaxRequestPages)

(***************************************************************************)
(* The seeding the spec (4.1) gives set_memory_map and the code omits:     *)
(* each region is cut, from its base upwards, into the largest naturally   *)
(* aligned blocks that fit, each pushed on the list of its order.          *)
(***************************************************************************)
LargestFit(base, len) ==
  LET fits(k) == base % PagesFromOrder(k) = 0 /\ PagesFromOrder(k) <= len
  IN  CHOOSE k \in Orders : fits(k) /\ \A j \in Orders : j > k => ~fits(j)

RECURSIVE CutRegion(_, _)
CutRegion(base, len) ==
  IF len = 0 THEN <<>>
  ELSE LET k == LargestFit(base, len)
       IN  <<[addr |-> base, order |-> k]>>
             \o CutRegion(base + PagesFromOrder(k), len - PagesFromOrder(k))

SeedBlocks ==
  FoldLeft(LAMBDA acc, r : acc \o CutRegion(r[1], r[2]), <<>>,
          SetToSortSeq(Regions, LAMBDA r1, r2 : r1[1] < r2[1]))

\* Pushing in cutting order leaves the last block cut at each list head.
SeededLists ==
  [k \in Orders |->
     Reverse([i \in 1..Len(SelectSeq(SeedBlocks, LAMBDA b : b.order = k)) |->
                SelectSeq(SeedBlocks, LAMBDA b : b.order = k)[i].addr])]

\* The allocator's state as a record, for callers that make several calls
\* in one step (the VMM and the page tables).
PS == [freeList |-> freeList, freePages |-> freePages, held |-> held]

\* pmm_init followed by pmm_set_memory_map.
InitPmm == [freeList  |-> IF SeedLists THEN SeededLists ELSE [k \in Orders |-> <<>>],
            freePages |-> TotalPages,
            held      |-> EmptyBag]

Init ==
  /\ freeList  = InitPmm.freeList
  /\ freePages = InitPmm.freePages
  /\ held      = InitPmm.held

\* NULL, the block pmm_alloc_pages returns when it fails.
NoBlock == 0

(***************************************************************************)
(* pmm_alloc_pages, split loop: pop the head of free_lists[cur], push the  *)
(* upper half at order cur-1, and go round again with cur-1.  The next     *)
(* round pops free_lists[cur-1], whose head is the half just pushed.       *)
(***************************************************************************)
\* Mutation variant: the popped block is left on its list.
RECURSIVE SplitNoPop(_, _, _)
SplitNoPop(lists, cur, order) ==
  IF cur <= order THEN lists
  ELSE LET block == Head(lists[cur])
           bo    == cur - 1
       IN  SplitNoPop([lists EXCEPT ![bo] = <<block + PagesFromOrder(bo)>> \o @],
                      bo, order)

RECURSIVE Split(_, _, _)
Split(lists, cur, order) ==
  IF cur <= order THEN lists
  ELSE LET block  == Head(lists[cur])
           popped == [lists EXCEPT ![cur] = Tail(@)]
           bo     == cur - 1
           buddy  == block + PagesFromOrder(bo)
       IN  Split([popped EXCEPT ![bo] = <<buddy>> \o @], bo, order)

\* The smallest order at or above order whose list is not empty.
SmallestNonEmpty(p, order) ==
  CHOOSE k \in order..MaxOrder :
    p.freeList[k] # <<>> /\ \A j \in order..(k - 1) : p.freeList[j] = <<>>

\* The end of pmm_alloc_pages on the split lists: the head of
\* lists[order] popped, handed to the caller and charged to free_pages.
PopBlock(p, lists, order) ==
  <<[freeList  |-> [lists EXCEPT ![order] = Tail(@)],
     freePages |-> p.freePages - PagesFromOrder(order),
     held      |-> BagAdd(p.held, [addr |-> Head(lists[order]), order |-> order])],
    Head(lists[order])>>

\* Mutation variant: free_pages is charged before the free lists are
\* searched, so an out-of-memory return still lowers it.
AllocBlockChargeFirst(p, order) ==
  IF order > MaxOrder \/ ~ValidateAllocation(order) THEN <<p, NoBlock>>
  ELSE IF \A k \in order..MaxOrder : p.freeList[k] = <<>>
       THEN <<[p EXCEPT !.freePages = @ - PagesFromOrder(order)], NoBlock>>
  ELSE PopBlock(p, Split(p.freeList, SmallestNonEmpty(p, order), order), order)

(***************************************************************************)
(* pmm_alloc_pages(order): the order and validate_allocation checks, the  *)
(* search for the smallest non-empty list (NULL when there is none), the  *)
(* split down to order, and the pop of the block handed out.  Returns     *)
(* <<allocator state, block or NoBlock>>.                                  *)
(***************************************************************************)
AllocBlock(p, order) ==
  IF order > MaxOrder \/ ~ValidateAllocation(order) THEN <<p, NoBlock>>
  ELSE IF \A k \in order..MaxOrder : p.freeList[k] = <<>> THEN <<p, NoBlock>>
  ELSE PopBlock(p, Split(p.freeList, SmallestNonEmpty(p, order), order), order)

\* Assigns the allocator's variables from a state record.
SetPmm(p) == freeList' = p.freeList /\ freePages' = p.freePages /\ held' = p.held

\* A caller calls pmm_alloc_pages(order).
AllocPages(order) == SetPmm(AllocBlock(PS, order)[1])

(***************************************************************************)
(* pmm_free_pages, coalescing loop: while below MAX_ORDER and the buddy is *)
(* on free_lists[order], unlink it, keep the lower address and go up one   *)
(* order.  Returns <<lists, block, order>> at the end of the loop.         *)
(***************************************************************************)
RECURSIVE Coalesce(_, _, _)
Coalesce(lists, block, order) ==
  LET buddy == FindBuddy(block, order)
  IN  IF order < MaxOrder /\ Contains(lists[order], buddy)
      THEN Coalesce([lists EXCEPT ![order] = RemoveFirst(@, buddy)],
                    IF block > buddy THEN buddy ELSE block, order + 1)
      ELSE <<lists, block, order>>

\* Mutation variant: the caller's block is pushed at the merged order
\* instead of the merged block.
PushMergedOrig(p, r, addr, order) ==
  [freeList  |-> [r[1] EXCEPT ![r[3]] = <<addr>> \o @],
   freePages |-> p.freePages + PagesFromOrder(r[3]),
   held      |-> BagRemove(p.held, [addr |-> addr, order |-> order])]

\* The end of pmm_free_pages on the result r = <<lists, block, order>> of
\* the coalescing loop: the merged block pushed on the list of its order.
PushMerged(p, r, addr, order) ==
  [freeList  |-> [r[1] EXCEPT ![r[3]] = <<r[2]>> \o @],
   freePages |-> p.freePages + PagesFromOrder(r[3]),
   held      |-> BagRemove(p.held, [addr |-> addr, order |-> order])]

(***************************************************************************)
(* pmm_free_pages(addr, order): NULL is ignored; otherwise the merged     *)
(* block is pushed on the list of its final order and free_pages grows by *)
(* the pages of that final order.  The caller's block [addr, order] is    *)
(* removed from held.                                                      *)
(***************************************************************************)
FreeBlock(p, addr, order) ==
  IF addr = NoBlock \/ order > MaxOrder THEN p ELSE PushMerged(p, Coalesce(p.freeList, addr, order), addr, order)

\* The caller holding b calls pmm_free_pages(b.addr, b.order).
FreePages(b) == SetPmm(FreeBlock(PS, b.addr, b.order))

\* pmm_alloc(size): NULL for size 0, else pmm_alloc_pages of the order
\* that covers the pages the size rounds up to.
pmm_alloc(p, size) ==
  IF size = 0 THEN <<p, NoBlock>> ELSE AllocBlock(p, order_from_pages(PagesNeeded(size)))

\* pmm_free(ptr, size): NULL is ignored, else pmm_free_pages with the
\* order the size rounds to.
pmm_free(p, ptr, size) ==
  IF ptr = NoBlock THEN p ELSE FreeBlock(p, ptr, order_from_pages(PagesNeeded(size)))

\* A caller calls pmm_alloc(size).
PmmAlloc(size) == SetPmm(pmm_alloc(PS, size)[1])

\* The caller holding b calls pmm_free with a size of the order it got
\* (the size it asked for, or another that rounds to the same order).
PmmFree(b, size) ==
  /\ order_from_pages(PagesNeeded(size)) = b.order
  /\ SetPmm(pmm_free(PS, b.addr, size))

Next ==
  \/ \E order \in AllocOrders : AllocPages(order)
  \/ \E b \in BagToSet(held) : FreePages(b)
  \/ \E size \in AllocSizes : PmmAlloc(size)
  \/ \E b \in BagToSet(held), size \in AllocSizes : PmmFree(b, size)

Spec == Init /\ [][Next]_vars

-----------------------------------------------------------------------------
(***************************************************************************)
(* Properties.                                                             *)
(***************************************************************************)
FreeEntries == UNION {{<<k, i>> : i \in 1..Len(freeList[k])} : k \in Orders}

EntryFrames(e) == BlockFrames(freeList[e[1]][e[2]], e[1])

TypeOK ==
  /\ freeList \in [Orders -> Seq(ArenaFrames)]
  /\ freePages \in Nat
  /\ IsABag(held)
  /\ \A b \in BagToSet(held) : b.addr \in ArenaFrames /\ b.order \in Orders

\* Every frame has at most one owner: no two free-list entries, no free-list
\* entry and a caller's block, and no two caller blocks (nor one block handed
\* out twice) share a frame.  Breaking it takes a split or a merge that
\* leaves a stale list head, over several allocations and frees.
NoOverlap ==
  /\ \A e1, e2 \in FreeEntries :
       e1 # e2 => EntryFrames(e1) \cap EntryFrames(e2) = {}
  /\ \A b \in BagToSet(held) :
       /\ CopiesIn(b, held) = 1
       /\ \A e \in FreeEntries : BlockFrames(b.addr, b.order) \cap EntryFrames(e) = {}
  /\ \A b1, b2 \in BagToSet(held) :
       b1 # b2 => BlockFrames(b1.addr, b1.order) \cap BlockFrames(b2.addr, b2.order) = {}

\* Every free block of order k lies inside the memory map and is naturally
\* aligned on 2^k frames, so the XOR of find_buddy names its real buddy; the
\* merge step of pmm_free_pages must keep the lower of the two addresses.
FreeBlocksAligned ==
  \A e \in FreeEntries :
    /\ freeList[e[1]][e[2]] % PagesFromOrder(e[1]) = 0
    /\ EntryFrames(e) \subseteq ArenaFrames

\* Spec 8.1: the pages on the free lists are exactly free_pages, i.e. the
\* list pages plus the used pages make up total_pages.
FreeListsMatchCounter ==
  freePages = MapThenSumSet(LAMBDA e : PagesFromOrder(e[1]), FreeEntries)


-----------------------------------------------------------------------------
(***************************************************************************)
(* Refinement: the buddy allocator implements FrameAllocator, with the     *)
(* frames of the free-list entries as the pool and the frames of the      *)
(* callers' blocks as the owned blocks.                                    *)
(***************************************************************************)
FreeFrames == UNION {EntryFrames(e) : e \in FreeEntries}

OwnedBlocks == {BlockFrames(b.addr, b.order) : b \in BagToSet(held)}

Abstract == INSTANCE FrameAllocator WITH Frames <- ArenaFrames, avail <- FreeFrames, owned <- OwnedBlocks

\* pmm_alloc_pages hands out frames that were on the free lists and owned by
\* no caller, and its split loop puts back only frames of the block it
\* popped; pmm_free_pages's coalescing loop unlinks buddies and pushes the
\* merged block so that exactly the freed block's frames become free.  No
\* call makes a frame free that no caller gave back.
RefinesFrameAllocator == Abstract!Spec

=============================================================================
