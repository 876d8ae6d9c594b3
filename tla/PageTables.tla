----------------------------- MODULE PageTables -----------------------------
(***************************************************************************)
(* The x86-64 four-level page tables of src/unnamed/part_004               *)
(* (page_tables.c) and the entry helpers of page_tables.h, as operators on *)
(* a state record [pmm, mem]:                                              *)
(*   pmm  the physical allocator's state, changed only through the         *)
(*        operator parameters PmmAllocPage and PmmFreePage, which stand    *)
(*        for pmm_alloc_page and pmm_free_page;                            *)
(*   mem  the contents of physical memory read as page tables: frame ->    *)
(*        index -> entry.                                                  *)
(* A virtual address is its virtual page number (address >> 12); all the  *)
(* addresses the kernel uses are page aligned, so PAGE_OFFSET is 0.  An    *)
(* entry is [frame, bits]: the physical frame its address field holds and  *)
(* the set of the flag bit positions that are 1 (PTE_P = 0, PTE_W = 1,     *)
(* PTE_U = 2, PTE_NX = 63).  Only the indices the modelled addresses use   *)
(* (Idx) are kept; every other entry of every table stays zero.            *)
(***************************************************************************)
EXTENDS Integers, Sequences

CONSTANTS
  Frames,           \* every physical frame an entry can name, NULL's frame 0 included
  Idx,              \* the table indices the modelled addresses use
  NULL,             \* the frame number of the NULL pointer: 0
  PmmAllocPage(_),  \* pmm_alloc_page: pmm state -> <<pmm state, frame or NULL>>
  PmmFreePage(_, _) \* pmm_free_page: pmm state, frame -> pmm state

\* Bit positions of the PTE_* flags of page_tables.h.
PTE_P  == 0
PTE_W  == 1
PTE_U  == 2
PTE_NX == 63

Entry == [frame : Frames, bits : SUBSET {PTE_P, PTE_W, PTE_U, PTE_NX}]

\* The zero entry, and a page of them (the memset of create_page_table_page).
ZeroPte  == [frame |-> NULL, bits |-> {}]
ZeroPage == [i \in Idx |-> ZeroPte]

\* PML4_INDEX .. PT_INDEX, on page numbers: (addr >> s) & 0x1ff with the
\* 12 bits of page offset already shifted out.
PML4_INDEX(v) == (v \div 2^27) % 512
PDPT_INDEX(v) == (v \div 2^18) % 512
PD_INDEX(v)   == (v \div 2^9) % 512
PT_INDEX(v)   == v % 512

\* The range check at the top of walk_page_table and map_virtual_address:
\* an address of the lower half is valid iff it is at most 0x7fffffffffff,
\* that is iff its PML4 index is below 256.
Canonical(v) == PML4_INDEX(v) < 256

\* pte_present
pte_present(e) == PTE_P \in e.bits

\* create_pte: the page address masked into bits 12..51, ORed with flags.
create_pte(frame, flags) == [frame |-> frame, bits |-> flags]

\* The walk's result when it returns NULL (no table to index).
NoTable == -1

(***************************************************************************)
(* walk_page_table: the frame of the last-level table whose PT_INDEX(v)   *)
(* entry is v's PTE, or NoTable when the address is out of range or an     *)
(* upper-level entry is not present.  A present entry's frame is followed  *)
(* whatever it is, NULL's frame 0 included.                               *)
(***************************************************************************)
walk_page_table(mem, root, v) ==
  LET e4 == mem[root][PML4_INDEX(v)]
      e3 == mem[e4.frame][PDPT_INDEX(v)]
      e2 == mem[e3.frame][PD_INDEX(v)]
  IN  IF ~Canonical(v) \/ ~pte_present(e4) \/ ~pte_present(e3) \/ ~pte_present(e2)
      THEN NoTable
      ELSE e2.frame

\* The frame entry i of last-level table t maps, or NULL.
MappedFrame(mem, t, i) ==
  IF t # NoTable /\ pte_present(mem[t][i]) THEN mem[t][i].frame ELSE NULL

\* get_physical_address: the frame v maps to, or NULL.
get_physical_address(mem, root, v) ==
  MappedFrame(mem, walk_page_table(mem, root, v), PT_INDEX(v))

\* The memset of create_page_table_page on the page r = <<pmm state, frame
\* or NULL>> that pmm_alloc_page returned.
Zeroed(st, r) ==
  IF r[2] = NULL
  THEN <<[st EXCEPT !.pmm = r[1]], NULL>>
  ELSE <<[pmm |-> r[1], mem |-> [st.mem EXCEPT ![r[2]] = ZeroPage]], r[2]>>

\* create_page_table_page: pmm_alloc_page, and a memset of the page when
\* it is not NULL.  Returns <<state, frame or NULL>>.
create_page_table_page(st) == Zeroed(st, PmmAllocPage(st.pmm))

\* destroy_page_table_page: pmm_free_page unless NULL.
destroy_page_table_page(st, frame) ==
  IF frame = NULL THEN st ELSE [st EXCEPT !.pmm = PmmFreePage(@, frame)]

\* Entry i of table tbl set to create_pte(page, PTE_P | PTE_W) for the
\* result c = <<state, page or NULL>> of create_page_table_page.
Link(c, tbl, i) == <<[c[1] EXCEPT !.mem[tbl][i] = create_pte(c[2], {PTE_P, PTE_W})], c[2]>>

(***************************************************************************)
(* One level of map_virtual_address: if entry i of table tbl is not       *)
(* present it becomes create_pte(create_page_table_page(), P|W), whether  *)
(* or not the page could be allocated.  Returns <<state, the frame the     *)
(* entry now names>>, the next level's table.                             *)
(***************************************************************************)
NextLevel(st, tbl, i) ==
  IF pte_present(st.mem[tbl][i])
  THEN <<st, st.mem[tbl][i].frame>>
  ELSE Link(create_page_table_page(st), tbl, i)

\* The levels of map_virtual_address from l = <<state, table>> through
\* the indices idx, top level first.
RECURSIVE Descend(_, _)
Descend(l, idx) ==
  IF idx = <<>> THEN l ELSE Descend(NextLevel(l[1], l[2], Head(idx)), Tail(idx))

\* The last level of map_virtual_address: -1 if entry i of the table is
\* present, else the entry written and 0.
SetPte(l, i, frame, flags) ==
  IF pte_present(l[1].mem[l[2]][i])
  THEN <<l[1], -1>>
  ELSE <<[l[1] EXCEPT !.mem[l[2]][i] = create_pte(frame, flags)], 0>>

(***************************************************************************)
(* map_virtual_address(root, v, frame, flags): -1 for an address out of   *)
(* range; otherwise the three upper levels are made present, then -1 if   *)
(* v's PTE is already present, else the PTE is written and 0 returned.    *)
(* Returns <<state, return code>>.                                         *)
(***************************************************************************)
map_virtual_address(st, root, v, frame, flags) ==
  IF ~Canonical(v) THEN <<st, -1>>
  ELSE SetPte(Descend(<<st, root>>, <<PML4_INDEX(v), PDPT_INDEX(v), PD_INDEX(v)>>),
              PT_INDEX(v), frame, flags)

\* The PTE the walk found (t) zeroed, present or not; nothing if none.
ClearPte(st, t, i) == IF t = NoTable THEN st ELSE [st EXCEPT !.mem[t][i] = ZeroPte]

\* unmap_virtual_address
unmap_virtual_address(st, root, v) ==
  ClearPte(st, walk_page_table(st.mem, root, v), PT_INDEX(v))
====
