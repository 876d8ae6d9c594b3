# TLA+ models of the Fusion OS kernel core

This directory holds TLA+ models of the Gecko microkernel in `src/fusion_os/gecko`, of its file-system service (the VFS and the fs driver) and of the Dolphin terminal's command line with the string library it runs on, the TLC configurations that check them, and `PROJECT.json`. `PROJECT.json` lists:

- the components;
- the runs and what each one shows;
- the mutants;
- the map from every modelled definition to the source lines it translates;
- the findings;
- the hazards of the code.

## The system

The kernel core (spec section 1) has these parts. Their initialization order is set by `kernel_main` (`src/unnamed/part_000`) and `gecko_init` (`src/unnamed/part_001`).

| Part | Source | Interacts with |
|---|---|---|
| Physical memory manager (buddy allocator) | `gecko/pmm.c` | used by VMM, IPC (message pages), list nodes |
| Virtual memory manager | `unnamed/part_005` (vmm.c) | takes frames from PMM, edits page tables |
| Page tables | `unnamed/part_004` (page_tables.c) | frames for table pages from PMM |
| Scheduler | `gecko/ipc.h` lines 84-483 (scheduler.c is stored there) | kernel stacks from VMM; queues from `common/list.c` |
| IPC | `gecko/ipc.c` | message and queue pages from PMM; sender from the scheduler |
| Intrusive lists | `common/list.c` lines 1-109 | scheduler queues, IPC queues, service registry |
| SMP / APIC | `gecko/smp.c` | hardware only |
| Logger | `unnamed/part_012` (logger.c), `common/logger.h` | used by everything; a byte ring buffer with a reader |
| ext2 driver | `common/list.c` lines 110-739 (ext2.c is stored there), `common/ext2.h` | a RAM disk given as a name string; blocks and buffers from `gecko_alloc_kernel_memory`; no caller in the tree |
| VFS | `unnamed/part_010` (vfs.c), `common/vfs.h` | inodes and superblocks from `gecko_alloc_kernel_memory` (the VMM) |
| fs driver | `unnamed/part_007` (fs_driver.c) | calls the VFS; called by the shell (`fs_create`) |
| Terminal | `dolphin/terminal.c` | keys from the keyboard driver; parses lines with `strdup` and `strtok`; draws on the framebuffer |
| String library | `common/string.c` | `malloc` over a static 1 MiB pool with a no-op `free`; `strtok` with a static position; used by the terminal and the logger |

Device drivers, the VFS, ext2, the file-system service, the logger, the terminal, the framebuffer and the string library sit outside the core the spec scopes.

## Modules

| Module | Models | State | Actions |
|---|---|---|---|
| `Pmm` | `pmm.c` | `freeList` (order → sequence of block frame numbers, head first), `freePages`, `held` (bag of blocks the callers own) | `AllocPages(order)`, `FreePages(b)` |
| `IntrusiveList` | `list.c` | none: pure operators on a heap record `[next, prev, lists]` | `ListAddTail`, `ListRemove`, `ListIsEmpty`, `EmptyList`, `WalkFrom` |
| `Scheduler` | scheduler.c in `ipc.h` | the task table (`state`, `task_id`, `time_remaining`), every slot's `next`/`prev`, the three queues, `current_task`, `next_task_id`, `task_count`, `scheduler_running`, `hung` | one per public function |
| `Ipc` | `ipc.c` | every queue (`queue`: message sequence and `current_messages`), `service_registry`, `service_count`, the `registered_services` pointers, the free pages of a page pool, and ghost sets of accepted and delivered messages and of live registrations | one per public function |
| `PageTables` | `page_tables.c` (`unnamed/part_004`) and `page_tables.h` | none: operators on a state record `[pmm, mem]` | `walk_page_table`, `map_virtual_address`, `unmap_virtual_address`, `get_physical_address`, `create_page_table_page`, `destroy_page_table_page` |
| `Vmm` | `vmm.c` (`unnamed/part_005`) and the memory calls of the gecko facade (`unnamed/part_002` lines 43-91), composed with `Pmm` and `PageTables` | `Pmm`'s variables, `mem` (frame → index → entry), `kernelRoot`, `root` (struct page → root table of each user space), `cr3`, and ghost sets of the allocations and device mappings callers hold | one per public function |
| `Vfs` | `vfs.c` (`unnamed/part_010`) | none: operators on a state record (mount table, descriptor table, `next_file_id`, the kernel heap read as inodes) | `vfs_init`, `vfs_mount`, `vfs_umount`, `vfs_open`, `vfs_close`, `vfs_read`, `vfs_write`, `vfs_seek`, `vfs_mkdir`, `find_mount_point`, `vfs_lookup` |
| `FsDriver` | `fs_driver.c` (`unnamed/part_007`) over `Vfs` | `Vfs`'s record as variables, plus `fsInit`, `mfs`, `table` and the catalogue `entries` | one per request case of `fs_driver_process` and per `fs_*` helper, plus `vfs_mount`/`vfs_umount` as environment steps |
| `Logger` | `logger.c` (`unnamed/part_012`) | `started`, `config`, the buffer `buf` byte by byte, `log_head`, `log_tail`, `log_count`, and the ghost sequence `logged` of the entries written since the last clear | `LoggerInit`, `LoggerLog`, `LoggerVlog`, `LoggerSetConfig`, `LoggerClearBuffer`, `LoggerSetLevel`, `LoggerEnableDebug`, `LoggerDisableDebug`; `logger_get_entries` is an operator |
| `Ext2` | ext2.c (`common/list.c` lines 110-739) | `ext2_initialized`, `mounted_filesystems` (the counters of each mount), the RAM disk `disk` (block → 1024 bytes), `fault`, and the ghosts `created` and `calls` | `Ext2Init`, `Ext2Mount`, `Ext2Umount`, `Ext2CreateFile`, `Ext2WriteData`, `Ext2DeleteFile` |
| `CString` | `string.c` | none: operators on a library record `[pool, memory_used, token_ptr]`, and on byte arrays | `malloc`, `free`, `strdup`, `strtok`, `strcpy`, `strncpy`, `strlen`, `strcmp`, `strchr`, `memmove` |
| `FrameAllocator` | the allocator's contract (abstract) | `avail`, `owned` | `Alloc(B)`, `Free(B)` |
| `Terminal` | `terminal.c` over `CString` | `command_buffer`, the rows of `command_history` with `command_history_count`, the library record `lib`, and the ghosts `last_run` (the last line parsed to an argument), `entered` (the non-empty lines) and `blocks` (what `malloc` returned) | `HandlePrintable(k)`, `HandleBackspace`, `HandleEnter`; `terminal_execute_command` and `terminal_add_history` are operators |
| `MCPmm`, `MCScheduler`, `MCIpc`, `MCVmm`, `MCFsDriver`, `MCLogger`, `MCExt2`, `MCTerminal` | — | instantiate the modules for TLC | — |

`MCPmm` also supplies the memory maps, which are tuple sets that a `.cfg` cannot hold.

### Pmm

A frame is named by its frame number: the physical address divided by 4096. `find_buddy`'s XOR on byte addresses is then an XOR of `2^order` on frame numbers (`FindBuddy`, using `Bitwise`).

`AllocPages` is the whole of `pmm_alloc_pages`:

- the `validate_allocation` checks, including the uint32 wrap of the byte count (`ValidateAllocation`);
- the search for the smallest non-empty list;
- the split loop (`Split`, recursive, exactly as the code does it: pop the head, push the upper half, continue at the lower order);
- the final pop and the `free_pages` decrement.

`FreePages` is `pmm_free_pages`:

- the coalescing loop (`Coalesce`, recursive);
- the push on the list of the final order;
- the `free_pages` increment.

`PmmAlloc(size)` and `PmmFree(b, size)` are the byte-size wrappers `pmm_alloc` and `pmm_free`. A size of 0 gives `NULL` with no state change. Otherwise the size is rounded up to pages (`PagesNeeded`), and the pages to an order (`order_from_pages`, shared with `Vmm`), before the call goes to `pmm_alloc_pages` or `pmm_free_pages`. A caller frees through `pmm_free` with a size whose order is the block's order, as the contract asks. `AllocSizes` bounds the sizes: 0, one page and three pages (order 2).

The block-header `order` field is not a variable. Only free blocks carry a header that the allocator wrote, so "the header says `order` and the search of `free_lists[order]` finds the buddy" holds exactly when the buddy is on that list.

Callers are the environment. They free exactly the blocks they hold, with the order they asked for, which is the allocator's contract (spec 3.1).

`pmm_set_memory_map` only adds to `total_pages` and `free_pages`; it never fills a free list. Spec 4.1 says it seeds the lists with the largest aligned blocks that fit each region. The constant `SeedLists` chooses:

- `TRUE`: the spec's seeding (`SeededLists`). This is the only way the allocation code can be exercised at all.
- `FALSE`: the code's empty lists.

`FrameAllocator` is what a frame allocator promises, with no orders, lists or buddies. It has a pool of available frames, `avail`, and the blocks callers own, `owned`. An allocation takes a non-empty block of available, unowned frames and may take further frames out of the pool; nothing ever puts them back. A free returns exactly the block's frames. No other step makes a frame available. `Pmm` instantiates it with `Frames <- ArenaFrames`, `avail <- FreeFrames` (the frames of the free-list entries) and `owned <- OwnedBlocks` (the frames of the callers' blocks). `RefinesFrameAllocator` is the abstract `Spec`, checked as a property of `pmm_safety`. The split leak is allowed by the abstraction, because the leaked halves never return; the refinement rules out everything else: a split putting back frames it did not pop, a merge that drops or adds frames, and a block handed out that was not free.

`FrameAllocator!Init` allows blocks that are already owned when checking starts. A composition starts after boot, and the boot step has allocated by then: `vmm_init`'s kernel root is held before any VMM call runs. `Calls` is the allocator as seen by a caller that makes several allocator calls in one of its own steps, for example an allocation that also allocates page tables, or a cleanup that frees what it had allocated. Such a step is judged by its net effect. Every block handed out was available before the step and is no longer available after it. Blocks handed out together are disjoint. A frame becomes available only because a block containing it was given back, and every frame given back is available again unless it was handed out anew in the same step. `CallsSpec` is `Init /\ [][Calls]_vars`.

### IntrusiveList

The operators are pure functions from the heap to the heap after the call, so that a scheduler function that makes several list calls is one action.

`list_remove` checks neither membership nor the node's own list. Its two halves are evaluated in the code's order: the second reads `node->next` after the first may have written through `node->prev`. That order matters for self-linked nodes.

### Scheduler

Each public function is one action and includes all the functions it calls:

- `SchedulerStart` (`scheduler_start`, including its call to `scheduler_create_task`);
- `SchedulerCreateTask` (`scheduler_create_task`, with the stack allocation's outcome chosen from `BOOLEAN`; `scheduler_create_thread` is the success case);
- `SchedulerYield` (`scheduler_yield`, ending in `scheduler_schedule`);
- `SchedulerSchedule`;
- `SchedulerTerminate(id)`;
- `SchedulerBlock(reason)` for `reason ∈ {TASK_BLOCKED, TASK_SLEEPING}`;
- `SchedulerUnblock(id)`.

`id` ranges over all ids that can be handed out, plus 0 and ones never handed out. The operators `Schedule`, `CreateTask`, `Yield`, … take the state record `S` and return the record after the call. `Apply` assigns the result.

State encoding:

- States keep the code's integer encoding (`TASK_RUNNING = 0` … `TASK_TERMINATED = 4`). That encoding is what makes the zeroed table matter.
- `task_count` is a uint32 that the model keeps signed: a negative value `v` stands for `2^32 + v`, so the unsigned `task_count >= MAX_TASKS` test is `TaskCountBelow`.
- `select_next_task` walks the ready queue until NULL. If the walk has not ended after `MaxTasks` nodes, the queue is cyclic, the code loops for ever, and the model sets `hung` and stops.

Left out:

- `priority`, because nothing selects on it;
- `policy`, which is always `SCHED_RR`;
- the timing fields, because `system_uptime` is never advanced;
- the register state of `context_switch`.

There is no timer action, because no code decrements `time_remaining`.

`Init` is the state `scheduler_init` leaves: its `memset` gives every slot state 0, which is `TASK_RUNNING`, and task id 0. From there no task is ever created. The slot search finds no Terminated slot, so `scheduler_start` fails. `scheduler_terminate_task(0)` does free slot 0, but it decrements `task_count` from 0, and the wrapped `uint32` fails the `task_count >= MAX_TASKS` test of every later creation. TLC reaches 2 states. The other actions are modelled from the code, but no state the code's boot can reach enables them usefully, so no property is checked of them: a property checked from a start the code never has would say nothing about the code.

### Ipc

Each public function of `ipc.c` is one action over the state record, with the functions it calls folded in:

- `IpcSend` is `ipc_send_message` with `create_message` (`CreateMessage`);
- `IpcReceive` is `ipc_receive_message`;
- `IpcRegister` is `ipc_register_service` with `ipc_create_queue` (`CreateQueue`);
- `IpcUnregister` is `ipc_unregister_service` with `ipc_destroy_queue` (`DestroyQueue`, which frees nothing);
- `IpcLookup` is `ipc_lookup_service`;
- `IpcBroadcast` is `ipc_broadcast_message`, a fold of `SendMessage` over the registry walk.

A queue is named by an integer: `SysQ = 0` is `system_message_queue` and `1..MaxQueues` are the service queues `ipc_register_service` allocates. Messages are only added at the tail and removed at the head, each on its own list, so a queue is a sequence. The registry list can have a node linked twice, so it stays at pointer level (`IntrusiveList`).

A message is abstracted to a ghost id, which lets the properties follow it, and a length. Pages come from a pool counted in `poolFree`; the composition with `Pmm` is left for later. The receive's busy wait cannot see a message arrive, because nothing else runs meanwhile, so a receive on an empty queue returns -1.

`hung` names the function whose registry walk never ends (`"unregister"`, `"lookup"` or `"broadcast"`), or is `Running`. It is detected as in the scheduler: no `NULL` after `MaxServices` nodes. Lookup changes no state except by spinning.

### PageTables

A virtual address is its page number (`address >> 12`); every address the kernel uses is page aligned. An entry is `[frame, bits]`, with `bits` the set of flag bit positions that are 1. Only the table indices the modelled addresses use (`Idx`) are kept; all other entries stay zero.

The allocator is a parameter: `PmmAllocPage(_)` and `PmmFreePage(_, _)` are operator constants, which `Vmm` supplies as `pmm_alloc_page` and `pmm_free_page` of the `Pmm` module. Each operator takes and returns the state record, so one kernel call that allocates, zeroes and writes several entries is one step.

`map_virtual_address` keeps the code's behaviour when `create_page_table_page` returns `NULL`: the entry becomes present with frame 0 (`Link`), and the walk continues through frame 0. Frame 0 is in `Frames` and starts zeroed.

### Vmm

`Vmm` instances `Pmm` (its variables are shared) and `PageTables`. Each action is a whole call:

- `VmmAllocMemory(s, size, fl)`: `vmm_alloc_memory`, which validates the size, allocates one block of `order_from_pages(page_count)`, maps page `i` at `0x100000 + i` and, when a map fails, unmaps the pages mapped before and frees the block. For the kernel this is `vmm_alloc_kernel_memory` with `VMM_KERNEL | VMM_READ | VMM_WRITE`, as the `gecko_alloc_*` calls use it.
- `VmmFreeMemory(a)`: `vmm_free_memory`. It unmaps, but `find_physical_address` returns `NULL`, so no frame is given back. For the kernel it is `vmm_free_kernel_memory`, which frees one page whatever was allocated.
- `VmmAllocPage`, `VmmFreePage`: `vmm_alloc_page` (one frame mapped at `0x200000`), `vmm_free_page`.
- `VmmMapPage`, `VmmUnmapPage`: `vmm_map_page` of a device frame and `vmm_unmap_page` (for the kernel, `gecko_map_virtual_memory` and `gecko_unmap_virtual_memory`).
- `VmmCreateAddressSpace`, `VmmDestroyAddressSpace`, `VmmSwitchAddressSpace`.
- `gecko_alloc_page`, `gecko_alloc_pages(count)`, `gecko_alloc_kernel_memory(size)`, `gecko_free_kernel_memory(a)`, `gecko_map_virtual_memory(v, f, flags)`, `gecko_unmap_virtual_memory(d)`: the gecko facade's memory calls (`part_002` lines 43-91). These are the kernel-space disjuncts of `Next`. Each passes its request to the VMM call above with the kernel space and `VMM_KERNEL | VMM_READ | VMM_WRITE`, or, for a map, keeps only the read, write, exec and user bits of the caller's flags. `gecko_free_page` and `gecko_free_pages` are the same call as `gecko_free_kernel_memory`. `gecko_alloc_pages` multiplies in a `uint32_t`; the product wraps only from 2^20 pages, far beyond the sizes checked.

The user-space disjuncts call `vmm_*` directly on a space other than the kernel's.

`AllocatorContractKept` is `Pmm`'s `FrameAllocator` instance taken one level further: `P!Abstract!CallsSpec`, checked as a property of `vmm_safety`. Every VMM step, with all the allocator calls it makes, must keep the allocator's contract as a caller sees it. In particular the cleanup of a half-mapped allocation must give back exactly the block it took, and `vmm_destroy_address_space` must give back only tables the space owned.

`page_flags` is the flag translation. The code computes it in a `uint32_t`, so `PTE_NX` (bit 63) is lost; the model drops every bit from 32 up.

`Init` is the allocator as `Pmm` starts it, followed by `vmm_init`, whose `create_page_table_page` gives the kernel its root. `kernel_main` never calls `pmm_set_memory_map` (a defect listed below), so with the code's boot the kernel root is `NULL` and nothing can be allocated. `Vmm` therefore starts from the spec's boot: the memory map given and the lists seeded.

Callers are the environment. The ghost set `allocs` holds what `vmm_alloc_memory` and `vmm_alloc_page` returned, and each is freed once by its holder with the call that matches it. `devmaps` holds the device mappings made. Destroying a space drops what its callers held in it.

### Vfs and FsDriver

The kernel heap is abstract. `gecko_alloc_kernel_memory` (`Kmalloc`) returns any free object of `Objs`, or `NULL`; the action picks which with `\E`, so any allocation may fail. The real allocator fails every second live allocation (it maps all of them at `0x100000`), and that is one of these behaviours. A pointer is a `Ref`: an object together with the allocation (generation) that returned it. A pointer kept after its object was freed is therefore told apart from a live one. Following such a pointer is undefined behaviour: the operator sets `ub`, and no step follows. `add_file_entry` through a `NULL` `file_entries` is recorded the same way.

Paths are sequences of one-character strings, because `find_mount_point` matches mount paths as character prefixes (`strncmp`). `vfs_lookup` returns the mount's root inode for every path under a mount, as the code does, since no superblock has a `mount` operation. `next_file_id` saturates at `VFS_MAX_FILE_DESCRIPTORS`: every larger value behaves the same until the `uint32_t` wraps.

`FsDriver` keeps the same state as separate variables (`FS` and `SetFS` convert). Each action is one whole call with every VFS call it makes: `fs_create_file` is `vfs_open`, `vfs_write`, `vfs_close` and `add_file_entry` in one step. Nothing in the tree calls `vfs_mount` or `fs_driver_init`. Both are steps the environment may take in any order, because `fs_create_file` is reachable from the shell whatever was initialised.

No call ever creates a file inode: mounts and `vfs_mkdir` make directories, and `vfs_open` without a match fails. So `vfs_write` always fails its type test, and `vfs_read` reads nothing. The file paths of both are modelled all the same.

### Logger

The buffer is kept byte by byte, because `logger_get_entries` parses it back from the bytes. An entry is the 8 timestamp bytes, the level, the low byte of the subsystem length, the subsystem, the low byte of the message length and the message. Characters are one byte value (`TextByte`), so an entry is known by its level and its two lengths. `write_log_to_buffer` wraps `log_head` to 0 when the whole entry does not fit (`WrapTo`) and grows `log_count` while it is below the number of entries of that size that fit. `logger_get_entries` is the operator of the same name: it starts at `log_tail`, which nothing advances, and wraps its cursor when fewer than 10 header bytes are left (`HeaderAt`). A parse that runs past the buffer ends the list in `OutOfBounds`. `logger_log` and `logger_vlog` call `logger_init` first when `log_start_time` is 0, as the code does. The copy to the VGA console is left out.

### Ext2

The RAM disk is a function from block numbers to 1024-byte blocks. The driver's structures are read and written as little-endian fields at their C offsets: `ext2_inode_t` is 120 bytes, `i_links_count` at 26 and `i_block` at 40. A call is one action over a working record `[disk, fs, n, fail, fault]`. `n` counts the call's heap allocations, and the allocation numbered `fail` returns `NULL`, so every early return of the code is a behaviour. The action picks `fail` from `AllocFails`; 0 means no allocation fails. Copies that leave a heap buffer (an inode straddling its block, a write source shorter than the copy) and the endless directory walk end in `fault`, and no step follows.

`ext2_mount` never reads the device: it makes a superblock and a group descriptor with fixed counters and writes a fresh root inode. `allocate_block` and `allocate_inode` share `AllocateIn`: the first clear bit of the bitmap block, set and written back, with the counter decremented; they return `bitmap + 1 + bit` and `bit + 1`. `ext2_create_file`, `ext2_write_data` and `ext2_delete_file` follow the code step by step, every `read_inode`, `write_inode`, `read_block` and `write_block` included. The ghost set `created` records each file that `ext2_create_file` reported created, with its parent and name.

### CString and Terminal

`string.c` keeps state in two places: `malloc`'s bump pointer `memory_used` over the static `memory_pool`, and `strtok`'s static `token_ptr`. `CString` keeps both in a record, with the pool as a byte array indexed from 0, so `strtok` works on the pool's bytes: it skips delimiters (`SkipDelims`), finds the token's end (`SkipToken`), writes a NUL there and moves `token_ptr` past it. `free` returns the record unchanged, as the code does nothing. `memmove` works on any array indexed by integers: it copies forward when the destination is below the source, and backward from the end otherwise. A caller's string outside the pool is the sequence of its bytes without the NUL.

`Terminal` keeps the command line of `terminal.c`: a printable key is stored while it leaves room for the NUL, backspace drops the last byte, and enter runs `terminal_handle_enter` whole. The whole handler means adding to the history (at capacity, `memmove` of the overlapping rows 1 to `SIZE - 1` onto rows 0 to `SIZE - 2`, then `strncpy` into the row at the count), `terminal_execute_command` (`strdup`, `strtok(cmd_copy, " \t")`, the argument loop up to the argv bound, and the lookup by `strcmp` in registration order), and clearing the buffer. The text grid is kept too, in `screen`: `cursor_x`, `cursor_y`, `scroll_offset` and `terminal_area.y`. `terminal_write_char` wraps lazily (only when the next character finds the cursor at `TERMINAL_WIDTH_CHARS`), then scrolls one line and steps back a row when the wrap passed the last row. `terminal_write_string` is that loop in closed form over the string's length, checked equal to the loop for every cursor and length up to 25 on a 12 by 3 grid (a recursion over the characters exceeds TLC's stack). `terminal_printf` writes the length `vsnprintf` returns into its 256-byte buffer, and `CString` models `vsprintf` by the characters it writes for each literal run and conversion. The handlers print what their format strings give: `help` prints `"  -10s - "` and the name, since `vsprintf` has no width flags and the `%-10s` consumes no argument; `exit` prints, then runs `terminal_clear`, which resets the cursor and `scroll_offset` but not `terminal_area.y`. Enter moves to the next row, writes the prompt, and only then checks for a scroll. Drawing is left out: `terminal_text_draw_char` and the other text routines are declared but defined nowhere. The ghost `last_run` records each line that parsed to at least one argument: the line, its argv, the handler found (0 for "command not found") and whether `strdup` copied it. `Words` is the reference split: the maximal runs of non-delimiters, defined by where they start and end rather than by scanning.

## Runs

The pass runs check the properties the code keeps. The violation runs each check one property that the spec or the code's own comments state and the code breaks. Each violation is recorded as a finding in `PROJECT.json`.

### Pmm runs

| Run | Config | Expect | What it shows |
|---|---|---|---|
| `pmm_safety` | `MCPmm_safety.cfg` | pass | `NoOverlap`: no frame has two owners, whether free-list entries or callers' blocks, and no block is handed out twice. `FreeBlocksAligned`: every free block is aligned and inside the map. `RefinesFrameAllocator`: the allocator implements `FrameAllocator` under the refinement mapping. 2587 states. |

### Scheduler runs

| Run | Config | Expect | What it shows |
|---|---|---|---|
| `sched_codeinit` | `MCScheduler_codeinit.cfg` | violation | `RunningIsCurrent` (spec 8.5, exactly one task per CPU is Running, and it is `current_task`): violated by the initial state. `scheduler_init` zeroes the task table, so both slots are Running while `current_task` is `NULL` (ipc.h:166). |

### IPC runs

| Run | Config | Expect | What it shows |
|---|---|---|---|
| `ipc_safety` | `MCIpc_safety.cfg` | pass | `QueueCountsMatch`: every queue's `current_messages` equals its list length and stays within `max_messages`. It holds while the registry list gets corrupted and walks spin. 139759 states (with symmetry). |
| `ipc_findable` | `MCIpc_findable.cfg` | violation | `RegisteredServicesFindable`: register A and B, unregister A, then register C, which overwrites B's slot (ipc.c:258). |

### VMM runs

| Run | Config | Expect | What it shows |
|---|---|---|---|
| `vmm_safety` | `MCVmm_safety.cfg` | pass | `LiveFramesNotFree`: no frame a live space uses is on a free list. That covers its struct page, every table reachable from its root, the pages callers hold and the roots, through allocation failure, cleanup of a half-mapped allocation, destruction and switching. `AllocatorContractKept`: every VMM step, counted by its net allocator calls, refines `FrameAllocator!CallsSpec`. 89520 states. |
| `vmm_mapped` | `MCVmm_mapped.cfg` | violation | `AllocationsMapped` (spec 8.3): a device mapping made when no table page is left links frame 0 as a table, and a later allocation's PTE goes through it. Unmapping the device page then removes the allocation's mapping (part_004:62). |

### VFS runs

| Run | Config | Expect | What it shows |
|---|---|---|---|
| `vfs_safety` | `MCFsDriver_safety.cfg` | pass | `LookupFindsLongestMount`: in every reachable mount table, `find_mount_point` resolves each path to the longest matching active mount point, and the first slot among duplicates; the reference definition is declarative. It holds through failed initialisation, mounts, umounts and every driver call, up to the undefined behaviour where behaviours end. 5634 states. |
| `vfs_uaf` | `MCFsDriver_uaf.cfg` | violation | `LiveReferences`: `fs_driver_init` fails after `vfs_init`, `vfs_mount("/")` succeeds, and `fs_create_file("/")` opens and closes the root. `vfs_open` took no reference, so `vfs_close` frees the root inode that `mount_points[0]` still points to (part_010:243). The same call then writes a catalogue entry through the `NULL` `file_entries` (part_007:66). |

### Logger runs

| Run | Config | Expect | What it shows |
|---|---|---|---|
| `log_safety` | `MCLogger_safety.cfg` | pass | `ReadsBackLogged`: until the writer first wraps, `logger_get_entries` parses back exactly the entries logged since the last clear, oldest first, and no more than `log_count` says, through every interleaving of logging, filtering, configuration changes and clears. 18672 states. |

### ext2 runs

| Run | Config | Expect | What it shows |
|---|---|---|---|
| `ext2_lost` | `MCExt2_lost.cfg` | violation | `CreatedFilesListed`: mount, then create two files in the root. `ext2_create_file` writes each entry at offset 0 of the directory's block (list.c:501), so the second entry replaces the first, and the first file, reported created, is not listed. The directory's block is block 4, which is also the inode bitmap (list.c:160). 93 states. |

### Terminal runs

| Run | Config | Expect | What it shows |
|---|---|---|---|
| `term_safety` | `MCTerminal_safety.cfg` | pass | `ArgvAreWords`: when `strdup` copied the line, the argv the command is looked up and run with is the line's first words, through `strtok`'s NULs, repeated delimiters and the argv bound. `PoolBlocksDisjoint`: `malloc`'s blocks lie inside the pool and never overlap, through the rounding of `memory_used` and the pool filling up. `HistoryIsLastLines`: the rows below the count are the last `COMMAND_HISTORY_SIZE` non-empty lines, through the `memmove` of overlapping rows at capacity. `CursorOnGrid`: the cursor stays on the grid, and once the screen has scrolled it is on the last row, through the echo's lazy wrap, the prompt written past the last row before enter's scroll check, handler output and `exit`'s clear. 2125815 states, about 70 seconds. |
| `term_stale` | `MCTerminal_stale.cfg` | violation | `HandlersRunTypedWords`: enter " ", then "a a a" with one argv entry, which leaves `token_ptr` inside the copy, then " ". The pool is full because `free` does nothing (string.c:464), so `strdup` returns `NULL`, and `strtok(NULL, ..)` hands out the earlier line's next word "a" (string.c:193). The handler of `a` runs for a line holding only a space. |

### Defects met while modelling that no run keeps

The project is limited to a few runs. Most of these are recorded as hazards in `PROJECT.json` with the line where they bite:

- `pmm_alloc_pages`'s split loop puts only the upper half of each split block back, so the lower halves leak and `free_pages` no longer matches the lists (pmm.c:163; `Pmm!FreeListsMatchCounter` states it);
- `scheduler_block_task` leaves the Running task on the ready queue, and a later yield links the same node onto a second queue (ipc.h:391; `Scheduler!QueuesWellFormed` states it);
- `find_mount_point` matches by character prefix, so with `/a` mounted the path `/ab` resolves into it (part_010:136);
- `vsprintf` has no `%p` (it prints `p` and takes no argument, so later ones shift), prints `%u` and `%x` through the signed conversion, and `int_to_str(INT_MIN)` negates an overflowing value; `vsnprintf` formats in full before it truncates, so `terminal_printf("command not found: %s\n", ..)` with a first word of 236 characters or more overruns its 256-byte buffer (string.c:436);
- `strchr(s, 0)` returns `NULL` rather than the terminator (string.c:471);
- `terminal_scroll_up` adds a line height to `terminal_area.y` each time, and nothing resets it, not even `terminal_clear`, so after `clear` the cursor is at row 0 of a text area shifted down by every earlier scroll (terminal.c:306, terminal.c:141);
- backspace after a wrap moves `cursor_x` back only down to 0, so the cursor stays at the start of the row while the buffer loses characters of the row above (terminal.c:175);
- `terminal_write_char` draws `\n` as a glyph, so every handler's trailing newline takes a cell instead of ending the row (terminal.c:225);
- `help` never prints the descriptions: `%-10s` is printed as `-10s` and the name fills the `%s` (terminal.c:491);

- `pmm_set_memory_map` counts the available pages as free but puts no block on any free list, and `kernel_main` never calls it (pmm.c:80);
- `scheduler_init` zeroes the task table, and 0 is `TASK_RUNNING`, so every slot reads as a Running task and creation finds no free slot (ipc.h:166). The other scheduler defects in this list were found with slots started as Terminated. On the code's boot, this one masks them, and no run checks them;

- `pmm_free_pages` credits the merged order's pages, so `free_pages` can pass `total_pages` (pmm.c:228);
- a failed stack allocation leaves a Ready, uncounted slot (ipc.h:257), and `task_count` can wrap;
- the Running task stays on the ready queue (ipc.h:371);
- the corrupted scheduler queues can become cyclic, and `select_next_task` then spins (ipc.h:136, a 23-step trace);
- `ipc_create_queue`'s page, a message refused by a full queue, and the messages of a destroyed queue are never freed (ipc.c:93, 175, 121; the first is not a hazard entry);
- re-registering a linked slot makes `registered_services` cyclic, and unregister then spins (ipc.c:278, an 11-step trace);
- the VMM maps every page executable: `page_flags` is a `uint32_t`, so `PTE_NX` is truncated (vmm.c, part_005:164, 226, 266);
- `vmm_free_memory` and `vmm_free_page` never give frames back, because `find_physical_address` returns `NULL` (part_005:203, 251);
- `vmm_destroy_address_space` frees only the root table and the struct page, not the tables below the root (part_005:117, not a hazard entry);
- `vmm_alloc_memory` maps every allocation at `0x100000`, so at most one kernel allocation is live at a time, and `vfs_mount` and `fs_driver_init` can never succeed (part_005:156);
- `vfs_mkdir` links the inode it makes nowhere, and `vfs_umount` frees neither superblock nor root: both leak (part_010:366, 402, not a hazard entry);
- `scheduler_terminate_task` leaves `current_task` on the terminated slot, and a later yield makes it Ready again under its old id (ipc.h:390);
- `ipc_receive_message` dequeues the message before it checks the caller's buffer, so a too-small buffer loses it (ipc.c:218);
- `logger_get_entries` starts at `log_tail`, which never moves, and wraps its cursor by a different test than the writer: after the first wrap it parses older entries from the middle (part_012:242). TLC finds `Logger!EntriesReadAreLogged` violated in three calls, but nothing in the tree calls the reader;
- `ext2_mount` ignores the device and rewrites the root inode, so a second mount forgets every file (list.c:263);
- ext2 inode 9 straddles its block, so `ext2_read_inode` and `ext2_write_inode` copy past the 1024-byte buffer (list.c:298);
- `ext2_delete_file` of a name that is not the first entry loops forever on the zero `rec_len` after the last entry (list.c:733);
- `ext2_find_inode` passes the directory's block number where an inode number is expected (list.c:393), `ext2_write_data`'s copy length is computed from the whole size rather than what is left, and a size of 0 wraps its last block number (list.c:523, 559);
- `fs_create_file` adds a catalogue entry without a duplicate check (part_007:227, not a hazard entry);
- `next_file_id` is never reused, so after 63 opens every `vfs_open` fails (part_010:201);
- `cmd_memory` divides by `pmm_get_total_memory()`, which is 0 on the code's boot because nothing calls `pmm_set_memory_map`: typing `memory` divides by zero (terminal.c:526, not a hazard entry).

Every property of a pass run has a mutant in `PROJECT.json`. A mutant is a plausible bug in a mapped definition under which TLC finds the property violated:

- the split leaving the popped block on its list;
- the buddy computed as the next block rather than by XOR;
- `free_pages` charged before the out-of-memory test;
- the send's capacity test off by one;
- `ipc_create_queue` not testing its page for `NULL`;
- `vmm_create_address_space` not testing the root for `NULL`;
- `vmm_alloc_memory`'s cleanup freeing the block without unmapping the pages already mapped;
- the same cleanup passing the page count to `pmm_free_pages` where the order belongs;
- `vfs_init` starting `next_file_id` at 0;
- `find_mount_point` replacing its best match on an equally long one (`>=`);
- the writer's wrap test leaving out the entry's size (`TypeOK` catches the write past the end);
- `logger_clear_buffer` not resetting `log_count`;
- a printable key stored when the buffer has only room for the NUL;
- `strtok` not writing the NUL at a token's end;
- `malloc` rounding `memory_used` down rather than up;
- `memmove`'s direction test inverted;
- `terminal_handle_enter` not scrolling after the prompt;
- `pmm_free_pages` pushing the caller's block rather than the merged one.

## Bounds

### Pmm

`MaxOrder = 2` and a memory map `{<<8,2>>, <<10,2>>, <<12,4>>, <<16,3>>}`, which is 11 frames seeded as 8@1, 10@1, 12@2, 16@1, 18@0. Requests are for orders 0 to 2.

The regions are adjacent, so merges across seeded blocks happen. A single aligned region never merges, because of the split leak: a block's buddy is always lost or held. The map contains every list length from 0 to 3, odd-sized regions and a top-order block.

### Scheduler

- `MaxTasks = 2` slots.
- Ids up to `MaxTaskId = 3`.
- Queue counters up to `MaxListCount = 2`.
- `task_count` may fall to `-MaxCountWrap = -1`, that is, one wrap below zero.

Two slots are enough for every interaction between a current task and another task: switching, blocking while the other is Ready, terminating either, and reusing a slot. The corruption traces, such as the cyclic queue, need no more than two nodes. These bounds live in the action guards (`WithinBounds`), so a step that would exceed one is not taken.

`CHECK_DEADLOCK FALSE` in the scheduler run: from the code's start, the state after terminating slot 0 has no successor within the `task_count` bound.

### Ipc

`ipc_safety` and the IPC violation runs use:

- three slots and three names, with one handler. With two slots the stale name in slot 0 always blocks the overwrite, so no corruption is reachable.
- a service queue capacity of 2 and a system queue capacity of 1;
- four pages, at most two messages and two service queues;
- message lengths `{1, 2}` and buffer lengths `{1, 2}`;
- a registry list count of at most `MaxListCount = 3`, with `service_count` allowed to fall to `-1`.

This reaches the following:

- a full system queue;
- two messages on one service queue;
- both outcomes of a receive;
- the pool running dry;
- a registration falling back to the system queue;
- the slot overwrite;
- a cyclic registry list.

Names are compared only for equality, so the runs use symmetry over `Names` (`MCIpc!NameSymmetry`).

`CHECK_DEADLOCK FALSE`, for the same reason as the scheduler: the states without a successor are the spinning ones and the bounds.

### Vmm

`MaxOrder = 1`, allocation orders `{0}` for the allocator's own callers, and one region of 12 frames at frame 8 (`MCVmm`). The split leak leaves six order-1 blocks usable, so the allocator runs dry after a few calls. `MaxSpaces = 1` user space at a time, with creation and destruction repeatable. The kernel and user allocations ask for 4096 or 8192 bytes. One device frame (1) and the virtual pages 257 and 512 are available to `vmm_map_page`; 512 collides with `vmm_alloc_page`'s page and 257 with the second page of `vmm_alloc_memory`.

These bounds reach every branch: allocation success, the out-of-memory return, a map failing on a page already present (with the cleanup), the root allocation failing after the struct page succeeded, and tables linked to frame 0. Two live user spaces gave more than 2.5 million states without finishing. One live space already interleaves with the kernel space, which is the only other space.

`vmm_mapped` uses an 8-frame region, so that table allocation fails early.

Deadlock is checked: `vmm_switch_address_space` to the kernel space is always enabled, so no state may lack a successor.

### Vfs and FsDriver

- four heap objects with one allocation each (`MaxGen = 1`), two mount slots, `VFS_MAX_FILE_DESCRIPTORS = 3` (ids 1 and 2 are handed out), at most two catalogue entries;
- mount paths `/` and `/a`, and driver paths `/`, `/a` and `/a/b`;
- one-byte reads and writes, open flags `2` (write) and `16` (`O_CREAT`), and seek offsets `-1` and `1` with every `whence`, `3` (invalid) included.

Four objects are two mounts (a superblock and a root each), or a mount plus the driver's two allocations. That is what duplicate mounts, two descriptors on different roots and `next_file_id` running out need. A freed object is not handed out again (`MaxGen = 1`), but a pointer to it is still recognised as stale, which is all the properties need; with `MaxGen = 2` the run did not finish in the time limit. The paths make `/a/b` resolve through `/a` when it is mounted and through `/` otherwise, and give `vfs_mkdir` both parent cases (`/` and a deeper one).

`CHECK_DEADLOCK FALSE`: the only states without a successor are those where a call ran into undefined behaviour (`ub`); every other state can at least take a failing `vfs_seek`.

### Logger

`LOG_BUFFER_SIZE = 40` (16384 in the code), subsystem length 1, message lengths 1 and 2, levels 0 to 2, `MaxRead = 4`, at most `MaxLogs = 4` entries between clears. Entries are 14 or 15 bytes, so the buffer holds two and the third wraps: both sides of the wrap test, the `log_count` cap and the filters of every level are reached. The sizes only scale the wrap point, which the model keeps.

### Ext2

One RAM disk, at most `MaxMounts = 1` mount and `MaxCalls = 4` calls. Names `a` and `b`, the root (2) and inode 5 as parents and targets, write offsets 0 and 100 with 200 bytes, and any one of the first eight allocations of a call failing. Two creates in a directory are what the lost entry needs; inode 9, where the straddle starts, takes five.

### Terminal

`POOL_SIZE = 16` (1 MiB in the code), `CMD_BUF_SIZE = 4` (256), `COMMAND_HISTORY_SIZE = 3` (50), `MAX_ARGS = 2` (16), keys `a` and space, the one command `a`, and `MaxLines = 4` lines entered. Lines of up to 3 characters take 8 bytes of the pool, so the pool fills after two lines, and every line shape occurs: empty, blank, one word, two words (so `argv[1]` is compared, and `strtok(NULL, ..)` resumes after the NUL it wrote), and leading, repeated and trailing spaces. Three history rows make the fourth line shift two rows that overlap, which is where `memmove`'s copy direction matters; two rows would move one row and never overlap. A 5-byte buffer with two argv entries passed 21 million states without finishing in 15 minutes. So the safety run never has more words than argv entries. `term_stale` has that case, with `MAX_ARGS = 1` and three words. The sizes only scale where the pool fills and where the argv and history bounds bite, which the model keeps. `term_stale` needs a third word past `MAX_ARGS = 1`, so it uses `CMD_BUF_SIZE = 6` and a second command name `b`.

The grid is `TERMINAL_WIDTH_CHARS = 20` by `TERMINAL_HEIGHT_CHARS = 3` (the code's are computed from the framebuffer), with `FB_HEIGHT = 768`, and enter is taken while the screen has scrolled fewer than `MaxScrolls = 3` times. The bound is needed because an empty enter moves the screen without counting toward `MaxLines`. The safety run gives the one command `a` the `exit` handler: after the prompt (11 characters) and the line, its 20-character message wraps the 20-column row, and `terminal_clear` then resets the cursor mid-screen or after a scroll. Lines that are not the command only echo and scroll. `term_stale` gives `a` and `b` the `help` and `clear` handlers on a 12 by 3 grid. Registering more handlers in the safety run multiplied the states past the time limit.

Deadlock is checked: a printable key or backspace is always enabled, whatever the bound on lines.

## Fairness

Only safety and refinement are checked, so no fairness is assumed, and the code justifies none. The spec (4.4) has a periodic APIC tick drive preemption, but no tick handler exists in the tree: `scheduler_schedule` runs only when a task calls yield or block, or through the gecko facade (`part_001:114`, `part_002:107`). After `scheduler_start`, `gecko_start_scheduler` halts the CPU in a loop. No loop in the code receives IPC messages or drives the terminal. Every step the models take is a call some caller may or may not make, so weak fairness of any of them would be an assumption about callers, not something the code guarantees. The liveness question the spec raises, every Ready task eventually running, depends on that missing tick.

## What is not modelled, and the plan

In order of importance:

1. **IPC over Pmm**: message and queue pages drawn from the buddy allocator rather than a counted pool.
2. **Scheduler liveness**: every Ready task eventually Runs, under weak fairness of the current task's yield (cooperative scheduling; there is no timer tick in the code). The lone-yield starvation and the Sleeping task that can never be unblocked are the expected counterexamples. It needs `scheduler_init` to leave the slots Terminated, which the code does not do.
3. **Scheduler over Vmm**: the kernel stacks from `vmm_alloc_kernel_memory`, which all map at `0x100000`, so the second task's stack allocation fails.
4. **String library**: the formatting functions (`vsprintf` and its conversions) as operators checked against a reference over bounded inputs.
5. **ext2 reads**: `ext2_read_data`, `ext2_read_directory` and `ext2_find_inode`, which change no state, as operators with a property on what a write reads back.

`Vmm` now refines `FrameAllocator` (`AllocatorContractKept`).

Not planned:

- SMP/APIC programming (`gecko/smp.c`). Only `smp_init` (from `gecko_init`) and `smp_get_cpu_count` (from `cmd_cpu` and `gecko_get_system_info`) have callers, and no other SMP function is called anywhere. `smp_init` is straight-line register programming computed from CPUID and APIC reads. The application processors never run code of this tree: there is no trampoline, and `smp_start_cpu` waits on a flag that nothing sets. There is therefore no interleaving between processors and no sequence of calls to explore. Its defects are single expressions on hardware values:
  - `cpu_count` is `((ebx >> 16) & 0xff) + 1` in a `uint8_t`, which wraps to 0 for 255 (smp.c:58);
  - a count above `MAX_CPUS` (64) lets the `cpu_id < cpu_count` checks index past `cpus[64]`;
  - only `cpus[0]` is filled, so every other CPU's `apic_id` is 0;
  - the ICR is written at one offset, 0x310;
  - `smp_start_timer` overwrites the 1 kHz initial count with `0xffffffff`;
- the context-switch assembly;
- boot assembly;
- the terminal's drawing (`terminal_text_draw_char` and the other text routines are declared but never defined), its colour and attribute setters (no caller), `cmd_memory` (a divide by zero on the code's boot) and the framebuffer driver, which is register programming;
- `gecko_init`'s boot order as a module of its own: with the code's order the allocator never receives a memory map, so every allocation fails (the defect above). The models start after the spec's boot instead.
