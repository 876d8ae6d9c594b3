------------------------------ MODULE FsDriver ------------------------------
(***************************************************************************)
(* The file-system driver of src/unnamed/part_007 (fs_driver.c) over the  *)
(* VFS of Vfs: the request handler fs_driver_process and the helpers      *)
(* fs_create_file, fs_read_file, fs_write_file, fs_mkdir and              *)
(* fs_remove_file/fs_remove_directory, each one atomic step with every    *)
(* VFS call it makes.  vfs_mount and vfs_umount, which no code of the     *)
(* tree calls, are steps of the environment, so that there is something   *)
(* to open.  The driver's own state is its catalogue file_entries (path,  *)
(* type, size), kept only while its table page exists.                    *)
(* The kernel heap is abstract: gecko_alloc_kernel_memory returns any     *)
(* free object, or NULL (memory may run out at any call).                 *)
(***************************************************************************)
EXTENDS Integers, Sequences, FiniteSets

CONSTANTS Objs, NULL, MountSlots, MaxFds, MaxGen,
          MaxEntries,    \* max_entries
          MountPaths,    \* the paths vfs_mount is called with
          Paths,         \* the paths the driver's callers name
          Sizes,         \* read and write lengths
          OpenFlags,     \* the flags of FS_OP_OPEN and FS_OP_CREATE requests
          Offsets        \* the offsets of FS_OP_SEEK requests

VARIABLES init, mounts, fds, nextFileId, inode, heap, gen, ub,
          fsInit,        \* fs_driver_initialized
          mfs,           \* memory_filesystem
          table,         \* file_entries
          entries        \* file_entries[0 .. entry_count - 1]

vars == <<init, mounts, fds, nextFileId, inode, heap, gen, ub, fsInit, mfs, table, entries>>

V == INSTANCE Vfs

ZeroInode == [type |-> V!VFS_TYPE_FILE, size |-> 0, data |-> V!NullRef, refs |-> 0]

\* The state the VFS operators work on, and its assignment.
FS == [init |-> init, mounts |-> mounts, fds |-> fds, nextFileId |-> nextFileId,
       inode |-> inode, heap |-> heap, gen |-> gen, ub |-> ub,
       fsInit |-> fsInit, mfs |-> mfs, table |-> table, entries |-> entries]

SetFS(st) ==
  /\ init' = st.init /\ mounts' = st.mounts /\ fds' = st.fds /\ nextFileId' = st.nextFileId
  /\ inode' = st.inode /\ heap' = st.heap /\ gen' = st.gen /\ ub' = st.ub
  /\ fsInit' = st.fsInit /\ mfs' = st.mfs /\ table' = st.table /\ entries' = st.entries

\* The allocator's pick for one allocation.
Choices == Objs \cup {NULL}

\* Static initialization: everything zero.
Init ==
  /\ init = FALSE
  /\ mounts = [i \in MountSlots |-> V!EmptyMount]
  /\ fds = [i \in V!FdIds |-> V!EmptyFile]
  /\ nextFileId = 1
  /\ inode = [o \in Objs |-> ZeroInode]
  /\ heap = {}
  /\ gen = [o \in Objs |-> 0]
  /\ ub = "none"
  /\ fsInit = FALSE
  /\ mfs = V!NullRef
  /\ table = V!NullRef
  /\ entries = <<>>

-----------------------------------------------------------------------------
\* find_file_entry: the index of the first entry for p, or 0.
find_file_entry(st, p) ==
  IF \A k \in 1..Len(st.entries) : st.entries[k].path # p THEN 0
  ELSE CHOOSE k \in 1..Len(st.entries) :
         st.entries[k].path = p /\ \A j \in 1..(k - 1) : st.entries[j].path # p

\* add_file_entry: nothing when the table is full; the entry is written
\* through file_entries, which is NULL if fs_driver_init failed.
add_file_entry(st, p, type, size) ==
  IF Len(st.entries) >= MaxEntries THEN st
  ELSE IF st.table = V!NullRef THEN [st EXCEPT !.ub = "null dereference"]
  ELSE [st EXCEPT !.entries = Append(@, [path |-> p, type |-> type, size |-> size])]

\* The removal loop of fs_remove_file and fs_remove_directory: the first
\* entry for p is overwritten by the last one and the count decremented.
SwapRemove(s, k) == SubSeq([s EXCEPT ![k] = s[Len(s)]], 1, Len(s) - 1)

RemoveEntry(st, p) ==
  IF find_file_entry(st, p) = 0 THEN st
  ELSE [st EXCEPT !.entries = SwapRemove(@, find_file_entry(st, p))]

\* fs_driver_init once file_entries' allocation returned b.
InitTable(a, b) ==
  IF b[2] = V!NullRef THEN V!Kfree(b[1], a)
  ELSE [b[1] EXCEPT !.table = b[2], !.entries = <<>>, !.fsInit = TRUE]

\* fs_driver_init once memory_filesystem's allocation returned a.
InitMemory(a, c2) ==
  IF a[2] = V!NullRef THEN a[1]
  ELSE InitTable(a[2], V!Kmalloc([a[1] EXCEPT !.mfs = a[2]], c2))

\* fs_driver_init: vfs_init, then memory_filesystem and file_entries;
\* when file_entries fails, memory_filesystem is freed (its pointer kept).
fs_driver_init(st, c1, c2) ==
  IF st.fsInit THEN st ELSE InitMemory(V!Kmalloc(V!vfs_init(st), c1), c2)

\* FS_OP_CREATE after vfs_open returned o: a new path is catalogued.
CreateOpened(o, p) ==
  IF o[2] >= 0 /\ find_file_entry(o[1], p) = 0 THEN add_file_entry(o[1], p, 0, 0) ELSE o[1]

\* FS_OP_WRITE after vfs_write returned w: the catalogued size grows.
WriteCounted(w, p, n) ==
  IF w[2] = 0 /\ find_file_entry(w[1], p) # 0
  THEN [w[1] EXCEPT !.entries[find_file_entry(w[1], p)].size = @ + n]
  ELSE w[1]

\* FS_OP_MKDIR after vfs_mkdir returned m; also fs_mkdir.
MkdirCounted(m, p) == IF m[2] = 0 THEN add_file_entry(m[1], p, 1, 0) ELSE m[1]

\* fs_create_file after vfs_open(path, 0) returned o: the content written
\* (whatever vfs_write returns), the file closed and catalogued.
CreateFileOpened(o, p, n, c1, c2) ==
  IF o[2] < 0 THEN o[1]
  ELSE add_file_entry(V!vfs_close(V!vfs_write(o[1], o[2], n, c1, c2)[1], o[2])[1], p, 0, n)

\* fs_read_file and fs_write_file after vfs_open returned o.
ReadFileOpened(o, n) ==
  IF o[2] < 0 THEN o[1] ELSE V!vfs_close(V!vfs_read(o[1], o[2], n)[1], o[2])[1]

WriteFileOpened(o, n, c1, c2) ==
  IF o[2] < 0 THEN o[1] ELSE V!vfs_close(V!vfs_write(o[1], o[2], n, c1, c2)[1], o[2])[1]

-----------------------------------------------------------------------------
(***************************************************************************)
(* Steps.                                                                  *)
(***************************************************************************)
FsDriverInit == \E c1, c2 \in Choices : SetFS(fs_driver_init(FS, c1, c2))

VfsMount(p) == \E c1, c2 \in Choices : SetFS(V!vfs_mount(FS, p, c1, c2)[1])

VfsUmount(p) == SetFS(V!vfs_umount(FS, p)[1])

\* fs_driver_process, one action per request operation.
FsOpCreate(p, fl) ==
  \E c1, c2 \in Choices : SetFS(CreateOpened(V!vfs_open(FS, p, fl, c1, c2), p))

FsOpOpen(p, fl) == \E c1, c2 \in Choices : SetFS(V!vfs_open(FS, p, fl, c1, c2)[1])

FsOpRead(id, n) == SetFS(V!vfs_read(FS, id, n)[1])

FsOpWrite(id, p, n) ==
  \E c1, c2 \in Choices : SetFS(WriteCounted(V!vfs_write(FS, id, n, c1, c2), p, n))

FsOpClose(id) == SetFS(V!vfs_close(FS, id)[1])

FsOpMkdir(p) == \E c1, c2 \in Choices : SetFS(MkdirCounted(V!vfs_mkdir(FS, p, c1, c2), p))

FsOpSeek(id, off, whence) == SetFS(V!vfs_seek(FS, id, off, whence)[1])

\* The helper functions of fs_driver.c.
FsCreateFile(p, n) ==
  \E c1, c2 \in Choices : SetFS(CreateFileOpened(V!vfs_open(FS, p, 0, NULL, NULL), p, n, c1, c2))

FsReadFile(p, n) == SetFS(ReadFileOpened(V!vfs_open(FS, p, 0, NULL, NULL), n))

FsWriteFile(p, n) ==
  \E c1, c2 \in Choices : SetFS(WriteFileOpened(V!vfs_open(FS, p, 2, NULL, NULL), n, c1, c2))

FsMkdir(p) == \E c1, c2 \in Choices : SetFS(MkdirCounted(V!vfs_mkdir(FS, p, c1, c2), p))

FsRemove(p) == SetFS(RemoveEntry(FS, p))

\* No step follows undefined behaviour.
Running == ub = "none"

Next ==
  \/ Running /\ FsDriverInit
  \/ Running /\ \E p \in MountPaths : VfsMount(p)
  \/ Running /\ \E p \in MountPaths : VfsUmount(p)
  \/ Running /\ \E p \in Paths, fl \in OpenFlags : FsOpCreate(p, fl)
  \/ Running /\ \E p \in Paths, fl \in OpenFlags : FsOpOpen(p, fl)
  \/ Running /\ \E id \in V!FdIds, n \in Sizes : FsOpRead(id, n)
  \/ Running /\ \E id \in V!FdIds, p \in Paths, n \in Sizes : FsOpWrite(id, p, n)
  \/ Running /\ \E id \in V!FdIds : FsOpClose(id)
  \/ Running /\ \E p \in Paths : FsOpMkdir(p)
  \/ Running /\ \E id \in V!FdIds, off \in Offsets, w \in 0..3 : FsOpSeek(id, off, w)
  \/ Running /\ \E p \in Paths, n \in Sizes : FsCreateFile(p, n)
  \/ Running /\ \E p \in Paths, n \in Sizes : FsReadFile(p, n)
  \/ Running /\ \E p \in Paths, n \in Sizes : FsWriteFile(p, n)
  \/ Running /\ \E p \in Paths : FsMkdir(p)
  \/ Running /\ \E p \in Paths : FsRemove(p)

Spec == Init /\ [][Next]_vars

-----------------------------------------------------------------------------
TypeOK ==
  /\ init \in BOOLEAN /\ fsInit \in BOOLEAN
  /\ mounts \in [MountSlots -> [active : BOOLEAN, path : MountPaths \cup {<<>>},
                                sb : V!Ref, inode : V!Ref]]
  /\ fds \in [V!FdIds -> [inode : V!Ref, position : Nat, flags : OpenFlags \cup {0, 2}]]
  /\ nextFileId \in 1..MaxFds
  /\ heap \subseteq Objs /\ gen \in [Objs -> 0..MaxGen]
  /\ ub \in {"none", "use after free", "null dereference"}
  /\ mfs \in V!Ref /\ table \in V!Ref
  /\ Len(entries) <= MaxEntries
  /\ \A k \in 1..Len(entries) : entries[k].path \in Paths /\ entries[k].type \in {0, 1}

\* The reference definition of the mount point a path resolves to: among
\* the active mount points whose path starts with "/" and is a character
\* prefix of p, the longest, and of equally long ones the lowest slot.
IsCharPrefix(m, p) == Len(m) <= Len(p) /\ \A k \in 1..Len(m) : m[k] = p[k]

Matching(p) == {i \in MountSlots : mounts[i].active /\ mounts[i].path # <<>>
                                   /\ mounts[i].path[1] = "/" /\ IsCharPrefix(mounts[i].path, p)}

LongestMount(p) ==
  IF p = <<>> \/ p[1] # "/" \/ Matching(p) = {} THEN V!NoSlot
  ELSE CHOOSE i \in Matching(p) :
         \A j \in Matching(p) \ {i} : Len(mounts[j].path) < Len(mounts[i].path)
                                     \/ (Len(mounts[j].path) = Len(mounts[i].path) /\ i < j)

\* find_mount_point's scan over mount_points (strictly longer replaces the
\* best match) resolves every path to the longest matching mount point,
\* the first slot among duplicates, whatever mounts and umounts came before.
LookupFindsLongestMount == \A p \in Paths \cup MountPaths : V!find_mount_point(FS, p) = LongestMount(p)

\* Every pointer the VFS keeps is live: an active mount point's superblock
\* and root inode (vfs_mount gives the root inode the mount's reference,
\* reference_count = 1) and an open descriptor's inode.
LiveReferences ==
  /\ \A i \in MountSlots : mounts[i].active /\ mounts[i].inode # V!NullRef =>
        V!Live(FS, mounts[i].sb) /\ V!Live(FS, mounts[i].inode)
  /\ \A id \in V!FdIds : fds[id].inode # V!NullRef => V!Live(FS, fds[id].inode)
====
