-------------------------------- MODULE Vfs --------------------------------
(***************************************************************************)
(* The virtual file system of src/unnamed/part_010 (vfs.c), as operators  *)
(* on a state record with the fields                                       *)
(*   init        vfs_initialized                                           *)
(*   mounts      mount_points: slot -> [active, path, sb, inode]           *)
(*   fds         file_descriptors: id -> [inode, position, flags]          *)
(*   nextFileId  next_file_id                                              *)
(*   inode       the kernel heap read as vfs_inode_t: object -> record     *)
(*   heap, gen   the live heap objects, and each object's allocation count *)
(*   ub          "none", or the undefined behaviour a call ran into        *)
(* A pointer is a Ref: the heap object and the allocation (generation) it *)
(* was returned by, so that a pointer kept after its object was freed is   *)
(* told apart from a pointer to the object's next allocation.  Following   *)
(* such a stale pointer is undefined; the operators record it in ub and    *)
(* the callers take no further step (the kernel has faulted or is reading  *)
(* memory that now belongs to someone else).                               *)
(* Paths are sequences of one-character strings, since find_mount_point   *)
(* matches mount points as character prefixes.                             *)
(***************************************************************************)
EXTENDS Integers, Sequences

CONSTANTS
  Objs,        \* the objects gecko_alloc_kernel_memory can return
  NULL,        \* the NULL pointer
  MountSlots,  \* 0 .. VFS_MAX_MOUNT_POINTS - 1
  MaxFds,      \* VFS_MAX_FILE_DESCRIPTORS
  MaxGen       \* bound: allocations of one heap object

\* vfs.h: vfs_type_t, vfs_permissions_t, vfs_open_flags_t, whence.
VFS_TYPE_FILE      == 0
VFS_TYPE_DIRECTORY == 1
VFS_PERM_WRITE     == 2
VFS_O_CREAT        == 16
SEEK_SET == 0
SEEK_CUR == 1
SEEK_END == 2

NullRef == [obj |-> NULL, gen |-> 0]
Ref == [obj : Objs, gen : 1..MaxGen] \cup {NullRef}

FdIds == 0..(MaxFds - 1)
NoSlot == -1

\* The zeroed entries of the static tables.
EmptyMount == [active |-> FALSE, path |-> <<>>, sb |-> NullRef, inode |-> NullRef]
EmptyFile  == [inode |-> NullRef, position |-> 0, flags |-> 0]

\* A pointer is live when its allocation has not been freed.
Live(st, r) == r # NullRef /\ r.obj \in st.heap /\ st.gen[r.obj] = r.gen

\* A stale pointer followed.
UB(st) == [st EXCEPT !.ub = "use after free"]

(***************************************************************************)
(* gecko_alloc_kernel_memory: c is the object the allocator picks, or     *)
(* NULL when it has no memory.  A busy object, or one at the generation   *)
(* bound, is not handed out (the call fails).  Returns <<state, Ref>>.    *)
(***************************************************************************)
Kmalloc(st, c) ==
  IF c \in Objs /\ c \notin st.heap /\ st.gen[c] < MaxGen
  THEN <<[st EXCEPT !.heap = @ \cup {c}, !.gen[c] = @ + 1], [obj |-> c, gen |-> st.gen[c] + 1]>>
  ELSE <<st, NullRef>>

\* gecko_free_kernel_memory: NULL is ignored.
Kfree(st, r) == IF r = NullRef THEN st ELSE [st EXCEPT !.heap = @ \ {r.obj}]

\* Mutant of vfs_init: next_file_id reset to 0.
vfs_init_from_zero(st) ==
  IF st.init THEN st
  ELSE [st EXCEPT !.init = TRUE, !.mounts = [i \in MountSlots |-> EmptyMount],
                  !.fds = [i \in FdIds |-> EmptyFile], !.nextFileId = 0]

\* vfs_init: the tables zeroed and the counters reset, once.
vfs_init(st) ==
  IF st.init THEN st
  ELSE [st EXCEPT !.init = TRUE, !.mounts = [i \in MountSlots |-> EmptyMount],
                  !.fds = [i \in FdIds |-> EmptyFile], !.nextFileId = 1]

\* The lowest inactive mount slot, or NoSlot.
FreeSlot(st) ==
  IF \A i \in MountSlots : st.mounts[i].active THEN NoSlot
  ELSE CHOOSE i \in MountSlots : ~st.mounts[i].active /\ \A j \in MountSlots : j < i => st.mounts[j].active

\* vfs_mount once the root inode allocation returned b: on failure the
\* superblock sb is freed and the slot given back.
MountRoot(i, sb, b) ==
  IF b[2] = NullRef
  THEN <<[Kfree(b[1], sb) EXCEPT !.mounts[i].active = FALSE], -1>>
  ELSE <<[b[1] EXCEPT !.mounts[i].sb = sb, !.mounts[i].inode = b[2],
                      !.inode[b[2].obj] = [type |-> VFS_TYPE_DIRECTORY, size |-> 0,
                                            data |-> NullRef, refs |-> 1]], 0>>

\* vfs_mount once the superblock allocation returned a.
MountSb(i, a, c2) ==
  IF a[2] = NullRef THEN <<[a[1] EXCEPT !.mounts[i].active = FALSE], -1>>
  ELSE MountRoot(i, a[2], Kmalloc(a[1], c2))

\* vfs_mount(device, path): the first free slot is made active, then a
\* superblock and a root directory inode are allocated (c1, c2).
vfs_mount(st, path, c1, c2) ==
  IF ~st.init \/ FreeSlot(st) = NoSlot THEN <<st, -1>>
  ELSE MountSb(FreeSlot(st),
               Kmalloc([st EXCEPT !.mounts[FreeSlot(st)].active = TRUE,
                                  !.mounts[FreeSlot(st)].path = path], c1), c2)

\* The strncmp prefix test of find_mount_point.
PathPrefix(m, p) == Len(m) <= Len(p) /\ SubSeq(p, 1, Len(m)) = m

\* Mutant of MatchFrom: an equally long match replaces the best one.
RECURSIVE MatchFromTies(_, _, _, _)
MatchFromTies(st, p, i, best) ==
  IF i \notin MountSlots THEN best
  ELSE MatchFromTies(st, p, i + 1,
         IF /\ st.mounts[i].active
            /\ st.mounts[i].path # <<>> /\ Head(st.mounts[i].path) = "/"
            /\ PathPrefix(st.mounts[i].path, p)
            /\ best = NoSlot \/ Len(st.mounts[i].path) >= Len(st.mounts[best].path)
         THEN i ELSE best)

\* The loop of find_mount_point from slot i on, best the match so far:
\* an active slot whose path starts with "/" and is a prefix of p replaces
\* it when strictly longer.
RECURSIVE MatchFrom(_, _, _, _)
MatchFrom(st, p, i, best) ==
  IF i \notin MountSlots THEN best
  ELSE MatchFrom(st, p, i + 1,
         IF /\ st.mounts[i].active
            /\ st.mounts[i].path # <<>> /\ Head(st.mounts[i].path) = "/"
            /\ PathPrefix(st.mounts[i].path, p)
            /\ best = NoSlot \/ Len(st.mounts[i].path) > Len(st.mounts[best].path)
         THEN i ELSE best)

\* find_mount_point: NoSlot unless p starts with "/".
find_mount_point(st, p) ==
  IF p = <<>> \/ Head(p) # "/" THEN NoSlot ELSE MatchFrom(st, p, 0, NoSlot)

(***************************************************************************)
(* vfs_lookup: the mount's root inode.  Every branch after the mount      *)
(* point is found returns mount_inode, because no superblock has a mount  *)
(* operation (default_sb_ops).                                             *)
(***************************************************************************)
vfs_lookup(st, p) ==
  IF find_mount_point(st, p) = NoSlot THEN NullRef
  ELSE st.mounts[find_mount_point(st, p)].inode

\* The index of the last "/" of p (strrchr), 0 if none.
LastSlash(p) ==
  IF \A k \in 1..Len(p) : p[k] # "/" THEN 0
  ELSE CHOOSE k \in 1..Len(p) : p[k] = "/" /\ \A j \in (k + 1)..Len(p) : p[j] # "/"

\* The parent directory's inode, looked up as vfs_mkdir does.
ParentOf(st, p) ==
  IF LastSlash(p) = 0 THEN NullRef
  ELSE IF LastSlash(p) = 1 THEN vfs_lookup(st, <<"/">>)
  ELSE vfs_lookup(st, SubSeq(p, 1, LastSlash(p) - 1))

\* vfs_mkdir once the name buffer allocation returned d for the new
\* directory inode ino; both are dropped when the call returns.
MkdirData(ino, d) ==
  <<[d[1] EXCEPT !.inode[ino.obj] = [type |-> VFS_TYPE_DIRECTORY, size |-> 0,
                                      data |-> d[2], refs |-> 1]], 0>>

\* vfs_mkdir once the directory inode allocation returned a; the name
\* buffer (c2) may fail.
MkdirInode(a, c2) ==
  IF a[2] = NullRef THEN <<a[1], -1>> ELSE MkdirData(a[2], Kmalloc(a[1], c2))

\* vfs_mkdir(path): the parent must be found; the inode made for the new
\* directory is not linked anywhere.
vfs_mkdir(st, p, c1, c2) ==
  IF ~st.init \/ ParentOf(st, p) = NullRef THEN <<st, -1>>
  ELSE MkdirInode(Kmalloc(st, c1), c2)

\* vfs_open once next_file_id handed out id for inode r.
OpenAt(st, r, id, flags) ==
  IF id >= MaxFds THEN <<st, -1>>
  ELSE IF ~Live(st, r) THEN <<UB([st EXCEPT !.fds[id] = [inode |-> r, position |-> 0, flags |-> flags]]), -1>>
  ELSE <<[st EXCEPT !.fds[id] = [inode |-> r, position |-> 0, flags |-> flags]], id>>

(***************************************************************************)
(* vfs_open(path, flags): a missing path is created by vfs_mkdir when     *)
(* VFS_O_CREAT is set (and that call's 0 returned); otherwise the next    *)
(* id is taken, and the slot filled even when it is past the table.       *)
(* next_file_id saturates at MaxFds: every larger value behaves the same. *)
(***************************************************************************)
vfs_open(st, p, flags, c1, c2) ==
  IF ~st.init THEN <<st, -1>>
  ELSE IF vfs_lookup(st, p) = NullRef
  THEN IF (flags \div VFS_O_CREAT) % 2 = 1 THEN vfs_mkdir(st, p, c1, c2) ELSE <<st, -1>>
  ELSE OpenAt([st EXCEPT !.nextFileId = IF @ < MaxFds THEN @ + 1 ELSE @],
              vfs_lookup(st, p), st.nextFileId, flags)

\* The inode record of descriptor id.
FdInode(st, id) == st.inode[st.fds[id].inode.obj]

\* vfs_close on a live inode: the reference count dropped, and the inode
\* and its data freed at zero.
CloseLive(st, id, r) ==
  IF st.inode[r.obj].refs - 1 = 0
  THEN [Kfree(Kfree(st, st.inode[r.obj].data), r) EXCEPT !.inode[r.obj].refs = 0, !.fds[id] = EmptyFile]
  ELSE [st EXCEPT !.inode[r.obj].refs = @ - 1, !.fds[id] = EmptyFile]

\* vfs_close(id).
vfs_close(st, id) ==
  IF st.fds[id].inode = NullRef THEN <<st, -1>>
  ELSE IF ~Live(st, st.fds[id].inode) THEN <<UB(st), -1>>
  ELSE <<CloseLive(st, id, st.fds[id].inode), 0>>

\* vfs_read(id, n): returns <<state, code, bytes read>>; only a file
\* inode with data is read from.
vfs_read(st, id, n) ==
  IF st.fds[id].inode = NullRef THEN <<st, -1, 0>>
  ELSE IF ~Live(st, st.fds[id].inode) THEN <<UB(st), -1, 0>>
  ELSE IF \/ st.fds[id].position >= FdInode(st, id).size
          \/ FdInode(st, id).type # VFS_TYPE_FILE \/ FdInode(st, id).data = NullRef
  THEN <<st, 0, 0>>
  ELSE LET k == IF st.fds[id].position + n > FdInode(st, id).size
                THEN FdInode(st, id).size - st.fds[id].position ELSE n
       IN  <<[st EXCEPT !.fds[id].position = @ + k], 0, k>>

\* vfs_write past the end once the new buffer allocation returned b: the
\* data is copied over and the old buffer freed.
GrowInto(st, id, r, n, b) ==
  IF b[2] = NullRef THEN <<st, -1>>
  ELSE <<[Kfree(b[1], st.inode[r.obj].data) EXCEPT
            !.inode[r.obj].data = b[2],
            !.inode[r.obj].size = st.fds[id].position + n,
            !.fds[id].position = @ + n], 0>>

\* vfs_write once the file has a buffer: a write past the end copies into
\* a new buffer (c2).
WriteGrow(st, id, r, n, c2) ==
  IF st.fds[id].position + n <= st.inode[r.obj].size
  THEN <<[st EXCEPT !.fds[id].position = @ + n], 0>>
  ELSE GrowInto(st, id, r, n, Kmalloc(st, c2))

\* vfs_write once a buffer of size + n bytes was asked for (a) because
\* the file had none: its size is reset to 0.
WriteFirst(id, r, n, a, c2) ==
  IF a[2] = NullRef THEN <<a[1], -1>>
  ELSE WriteGrow([a[1] EXCEPT !.inode[r.obj].data = a[2], !.inode[r.obj].size = 0], id, r, n, c2)

\* vfs_write(id, n): only descriptors opened with the write bit, on file
\* inodes.  Returns <<state, code>>; a success writes n bytes.
vfs_write(st, id, n, c1, c2) ==
  IF st.fds[id].inode = NullRef \/ (st.fds[id].flags \div VFS_PERM_WRITE) % 2 = 0 THEN <<st, -1>>
  ELSE IF ~Live(st, st.fds[id].inode) THEN <<UB(st), -1>>
  ELSE IF FdInode(st, id).type # VFS_TYPE_FILE THEN <<st, -1>>
  ELSE IF FdInode(st, id).data = NullRef
  THEN WriteFirst(id, st.fds[id].inode, n, Kmalloc(st, c1), c2)
  ELSE WriteGrow(st, id, st.fds[id].inode, n, c2)

\* vfs_umount(path): the first active slot with that path is zeroed; its
\* superblock and root inode are not freed.
vfs_umount(st, p) ==
  IF ~st.init \/ \A i \in MountSlots : ~(st.mounts[i].active /\ st.mounts[i].path = p)
  THEN <<st, -1>>
  ELSE LET i == CHOOSE i \in MountSlots : st.mounts[i].active /\ st.mounts[i].path = p
                  /\ \A j \in MountSlots : j < i => ~(st.mounts[j].active /\ st.mounts[j].path = p)
       IN  <<[st EXCEPT !.mounts[i] = EmptyMount], 0>>

\* vfs_seek(id, offset, whence): the new position clamped to 0..size; the
\* inode is first touched after the whence check.
vfs_seek(st, id, off, whence) ==
  IF st.fds[id].inode = NullRef THEN <<st, -1>>
  ELSE IF whence \notin {SEEK_SET, SEEK_CUR, SEEK_END} THEN <<st, -1>>
  ELSE IF ~Live(st, st.fds[id].inode) THEN <<UB(st), -1>>
  ELSE LET base == CASE whence = SEEK_SET -> 0
                     [] whence = SEEK_CUR -> st.fds[id].position
                     [] whence = SEEK_END -> FdInode(st, id).size
           pos  == base + off
       IN  <<[st EXCEPT !.fds[id].position =
                IF pos < 0 THEN 0 ELSE IF pos > FdInode(st, id).size THEN FdInode(st, id).size ELSE pos], 0>>
====
