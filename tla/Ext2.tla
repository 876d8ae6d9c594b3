-------------------------------- MODULE Ext2 --------------------------------
(***************************************************************************)
(* The ext2 driver of src/fusion_os/common/list.c (lines 110-739).  The    *)
(* device is kept byte by byte, because the driver reads its own          *)
(* structures back from the bytes it wrote: the block and inode bitmaps,  *)
(* the 120-byte inodes (sizeof(ext2_inode_t)) and the directory entries   *)
(* all live in blocks of 1024 bytes, and a block the driver uses for two  *)
(* purposes is read back under both.  The device is a zero-filled         *)
(* 1 MiB RAM disk (then also the empty string ext2_umount compares); a    *)
(* block never written is zero.  Every gecko_alloc_kernel_memory of a     *)
(* call may return NULL: the input fail names the allocation that does.   *)
(* Logging is left out.                                                   *)
(***************************************************************************)
EXTENDS Integers, Sequences, TLC

CONSTANTS
  Names,        \* the byte of one-character file names
  Perms,        \* permissions passed to ext2_create_file
  InodeArgs,    \* inode numbers callers pass
  WriteOffsets, \* offsets passed to ext2_write_data
  WriteSizes,   \* sizes passed to ext2_write_data (not 0)
  DataByte,     \* the byte callers write (below 128)
  AllocFails,   \* 0 (no allocation fails) or the allocation of a call that does
  MaxMounts,    \* bound: file systems on mounted_filesystems
  MaxCalls      \* bound: state-changing calls

VARIABLES
  ext2_initialized,
  mounted_filesystems, \* the list, in order: each fs's in-memory counters
  disk,                \* the device: block number -> [0..1023 -> byte], blocks written so far
  fault,               \* "none", or the undefined behaviour or hang a call ran into
  created,             \* ghost: [parent, name, ino] of files created and not deleted
  calls                \* ghost: state-changing calls so far

vars == <<ext2_initialized, mounted_filesystems, disk, fault, created, calls>>

\* ext2.h and ext2_mount's constants.
BLOCK_SIZE == 1024
INODE_SIZE == 120
EXT2_ROOT_INODE == 2
EXT2_S_IFREG == 32768
S_INODES_COUNT == 1000
S_BLOCKS_COUNT == 8192
DEVICE_SIZE == 1024 * 1024
BG_BLOCK_BITMAP == 3
BG_INODE_BITMAP == 4
BG_INODE_TABLE == 5
NoBit == -1   \* (uint32_t)-1

Offs == 0..(BLOCK_SIZE - 1)
ZeroBlock == [i \in Offs |-> 0]

\* Little-endian fields of a byte function, as memcpy of a uint16/uint32 lays them out.
LE16(b, o) == b[o] + 256 * b[o + 1]
LE32(b, o) == LE16(b, o) + 65536 * LE16(b, o + 2)
Put16(b, o, v) == [b EXCEPT ![o] = v % 256, ![o + 1] = (v \div 256) % 256]
Put32(b, o, v) == Put16(Put16(b, o, v % 65536), o + 2, (v \div 65536) % 65536)

\* memcpy: n bytes of s from offset so to b at offset o.
Paste(b, o, s, so, n) == [i \in DOMAIN b |-> IF o <= i /\ i < o + n THEN s[i - o + so] ELSE b[i]]
Slice(b, o, n) == [k \in 0..(n - 1) |-> b[o + k]]

\* The fields of ext2_inode_t the driver uses, at their offsets.
I_SIZE == 4
I_LINKS == 26
I_BLOCKS == 28
I_BLOCK(k) == 40 + 4 * k
ZeroInode == [k \in 0..(INODE_SIZE - 1) |-> 0]

\* A call's working state: the device, the fs it works on, how many
\* allocations it made, which one fails, and the fault it met.
Res(w, ok, v) == [w |-> w, ok |-> ok, v |-> v]
Fault(w, f) == Res([w EXCEPT !.fault = f], FALSE, 0)
Alloc(w) == [w EXCEPT !.n = @ + 1]
AllocFails_(w) == w.n + 1 = w.fail

Block(d, blk) == IF blk \in DOMAIN d THEN d[blk] ELSE ZeroBlock

\* ext2_read_block and ext2_write_block.
read_block(w, blk) ==
  IF blk >= S_BLOCKS_COUNT THEN Res(w, FALSE, 0)
  ELSE IF blk * BLOCK_SIZE + BLOCK_SIZE > DEVICE_SIZE THEN Res(w, TRUE, ZeroBlock)
  ELSE Res(w, TRUE, Block(w.disk, blk))

write_block(w, blk, b) ==
  IF blk >= S_BLOCKS_COUNT \/ blk * BLOCK_SIZE + BLOCK_SIZE > DEVICE_SIZE THEN Res(w, FALSE, 0)
  ELSE Res([w EXCEPT !.disk = (blk :> b) @@ @], TRUE, 0)

\* Where inode ino lies in the inode table.
InodeBlock(ino) == BG_INODE_TABLE + ((ino - 1) * INODE_SIZE) \div BLOCK_SIZE
InodeOff(ino) == ((ino - 1) * INODE_SIZE) % BLOCK_SIZE

\* ext2_read_inode: the 120 bytes at the inode's offset of a block buffer;
\* an inode that crosses the end of its block is read past the buffer.
read_inode(w, ino) ==
  IF ino = 0 \/ ino > S_INODES_COUNT THEN Res(w, FALSE, 0)
  ELSE IF AllocFails_(w) THEN Res(Alloc(w), FALSE, 0)
  ELSE IF InodeOff(ino) + INODE_SIZE > BLOCK_SIZE THEN Fault(Alloc(w), "buffer over-read")
  ELSE Res(Alloc(w), TRUE, Slice(read_block(w, InodeBlock(ino)).v, InodeOff(ino), INODE_SIZE))

\* ext2_write_inode: read the block, copy the inode in, write it back.
write_inode(w, ino, raw) ==
  IF ino = 0 \/ ino > S_INODES_COUNT THEN Res(w, FALSE, 0)
  ELSE IF AllocFails_(w) THEN Res(Alloc(w), FALSE, 0)
  ELSE IF InodeOff(ino) + INODE_SIZE > BLOCK_SIZE THEN Fault(Alloc(w), "buffer overflow")
  ELSE write_block(Alloc(w), InodeBlock(ino),
                   Paste(read_block(w, InodeBlock(ino)).v, InodeOff(ino), raw, 0, INODE_SIZE))

\* find_free_bit: the first clear bit of the first byte that is not 0xFF.
RECURSIVE FreeByte(_, _)
FreeByte(b, i) == IF i = BLOCK_SIZE THEN NoBit ELSE IF b[i] # 255 THEN i ELSE FreeByte(b, i + 1)

BitClear(x, bit) == (x \div (2 ^ bit)) % 2 = 0

find_free_bit(b) ==
  IF FreeByte(b, 0) = NoBit THEN NoBit
  ELSE LET i == FreeByte(b, 0)
       IN i * 8 + (CHOOSE bit \in 0..7 : BitClear(b[i], bit) /\ \A c \in 0..(bit - 1) : ~BitClear(b[i], c))

SetBit(b, bit) == [b EXCEPT ![bit \div 8] = @ + 2 ^ (bit % 8)]

\* allocate_block and allocate_inode: the same steps on the two bitmaps;
\* the block number is bg_block_bitmap + 1 + bit, the inode number
\* bg_inode_table + bit.  field is the group counter decremented.
AllocateIn(w, bitmapBlk, field, base) ==
  IF AllocFails_(w) THEN Res(Alloc(w), FALSE, NoBit)
  ELSE LET b == read_block(w, bitmapBlk).v
           bit == find_free_bit(b)
       IN IF bit = NoBit THEN Res(Alloc(w), FALSE, NoBit)
          ELSE LET wr == write_block(Alloc(w), bitmapBlk, SetBit(b, bit))
               IN IF ~wr.ok THEN Res(wr.w, FALSE, NoBit)
                  ELSE Res([wr.w EXCEPT !.fs[field] = @ - 1], TRUE, base + bit)

allocate_block(w) == AllocateIn(w, BG_BLOCK_BITMAP, "bg_free_blocks_count", BG_BLOCK_BITMAP + 1)
allocate_inode(w) == AllocateIn(w, BG_INODE_BITMAP, "bg_free_inodes_count", BG_INODE_TABLE)

-----------------------------------------------------------------------------
\* The root inode of ext2_mount: EXT2_S_IFDIR | 0755, size 1024, 2 links, 2 sectors.
RootInode == Put32(Put16(Put32(Put16(ZeroInode, 0, 16877), I_SIZE, 1024), I_LINKS, 2), I_BLOCKS, 2)

\* The fs's in-memory counters as ext2_mount sets them before the root is written.
NewFs == [s_free_inodes_count |-> 900, bg_free_blocks_count |-> 7000, bg_free_inodes_count |-> 900]

\* ext2_mount: three allocations, the root inode written, the counters
\* decremented, the fs appended to mounted_filesystems.
ext2_mount(w) ==
  IF w.fail \in 1..3 THEN Res(w, FALSE, 0)
  ELSE LET r == write_inode([w EXCEPT !.n = 3, !.fs = NewFs], EXT2_ROOT_INODE, RootInode)
       IN IF ~r.ok THEN Res([r.w EXCEPT !.fs = w.fs], FALSE, 0)
          ELSE Res([r.w EXCEPT !.fs.s_free_inodes_count = @ - 1, !.fs.bg_free_inodes_count = @ - 1], TRUE, 0)

\* The inode ext2_create_file writes: EXT2_S_IFREG | permissions, one link.
NewInode(perm) == Put16(Put16(ZeroInode, 0, EXT2_S_IFREG + perm), I_LINKS, 1)

\* The directory entry of ext2_create_file: inode, rec_len and name_len
\* (8 + 1 bytes for a one-character name), then the name.
ENTRY_SIZE == 8 + 1
DirEntry(ino, name) ==
  [Put16(Put16(Put32([k \in 0..(ENTRY_SIZE - 1) |-> 0], 0, ino), 4, ENTRY_SIZE), 6, 1) EXCEPT ![8] = name]

\* The entry copied to offset 0 of the directory's block blk, and the
\* parent's size grown by it and written back.
LinkEntry(w, parent, p, blk, entry) ==
  IF AllocFails_(w) THEN Res(Alloc(w), FALSE, 0)
  ELSE LET rb == read_block(Alloc(w), blk)
       IN IF ~rb.ok THEN Res(rb.w, FALSE, 0)
          ELSE LET wb == write_block(rb.w, blk, Paste(rb.v, 0, entry, 0, ENTRY_SIZE))
               IN IF ~wb.ok THEN Res(wb.w, FALSE, 0)
                  ELSE write_inode(wb.w, parent, Put32(p, I_SIZE, LE32(p, I_SIZE) + ENTRY_SIZE))

\* A parent whose i_block[0] is 0 gets a block first.
LinkWithBlock(w, parent, p, entry) ==
  IF LE32(p, I_BLOCK(0)) # 0 THEN LinkEntry(w, parent, p, LE32(p, I_BLOCK(0)), entry)
  ELSE LET rb == allocate_block(w)
       IN IF ~rb.ok THEN Res(rb.w, FALSE, 0)
          ELSE LinkEntry(rb.w, parent,
                         Put32(Put32(p, I_BLOCK(0), rb.v), I_BLOCKS, LE32(p, I_BLOCKS) + BLOCK_SIZE \div 512),
                         rb.v, entry)

\* ext2_create_file; v is the new inode's number.
ext2_create_file(w, parent, name, perm) ==
  LET r1 == read_inode(w, parent) IN
  IF ~r1.ok THEN r1 ELSE
  LET r2 == allocate_inode(r1.w) IN
  IF ~r2.ok THEN r2 ELSE
  LET r3 == write_inode(r2.w, r2.v, NewInode(perm)) IN
  IF ~r3.ok THEN r3
  ELSE IF AllocFails_(r3.w) THEN Res(Alloc(r3.w), FALSE, 0)
  ELSE LET r4 == LinkWithBlock(Alloc(r3.w), parent, r1.v, DirEntry(r2.v, name))
       IN Res(r4.w, r4.ok, r2.v)

\* The bytes ext2_write_data copies into block blk of the range: from
\* block_offset, size - block_offset on the last block (a negative
\* size_t wraps and is cut to the block), the rest of the block before.
BlockOffset(blk, start, offset) == IF blk = start THEN offset % BLOCK_SIZE ELSE 0
CopyLen(blk, start, end, offset, size) ==
  LET bo == BlockOffset(blk, start, offset)
      n == IF blk = end THEN size - (bo % BLOCK_SIZE) ELSE BLOCK_SIZE - bo
  IN IF n < 0 \/ n > BLOCK_SIZE - bo THEN BLOCK_SIZE - bo ELSE n

\* The physical block of logical block blk: i_block[blk] or a new one
\* below 12, always a new one above.
PhysBlock(w, raw, blk) ==
  IF blk < 12 /\ LE32(raw, I_BLOCK(blk)) # 0 THEN Res(w, TRUE, LE32(raw, I_BLOCK(blk)))
  ELSE allocate_block(w)

WithBlock(raw, blk, phys) ==
  IF blk < 12 /\ LE32(raw, I_BLOCK(blk)) = 0
  THEN Put32(Put32(raw, I_BLOCK(blk), phys), I_BLOCKS, LE32(raw, I_BLOCKS) + BLOCK_SIZE \div 512)
  ELSE raw

\* The loop of ext2_write_data from logical block blk to end; the data is
\* read from data + (blk - start) * 1024, past its size bytes an over-read.
RECURSIVE WriteBlocks(_, _, _, _, _, _, _)
WriteBlocks(w, raw, blk, start, end, offset, size) ==
  IF blk > end THEN Res(w, TRUE, raw)
  ELSE LET rp == PhysBlock(w, raw, blk) IN
  IF ~rp.ok THEN Res(rp.w, FALSE, raw)
  ELSE IF AllocFails_(rp.w) THEN Res(Alloc(rp.w), FALSE, raw)
  ELSE LET rb == read_block(Alloc(rp.w), rp.v)
           bo == BlockOffset(blk, start, offset)
           n == CopyLen(blk, start, end, offset, size)
           src == (blk - start) * BLOCK_SIZE
  IN IF ~rb.ok THEN Res(rb.w, FALSE, raw)
  ELSE IF src + n > size THEN Fault(rb.w, "buffer over-read")
  ELSE LET wb == write_block(rb.w, rp.v, Paste(rb.v, bo, [k \in 0..(size - 1) |-> DataByte], src, n))
       IN IF ~wb.ok THEN Res(wb.w, FALSE, raw)
          ELSE WriteBlocks(wb.w, WithBlock(raw, blk, rp.v), blk + 1, start, end, offset, size)

\* ext2_write_data: the blocks written, then the inode's size grown and
\* the inode written back (its result ignored).
ext2_write_data(w, ino, offset, size) ==
  LET r1 == read_inode(w, ino) IN
  IF ~r1.ok THEN r1
  ELSE LET r2 == WriteBlocks(r1.w, r1.v, offset \div BLOCK_SIZE, offset \div BLOCK_SIZE,
                             (offset + size - 1) \div BLOCK_SIZE, offset, size)
       IN IF ~r2.ok THEN r2
          ELSE LET raw == IF offset + size > LE32(r2.v, I_SIZE) THEN Put32(r2.v, I_SIZE, offset + size) ELSE r2.v
               IN Res(write_inode(r2.w, ino, raw).w, TRUE, 0)

\* The entry loop of ext2_delete_file from offset off: the offset of the
\* first entry named name (name_len 1 and that byte), "none" once off
\* reaches the directory's size, "loop" at an entry whose rec_len is 0
\* (the offset never moves again), "over-read" at an entry past the buffer.
RECURSIVE FindEntry(_, _, _, _)
FindEntry(b, off, isize, name) ==
  IF off >= isize THEN "none"
  ELSE IF off + 8 > BLOCK_SIZE THEN "over-read"
  ELSE IF LE16(b, off + 6) > 0 /\ off + 8 >= BLOCK_SIZE THEN "over-read"
  ELSE IF LE16(b, off + 6) = 1 /\ b[off + 8] = name THEN off
  ELSE IF LE16(b, off + 4) = 0 THEN "loop"
  ELSE FindEntry(b, off + LE16(b, off + 4), isize, name)

\* The target's inode after the unlink: links decremented (uint16), and
\* zeroed only if it has a data block; with links left it is written back.
Unlinked(w, target, t) ==
  IF (LE16(t, I_LINKS) + 65535) % 65536 # 0
  THEN write_inode(w, target, Put16(t, I_LINKS, (LE16(t, I_LINKS) + 65535) % 65536)).w
  ELSE IF \E i \in 0..11 : LE32(t, I_BLOCK(i)) # 0 THEN write_inode(w, target, ZeroInode).w
  ELSE w

\* The matched entry at off zeroed for its rec_len bytes; i_size then
\* loses the rec_len read back from the zeroed entry.
RemoveAt(w, parent, p, blk, b, off) ==
  IF off + LE16(b, off + 4) > BLOCK_SIZE THEN Fault(w, "buffer overflow")
  ELSE LET zb == Paste(b, off, ZeroBlock, 0, LE16(b, off + 4))
           wb == write_block(w, blk, zb)
       IN IF ~wb.ok THEN Res(wb.w, FALSE, 0)
          ELSE LET rt == read_inode(wb.w, LE32(b, off))
               IN IF ~rt.ok THEN Res(rt.w, FALSE, 0)
                  ELSE Res(write_inode(Unlinked(rt.w, LE32(b, off), rt.v), parent,
                                       Put32(p, I_SIZE, LE32(p, I_SIZE) - LE16(zb, off + 4))).w, TRUE, 0)

\* ext2_delete_file
ext2_delete_file(w, parent, name) ==
  LET r1 == read_inode(w, parent) IN
  IF ~r1.ok THEN r1
  ELSE IF AllocFails_(r1.w) THEN Res(Alloc(r1.w), FALSE, 0)
  ELSE LET blk == LE32(r1.v, I_BLOCK(0))
           rb == read_block(Alloc(r1.w), blk)
       IN IF ~rb.ok THEN Res(rb.w, FALSE, 0)
          ELSE LET at == FindEntry(rb.v, 0, LE32(r1.v, I_SIZE), name)
               IN CASE at = "none" -> Res(rb.w, FALSE, 0)
                    [] at = "loop" -> Fault(rb.w, "infinite loop")
                    [] at = "over-read" -> Fault(rb.w, "buffer over-read")
                    [] OTHER -> RemoveAt(rb.w, parent, r1.v, blk, rb.v, at)

-----------------------------------------------------------------------------
Init ==
  /\ ext2_initialized = FALSE
  /\ mounted_filesystems = <<>>
  /\ disk = [b \in {} |-> ZeroBlock]
  /\ fault = "none"
  /\ created = {}
  /\ calls = 0

Running == fault = "none" /\ calls < MaxCalls

\* The working state of a call on the i-th mounted fs.
Work(i, f) == [disk |-> disk, fs |-> mounted_filesystems[i], n |-> 0, fail |-> f, fault |-> fault]

\* The call's result made the new state.
Commit(i, r) ==
  /\ disk' = r.w.disk
  /\ fault' = r.w.fault
  /\ mounted_filesystems' = [mounted_filesystems EXCEPT ![i] = r.w.fs]
  /\ calls' = calls + 1

\* ext2_init: once, empties mounted_filesystems.
Ext2Init ==
  /\ ext2_initialized' = TRUE
  /\ mounted_filesystems' = IF ext2_initialized THEN mounted_filesystems ELSE <<>>
  /\ calls' = calls + 1
  /\ UNCHANGED <<disk, fault, created>>

\* ext2_mount of the RAM disk: a new fs at the end of the list.
Ext2Mount(f) ==
  /\ Len(mounted_filesystems) < MaxMounts
  /\ LET r == ext2_mount([disk |-> disk, fs |-> NewFs, n |-> 0, fail |-> f, fault |-> fault])
     IN /\ disk' = r.w.disk
        /\ fault' = r.w.fault
        /\ mounted_filesystems' = IF r.ok THEN Append(mounted_filesystems, r.w.fs) ELSE mounted_filesystems
  /\ calls' = calls + 1
  /\ UNCHANGED <<ext2_initialized, created>>

\* ext2_umount of the RAM disk: every fs has its device, so the first goes.
Ext2Umount ==
  /\ mounted_filesystems # <<>>
  /\ mounted_filesystems' = Tail(mounted_filesystems)
  /\ calls' = calls + 1
  /\ UNCHANGED <<ext2_initialized, disk, fault, created>>

Ext2CreateFile(i, parent, name, perm, f) ==
  LET r == ext2_create_file(Work(i, f), parent, name, perm)
  IN /\ Commit(i, r)
     /\ created' = IF r.ok THEN created \cup {[parent |-> parent, name |-> name, ino |-> r.v]} ELSE created
     /\ UNCHANGED ext2_initialized

Ext2WriteData(i, ino, offset, size, f) ==
  /\ Commit(i, ext2_write_data(Work(i, f), ino, offset, size))
  /\ UNCHANGED <<ext2_initialized, created>>

Ext2DeleteFile(i, parent, name, f) ==
  LET r == ext2_delete_file(Work(i, f), parent, name)
  IN /\ Commit(i, r)
     /\ created' = IF r.ok THEN {c \in created : c.parent # parent \/ c.name # name} ELSE created
     /\ UNCHANGED ext2_initialized

Next ==
  \/ Running /\ Ext2Init
  \/ Running /\ \E f \in AllocFails : Ext2Mount(f)
  \/ Running /\ Ext2Umount
  \/ Running /\ \E i \in 1..Len(mounted_filesystems), p \in InodeArgs, nm \in Names, pm \in Perms, f \in AllocFails :
       Ext2CreateFile(i, p, nm, pm, f)
  \/ Running /\ \E i \in 1..Len(mounted_filesystems), ino \in InodeArgs, o \in WriteOffsets, s \in WriteSizes, f \in AllocFails :
       Ext2WriteData(i, ino, o, s, f)
  \/ Running /\ \E i \in 1..Len(mounted_filesystems), p \in InodeArgs, nm \in Names, f \in AllocFails :
       Ext2DeleteFile(i, p, nm, f)

Spec == Init /\ [][Next]_vars

-----------------------------------------------------------------------------
\* The entries of a directory block as a reader of the ext2 format sees
\* them: from offset 0 along rec_len, within i_size and the block.
RECURSIVE EntriesFrom(_, _, _)
EntriesFrom(b, off, isize) ==
  IF off >= isize \/ off + ENTRY_SIZE > BLOCK_SIZE \/ LE16(b, off + 4) = 0 THEN {}
  ELSE {[ino |-> LE32(b, off), name |-> IF LE16(b, off + 6) = 1 THEN b[off + 8] ELSE -1]}
         \cup EntriesFrom(b, off + LE16(b, off + 4), isize)

InodeOnDisk(ino) == Slice(Block(disk, InodeBlock(ino)), InodeOff(ino), INODE_SIZE)

Listed(dir) ==
  IF LE32(InodeOnDisk(dir), I_BLOCK(0)) = 0 THEN {}
  ELSE EntriesFrom(Block(disk, LE32(InodeOnDisk(dir), I_BLOCK(0))), 0, LE32(InodeOnDisk(dir), I_SIZE))

\* Every file ext2_create_file created (returned 0) and ext2_delete_file
\* has not removed is listed in its parent directory under its name with
\* its inode number: creating, writing and deleting other files, and
\* mounting again, never lose or redirect a directory entry.
CreatedFilesListed ==
  fault = "none" =>
    \A c \in created : [ino |-> c.ino, name |-> c.name] \in Listed(c.parent)
====
