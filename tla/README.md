# A TLA+ model of logfsprogs

`mklogfs` creates a LogFS filesystem: it writes a small log-structured object
store on a disk, a file or raw flash, in a single pass, and makes it visible by
writing the superblocks last. It is one sequential process. What is hard about
it is not concurrency but a long chain of state that must agree at the end:
pointers in memory, segments on the device, byte counters and segment entries
that are published at different moments, on a device where erases and writes
may fail and where the process may stop at any step.

The modules here model that program as TLC can check it, and prove with TLAPS,
for every geometry, the properties of the device operations, the setup, the
object store, the files and of `mkfs()` as a whole.

## Inventory

| Part | Source | State | Operations | Modelled in |
|---|---|---|---|---|
| object store | `segment.c` | `lastseg`, `segment_entry`, `area[]`, `used_bytes` of `struct super_block` | `get_segment`, `logfs_segment_write`, `flush_segments` | `Segment` |
| files | `readwrite.c` | `struct inode`: height, 17 pointers, a tree of indirect blocks per level | `logfs_file_write`, `logfs_file_flush`, `find_or_create_inode` | `FileRW` |
| B+tree | `btree.c`, `btree.h` | head (height, root), nodes of fixed size | insert, remove, lookup, last, merge, visitors | `BTree`, `OrderedMap` |
| mkfs | `mkfs.c` 99-613 | superblock places, `journal_seg`, the step it is at | reservation, segment file, inodes, flush, journal, superblocks | `Mkfs` |
| journal entries | `mkfs.c` 299-452 | `je_array`, position in the block | `je_anchor`, `je_dynsb`, `je_alias`, `je_commit`, `write_je` | `Mkfs` |
| device operations | `mkfs.c` 99-217, 611 | the bytes of the device, the page cache, `erase_buf` | `safe_pwrite`, `bdev_write`, `bdev_erase`, `mtd_erase`, the fsync | `Device`, `Volume` |
| discovery, options | `mkfs.c` 40-57, 526-571, 615-769 | shifts, sizes, flags, `answer[]` | `main`, `__open_device`, the checks of the shifts, the questions | `Setup` |
| on-medium format | `logfs_abi.h` | - | - | the structures mkfs writes, where used |
| fsck | `fsck.c` | none: it parses options and prints one word | - | no |
| support | `lib.c`, `kerncompat.h`, `Makefile` | - | CRC self-check, `fail`, macros | no |

Calls go down only: `mkfs` calls the file layer and `get_segment`; the file layer
calls `logfs_segment_write` and the trees; the object store calls the device
and, to account bytes, `find_or_create_inode` of the file layer. All state hangs
off one `struct super_block`. There are no callbacks apart from the table of
device operations and the journal entry writers.

What is hard, by part, with the properties it calls for; `PROJECT.json` lists the
hazards with their lines:

* object store: twelve buffers take turns in getting segments, objects of two
  sizes share one test for room, erases fail in between. Two areas must not share a
  segment, a segment is written once and after an erase, objects do not overlap,
  entries and counters match what was written.
* files: indirect blocks are written bottom up, each write enters its offset in a
  block of the next level. No pointer may dangle and every block must be found,
  whatever the order of writes.
* B+tree: bounds of inner nodes are only lowered and go stale; one insert splits
  several nodes and may run out of memory between; `merge` hands a key to a call
  that overwrites it. It must still be a map.
* device operations: writes are short, interrupted or fail half way, erases have
  two ioctls of different width, and one fsync at the very end is all that orders
  anything. A request must be served as a whole or fail within its range, and
  what was synced must last.
* discovery and options: numbers from the user and from the device are cut to
  several widths before they are checked and meet in one geometry, which must be
  one the object store can work on; nothing may be touched without consent.
* mkfs: counters and entries are published while they still change, segments are
  set aside that `get_segment` does not know of, superblocks of an earlier
  filesystem must not survive a run that stops early.

## Modules

* `Segment.tla` - the object store, a faithful model of `segment.c`. An action per
  call: `Reserve` (what the two `prepare_sb` and `prepare_journal` do),
  `SegmentWrite` and `SegmentWriteFails` (`logfs_segment_write` with everything it
  calls), `FlushArea` and `FlushFails` (one iteration of `flush_segments`),
  `Halt`. The loop of `get_segment` over bad segments is one step: it returns `s`
  and all segments tried before `s` have failed. `medium` is the device;
  `faulty` is a history variable.
* `FileRW.tla` - extends `Segment` with `readwrite.c`. `BlockSpan` is the mask of
  `bixmask`: right up to level `MaskLevels`, three in the program, and beyond, where
  an int is shifted too far, any number (`UndefinedSpan`). The files explored, and
  those of the theorems, need no more than `MaskLevels` levels, as those of
  `mklogfs`: 2^32 segments make a segment file of 2^23 blocks. `FileWrite` is a write of a
  data block; `StartFlush`, `FlushBlock` and `FlushRoot` are the call of
  `logfs_file_flush`, one iteration of its loops and its last part. Trees of
  indirect blocks are functions. `content` is what objects hold, by their place
  on the device, and `latest` the last place of each block (history).
* `Mkfs.tla` - extends `FileRW` with `mkfs.c`: `pc` is the step of `mkfs()` that
  comes next. The operations of the lower modules are conjoined with the part
  `mkfs.c` adds. Superblocks and journal are records of what a mount reads.
  `dev_ops` is the table of device operations, chosen once.
* `Volume.tla` - the abstract specification of `struct logfs_device_operations`: a
  vector of bytes. A request is asked and answered: served as a whole, torn at
  some byte, or, for an erase, spoiled in its range. A power failure leaves
  anything before an fsync has succeeded, and everything afterwards.
* `Device.tla` - the device operations: `Begin` is the call, `Pwrite` one turn of
  the loop of `safe_pwrite`, `PwriteAgain` an interrupted or empty one,
  `PwriteFails`, `PwriteReturns` and `MtdErase` its ends. `cache` is what a reader
  of the device finds, `disk` what outlives a power failure; `WriteBack`, `Kill`
  and `PowerLoss` are the system's. `ImplementsVolume` is `Volume`'s specification
  with a call in progress seen as not begun. It justifies the atomic erases and
  writes of `Segment`: a segment is erased, written, or unknown.
* `Setup.tla` - `main`, `__open_device` and `mkfs()` around the writing: `Option` is
  one turn of the getopt loop, `OpenBdev` and `OpenMtd` the device that is found,
  `Geometry` and `GeometryFails` the checks, `Question` and `DemoQuestion` the
  consent, `PrepareSb1` to `PrepareJournal` the places, `MakeSuper` the record of
  them. `answer[]` starts as yes or as anything else, as it is not initialised, and
  `said` (history) keeps that and what was typed at each question. The size that
  the system tells of flash (`Told`) is that of any device, as the entry of sysfs is
  found by the basename alone, or 0. `GeometrySound` is what `SizeAssumption` of `Segment` takes for granted.
* `OrderedMap.tla` - the abstract specification of `btree.h`: sorted maps whose
  inserts and merges may run out of memory. A step is a call: it says which one
  with which arguments (`call`), what it returned (`ret`) and what it did, and
  `odd` changes in it, so that no call is a step that does nothing.
* `BTree.tla` - `btree.c`, nodes and all, in one action per call; its property
  `ImplementsMap` is `OrderedMap`'s specification with `map` as seen by a
  visitor and `call` set by the action: an insert that reports success has
  entered that key, a removal takes away that key or says that it is not there.
  It justifies the functions `FileRW` has in the place of trees.
* `DeviceProofs.tla`, `SetupProofs.tla`, `SegmentProofs.tla`, `SegmentSums.tla` (the
  byte counts of `Segment`), `FileRWProofs.tla`, `FilesIntact.tla` (that files are
  found), `MkfsProofs.tla`, `MkfsTree.tla` (what a mount finds of the files `mkfs()`
  writes) - the theorems. Each extends the module it is about; those from
  `SegmentProofs` on build on one another, as the components do.

Operators whose names begin with `Mut` are deliberately wrong variants of the
operator that follows them and are used by no other definition. They are the
mutants of `PROJECT.json`: with one of them in its place, the run named there
finds the property violated, which shows that the property sees that mistake.

Sizes are parameters with the relations the code guarantees (`DeviceAssumption`,
`SizeAssumption`, `FileAssumption`, `PowerAssumption`, `MkfsAssumption`,
`BTreeAssumption`, `DevAssumption`, `SetupAssumption`). Inode numbers are
parameters as well, finitely many, with those of the inode file, the root and the
segment file apart (logfs_abi.h:303); the small runs use 0 to 2 where the program
has 1 to 3.

## Runs

| Run | Question | Bounds | States |
|---|---|---|---|
| `Segment` | does any use of the object store keep it sound? | 4 segments with room for one block or two inodes, 2 levels, 2 inodes, 1 bad segment | 1.3 million |
| `FileRW` | are flushed files found and pointers right? | blocks 0, 3, 5, 16, 17 with 4 pointers per block (3 heights), 4 writes, 7 segments | 450 thousand |
| `BTree` | is one tree a map? | 11 keys, each removed whether there or not (but 0), nodes of 4 slots: 3 levels; up to 3 allocations | 21 thousand |
| `BTree_merge` | and two trees, merged into each other? | 7 keys, nodes of 4 slots, up to 2 allocations | 4 thousand |
| `Mkfs` | a disk or flash where any number of erases fail | 11 segments, segment file with one indirect block, the last 2 segments tried for the second superblock on flash | 37 thousand |
| `Mkfs_large` | does it end, with deep trees? | 254 segments, 64 blocks, 3 levels | 117 |
| `Device` | is a device operation atomic, does it return, what outlives a power failure? | 2 segments of 4 bytes, 4 pages, one segment beyond the 32 bit mark, 3 requests | 361 thousand |
| `Setup` | do options, device and answers always lead to a sound filesystem or to none? | 5 by 4 shifts, 4 sizes, 4 by 3 flash geometries, 32 bits cut to 16, a size told that is the device's, another's or 0 | 4.2 million |

Why these bounds are enough: a segment that takes one block or two inodes makes
every path of `logfs_segment_write` happen (first object, room, no room, no room
for a block but room for an inode: after two inodes of one byte); a block factor
of 4 makes trees of three levels with a handful of writes, among them the first block of a level, a
sparse one and a rewritten one; a B+tree with nodes of 4 slots splits, merges
and steals at every level that 8 slots would (fewer than 4 slots are not enough
for `rebalance`, which then has no neighbour to turn to); eleven keys are the
fewest that give three levels. Both B+tree runs tell states apart by `Shape`, the
trees and `bug`: no call reads `ret`, `call` or `odd`, and `map` is a function of the
trees; the step properties are still evaluated on every step. In `Mkfs` the journal
block is so small that the aliases fit in it only if they compress well, and
their buffer overflows when nearly every segment has an entry, so that all ends
of `make_journal` occur beside the good one. Four bytes per segment make every
split of a request into short writes happen, and three requests every pair of
one that fails and one after it on the same bytes; the superblock of `Device` is
larger than what is left at the end, so that a write runs into the end of the
device. The numbers of `Setup` are the limits of the checks and one beyond, a
shift that a u8 cuts to a valid one, the number that means "not given", erase and
write sizes that are no powers of two, devices with no segment, with fewer than
64, with part of a segment at the end and with more segments than the (modelled)
u32 counts.

Every passing run ends where the program may end, so deadlock is not an error in
them, except in `BTree`, whose clients can always call.

The properties that relate the most:

* `AreasExclusive`, `WriteOnce`, `Packed`, `ValidExact`, `UsedBytesExact`,
  `BadSegmentsShunned` (object store).
* `FileIntact`: what was written is found through the inode after a flush.
  `PointersLead`: a pointer in memory names an object whose header agrees.
* `ImplementsMap`, `WellFormed`, `NoBug`, `LookupAgrees` (B+tree).
* `TreeOnMedium`, `SuperFindsJournal`, `AliasesTrue`, `UsedBytesOnMedium`,
  `BadSegmentsMarked`: if a superblock is on the device, then everything a mount
  reads from there is complete and true. The premise `Roomy` says that
  `get_segment` has not come to the segment of the second superblock; without it
  the second superblock may overwrite objects (see below).
* `OldSuperblocksErased`, `FlashSuperblocksReserved`, `ReservedKeptWithRoom`: the
  places of the superblocks are cleared first, marked and kept.
* `ImplementsVolume`, `CallReturns` (device operations).
* `ConsentFirst`, `GeometrySound`, `UserShiftsObeyed`, `SuperblocksInside` (setup).
  `ConsentFirst` asks for a yes to each question that is put, and says where it comes
  from when the input has ended: from the question before, or from the memory that
  `answer[]` found. The last has two premises that the program does not check: -j from 1 to 16 and, on
  flash, a write size of at most 4096.
* `Completes`: with a perfect device the program gets to its end.

Fairness is weak and assumed in two places. `MkfsSpec`: there is one process, which
the system goes on running, and every step is one of its own. `DevFairSpec`: a
call of pwrite() that is repeated does not answer 0 or EINTR for ever (it is the
one thing `safe_pwrite` cannot end by itself), and the process goes on running.
Nothing is assumed of the write-back, the fsync, kills or power failures.

## What disagrees with the code's own words

Each of these is a run of its own in which TLC finds the property violated.

1. `FileRW_boundary`: `grow_inode` (readwrite.c:118) tests `bix > maxbix(height)`.
   A file whose last block is number 512 keeps one level too few, and that level
   has two indirect blocks. The flush takes the last one as the root: block 512 is
   found, and the blocks before it that have no direct pointer, 16 to 511, are lost.
   The segment file of a device with exactly 512*512 + 1 to 512*512 + 512 segments
   ends in such a block. `FileIntact` excludes the case, `EveryFileIntact` does not.
2. `FileRW_wrap`: the offset of an object (segment.c:163) is computed in 32 bits.
   On a device where objects lie beyond 4 GiB (large segments, many bad ones) it
   wraps, and the pointer names what lies at the beginning of the device: in the
   run the object of another file.
3. `Mkfs_bdev_sb2`: on a disk the second superblock is written 0x1000 bytes before
   the segment that was reserved for it (mkfs.c:158).
4. `Mkfs_small`: `get_segment` does not look at the reservation of the last
   segment and hands it out on a small device (segment.c:46).

Seen while modelling, not the subject of a run:

* `--demo-mode` is documented as "don't erase device" (mkfs.c:695) and says so again
  when it asks (mkfs.c:567); then the device is erased all the same. With
  `--non-interactive` as well that is the only question put. `ConsentFirst` says that
  a yes is heard to each question that is put, not that its words are true.
* The result of `scanf` is not looked at and both questions share `answer[]`
  (mkfs.c:568): after a yes to the first one an input that ends answers the second
  as well. If it ends before the first one, what decides is memory nobody has
  written (mkfs.c:523). `Setup` has both, and `ConsentFirst` names where such a yes
  comes from.
* `btree_remove` of an absent key 0 takes the unused slot behind the last entry for it,
  whose NUL is the same number, and clears the smallest entry of the leaf
  (btree.c:612). No caller of this repository does it, and `AbsentKeys` of the runs
  are all keys but 0; with 0 among them TLC finds `ImplementsMap` violated.

Others: on a disk nothing erases the
second superblock of an earlier filesystem in `prepare_sb` (mkfs.c:155), though
the caller speaks of erasing two; on flash, bad segments found while looking for
a place for the second superblock are not marked in the segment file
(mkfs.c:132), as those are that `get_segment` finds, and if `get_segment` gets
there on a full device it may erase such a segment with success: `BadSegmentsMarked`
therefore speaks of segments up to the second superblock on flash, and of every
segment on a disk; with -j 0 the journal goes to segment 0, and more than 16
journal segments overrun `journal_seg[]` (mkfs.c:515); a write size above 4096 on
flash makes the superblock larger than its place (mkfs.c:136); the result of the
fsync is not looked at (mkfs.c:611); the flag `LOGFS_FULLY_POPULATED` is never set
(readwrite.c:105, logfs_abi.h:112); `je_alias` has no bound on the aliases it writes
into two blocks (mkfs.c:365); `bixmask` shifts an int by 36 bits and more from level 4
on (readwrite.c:88), to which no file of `mklogfs` grows; the size of flash is
looked up in sysfs by the basename of the device alone, and a read that fails
there makes it 0 (mkfs.c:661-667).

## Proofs

All theorems hold for every value of the constants that satisfies the assumptions
of the modules, and of the premise a theorem states. Nothing bounds the number of
segments, objects, faults, requests or writes.

**Device operations** (`DeviceProofs`, from `DevAssumption`).
`DeviceTyping` and `DeviceImplementsVolume`: `DevSpec => ImplementsVolume`, the
refinement. The inductive invariant `DevInv` adds to the types: in the loop of
`safe_pwrite` the bytes from the start of the request to `ofs` are those of the
request and all others are what they were at the call (`LoopInv`); an erase of flash
in progress has done nothing yet (`EraseInv`); after a good fsync the program is over
and the disk is what a reader finds (`SyncInv`). A step of the loop is a stutter of `Volume`, the
return its `Served`, `Torn` or `Spoiled` step.

**Setup** (`SetupProofs`, from `SetupAssumption`).
`SetupTyping` from `TypeInv`. `Consent` from `ConsentInv`: up to the first question
`answer[]` holds what it held at first, up to the second one that or what was heard
at the first (`HeardBefore`), and who has come past a question that is put has heard a
yes to it. It takes nothing for granted of what the memory held or of where the
input ends. `Sound` and `Obeyed` from
`GeometryInv`: what is in `super` has passed the checks in the widths the code
compares in. `SuperblocksPlaced` from `PlaceInv`; its premise
`3 * MaxBad + JOURNAL_SEGS + 2 <= TailWindow` says that the window of 64 segments
searched from the end for the second superblock is larger than what bad segments and
the journal can take: with 16 journal segments, up to 15 bad ones. `PowerTable` gives
the powers of two that shifts need.

**Object store** (`SegmentProofs`, `SegmentSums`, from `DeviceAssumption` and
`SizeAssumption`). The step lemmas are stated for `StoreNext`: a call of any
client, with any object, so that `FileRW` and `Mkfs` can use them.

* `Typing`: `TypeOK` is inductive as it stands: `lastseg` never passes the device
  because `get_segment` returns a segment there is.
* `Exclusive`: `AreasExclusive` is the inductive invariant itself, once it says of
  segments ahead of `lastseg` that nothing has touched them, of segments in use that
  they are behind it, and of areas still to be written (`Pending`) that their
  segment is erased and has no entry. The proof splits steps by what they do to
  areas: `InPlace` (an area grows) or `MovesTo` (it takes the segment `get_segment`
  returns). `OwnedBelow(n)` and `StoreBelow(n)` are the same with the part of the
  device below `n` in the place of the whole: that is what is left of it once
  `mtd_prepare_sb` has reserved a segment near the end without `get_segment`.
* `AlwaysPacked`: objects tile the bytes from the header to the fill of the buffer;
  one `CopyBuf` extends a tiling if there is room. This is where `HasRoom`, stated
  for a block, must be enough for any object.
* `WrittenOnce`: the action property, from `AreasExclusive` before the step.
* `Shunned`: a faulty segment is behind `lastseg`, has the entry of a bad one, no area
  and no objects; the loop of `get_segment` keeps this for all it passes at once.
* `ValidAlwaysExact`: each area's `valid` is the sum over its buffer (`CountedAreas`) and
  is copied to the entry in the step that writes the buffer.
* `UsedBytesAlwaysExact`: counters are sums over `Live`, the objects in areas and on the
  device (`LiveInv`); a step moves objects from one to the other or adds one.
  Sums over sets would need induction with an operator as parameter. Instead,
  `SegmentSums` shows that there is a function on finite subsets that is 0 on the
  empty one and adds (`Additive`), by the least size of a set on which there is
  none, and that the folds of the community modules agree with it.

**Files** (`FileRWProofs` and `FilesIntact`, in addition from `FileAssumption` and `PowerAssumption`).

* `FileTyping`: `FileTypeOK` is not inductive: that trees above the height are empty
  (`WithinHeight`), that they are finite, and that the flush in progress goes through
  a level there is (`FlushOK`) must be known to see that `FlushBlock` finds a block.
* `StoreUnderFiles`: all properties of the object store hold with files as clients.
* `NoneDangles`: `PointersLead`, for every pointer of every level. `LeadInv` adds that
  keys of a level are multiples of the blocks below (`AlignedTrees`), so that the
  slot of a pointer determines the block it stands for: `GetBits` and `ParentBix`
  are inverse, as far as the mask is right. `FileAssumption` says that files stay
  within the levels for which it is (`FileBixes` below `Factor ^ MaskLevels`). The
  theorem is `[](OffsetsFit => PointersLead)`: as long as the segments handed out so
  far lie where the 32 bits of an offset reach, on a device of any size. As
  `lastseg` only grows, `OffsetsFit` now means that it held all the time (`FittedBefore`).
  Run `FileRW_wrap` is what happens without it.
* `FilesFound`: `[](OffsetsFit => FileIntact)`. The invariant `KeptInv` follows each
  block of a file (`BlockKept`). One with a direct pointer is where that points. Any
  other is at the end of a `Chain`: offsets, one per level up to some level m, each
  the place of an indirect block on the device that points to the one before.
  Before the flush m is 0. Until the flush ends the chain hangs from the
  indirect block in memory of level m + 1 (`HangsAt`), and after it from the inode
  (`Rooted`). Three facts carry it through a step. No object is overwritten,
  because the place of a new one is that of no other (`FreshPlace`, from the
  invariant of the store). A turn of the flush makes exactly the chains through
  the block it writes longer by that object (`ClimbHangs`): `HangsAt` therefore says
  that lower levels are empty and that the block of level m is gone. And the
  highest level has one block (`OneTop`): every key in the trees is there for a block
  of the file (`Grounded`), all of which are below `Factor ^ di_height` unless the file is
  the one that `Boundary` excludes. A reader's `Path` is a recursive function; it exists
  because the chain is one, and equals it by the highest level at which it would not
  (`ReaderFollows`).

**mkfs** (`MkfsProofs` and `MkfsTree`, in addition from `MkfsAssumption`).
The steps of `mkfs()` that are calls of the lower layers (`Work`) are steps of
`StoreNext`; the others set segments aside, write the journal or a superblock.

* `MkfsTyping`, from `MkfsInv`: the types and `FileInv`.
* `NoOldSuperblock`, as long as `OffsetsFit`. `PlaceInv` says where the superblocks and
  journal segments are: the first superblock in front, journal and areas between it
  and `lastseg`; `MediumInv` that what is ahead of `lastseg` holds no objects and that
  the segments of the superblocks are erased until these are written.
* `JournalFound`, `FlashReserved`, `BadMarked`, `AliasesTell` as long as `Fits`, a condition
  on the state: `OffsetsFit`, a superblock fits in the 0x1000 bytes kept for it, and the
  block of the journal ends before those. The last two are so in the program from a
  segment shift of 14 on, with a write size of up to 4096. `Fits` speaks of the segments
  handed out and not of the device, which may be as large as it likes: with 4 GiB
  handed out a segment file has room for three levels. `ReservedStays` needs none of it.
  `JournalInv` says that the journal, once written, has the entries the state had,
  and that the superblocks were made of that state; that segment file and aliases
  together are the table of entries is `AliasTable`. `BadInv` and `RoomInv` relate
  that table to `faulty` and to the device. `RoomInv` is by phases: before
  `prepare_sb` has found its places the invariant of the store as it is, then that
  of the store below the second superblock, and at the end, when the areas are
  written, that the entries are true of the device (`Truths`).

* `TreeFound`: `[](Fits => TreeOnMedium)`, if `Reachable`: the last block of the segment
  file is not the one `Boundary` speaks of (`Max(SegfileBlocks) # Factor ^ h`), where
  the blocks before it are lost as `FileRW_boundary` shows. `WriteInv` goes with `mkfs()` through its phases. The
  segment file and the inode file keep their blocks as in `FilesFound` (`FilesKept`, from
  the same lemmas, with `mkfs()` as the client). The segment file has the blocks
  before `blk` (`SegfileBegun`), then all of them (`SegfileFlushing`); from the flush on,
  its inode as it was written is the one in memory (`InodeWritten`), as no step changes
  it any more; and the areas `flush_segments` has passed are on the device with the
  buffers they have now (`AreasFlushed`), as two areas never share a segment. When the
  journal is written no area is left (`AllOut`), so that what was held in a buffer or a
  segment (`HeldTree`) is on the device. The journal goes to a segment without objects
  because that is marked reserved and a segment with objects has the entry of one
  (`JournalKeepsStore`); the superblocks leave journal and objects as they are.
* `UsedBytesFound`: `[](Fits => UsedBytesOnMedium)`. The counters are sums over
  `Live`, which is what is on the device (`OutIsLive`) once no area is left. That only
  object segments hold objects is an invariant of its own (`Clean`). The sum over inodes of
  the sums over segments of the sums over objects is the sum over all by `PartsSum`:
  the sums of the parts of a finite set add up to that of the set.

Trying to prove `BadSegmentsMarked` showed that its first form was wrong: it
claimed the mark for a segment that `mtd_prepare_sb` had passed over, if
`get_segment` came there later. That erase may succeed, and then the segment is
in use and not marked. `Mkfs.cfg` does not reach the case, as a full device
overruns the buffer of aliases there. The property now excludes those segments
and no others.

Only model-checked:

* Liveness (`Completes`, `CallReturns`) is out of the prover's reach.
* The B+tree (`WellFormed`, `NoBug`, `LookupAgrees`, `ImplementsMap`): its operators are
  RECURSIVE, which the prover does not support.

## Not modelled

* Contents of headers, checksums, the compression itself (a choice among lengths),
  times, modes and other constants in inodes.
* Undefined behaviour after the overrun of the buffer of aliases: the model stops.
* The order in which pages reach the medium before the fsync is modelled in `Device`
  but not carried up to `Mkfs`: before the fsync the program promises nothing about
  a power failure. The crashes of `Mkfs` are those of the process; on flash, which
  is written through, they are those of the machine as well, but for a
  superblock that is torn itself.
* What follows an overrun of `journal_seg[]` (the state "undefined" of `Setup`).
* A regular file that grows when it is written beyond its end: `Device` has a
  device with a fixed end, and `SuperblocksInside` shows that nothing is written
  beyond it.
* `fsck.c`, which prints one word; `lib.c` (a self-check of crc32, `fail`), macros and
  the parts of `logfs_abi.h` that nothing in this repository writes.
* `AGGRESSIVE_COMPACTION` in `btree.c`, which is not compiled in.

## Plan

1. Done: `Segment`, `FileRW`, `Mkfs`, `BTree` over `OrderedMap`, `Device` over `Volume`,
   `Setup`; the theorems above.
2. Nothing of the program that keeps state is left out; an abstract file store over
   `FileRW` would say no more than `FileIntact`.
3. Done: every safety property of every component but the B+tree is a theorem. What is
   left is what the prover cannot do (above): the B+tree, written with functions in the
   place of RECURSIVE operators, would still need induction over its nodes.
