-------------------------------- MODULE Mkfs --------------------------------
(***************************************************************************)
(* mkfs.c: the program, from prepare_sb to the last superblock.            *)
(*                                                                         *)
(* mkfs() reserves the segments of the superblocks and of the journal,     *)
(* writes the segment file and two inodes through FileRW, flushes every    *)
(* area, and then writes the journal and the superblocks, which make the   *)
(* filesystem visible.  It may stop at any step; what matters then is what *)
(* the device holds.                                                       *)
(***************************************************************************)
EXTENDS FileRW, Sequences

CONSTANTS
    Devices,        \* kinds of device: "mtd" is flash, "bdev" a disk or a file
    ROOT,           \* LOGFS_INO_ROOT
    SEGFILE,        \* LOGFS_INO_SEGFILE
    NoJournalSegs,  \* no_journal_segs
    TailWindow,     \* 64: segments tried for the 2nd superblock on flash
    SbTail,         \* 0x1000: distance of the 2nd superblock from the end
    SbSize,         \* secsize of make_super
    JeHeader,       \* sizeof(struct logfs_journal_header)
    JeAlign,        \* 16
    AnchorLen,      \* sizeof(struct logfs_je_anchor)
    DynsbLen,       \* sizeof(struct logfs_je_dynsb)
    AliasLen,       \* sizeof(struct logfs_obj_alias)
    JeOfsLen,       \* sizeof(__be64), an offset in the commit entry
    CompLens        \* lengths zlib may compress an entry to (a bound)

\* segments are blocks times a power of two; -j 0 and a device of one segment
\* are out of scope.
ASSUME MkfsAssumption ==
    /\ Devices \subseteq {"mtd", "bdev"}
    /\ {MASTER, ROOT, SEGFILE} \subseteq Inos /\ IsFiniteSet(Inos)
    /\ ROOT # SEGFILE /\ MASTER \notin {ROOT, SEGFILE}
    /\ ROOT \in 0 .. I0 - 1 /\ SEGFILE \in 0 .. I0 - 1
    /\ NoJournalSegs \in Nat \ {0} /\ NoSegs > 1
    /\ TailWindow \in Nat /\ SbTail \in 1 .. SegSize /\ SbSize \in Nat
    /\ {JeHeader, AnchorLen, DynsbLen, AliasLen, JeOfsLen} \subseteq Nat
    /\ JeAlign \in Nat \ {0} /\ CompLens \subseteq Nat
    /\ OffsetMod % SegSize = 0
    /\ NoSegs <= Factor ^ (MaskLevels + 1)

VARIABLES
    dev_ops,      \* super_block.dev_ops: mtd_ops or bdev_ops
    pc,           \* the step of mkfs() that comes next
    blk,          \* ofs in write_segment_file
    sb_ofs,       \* super_block.sb_ofs1 and sb_ofs2
    journal_seg,  \* super_block.journal_seg
    journal,      \* the journal on the device
    super         \* the two superblocks on the device

mkfsVars == <<dev_ops, pc, blk, sb_ofs, journal_seg, journal, super>>
vars == <<segVars, fileVars, mkfsVars>>

NoJournal == [seg |-> -1, end |-> 0]
NoSuper   == [ofs |-> -1]

----------------------------------------------------------------------------
(* prepare_sb and prepare_journal                                          *)

PrepareSb1(s) ==
    /\ pc = "sb1"
    /\ Reserve(s)
    /\ sb_ofs' = [sb_ofs EXCEPT ![1] = s * SegSize]
    /\ pc' = "sb2"
    /\ UNCHANGED <<dev_ops, fileVars, blk, journal_seg, journal, super>>

\* bdev_prepare_sb: the last segment is reserved, without an erase.
BdevSb2 ==
    LET segno == NoSegs - 1
    IN  /\ pc = "sb2" /\ ~exited /\ dev_ops = "bdev"
        /\ segment_entry' = [segment_entry EXCEPT ![segno] = ReservedEntry]
        /\ sb_ofs' = [sb_ofs EXCEPT ![2] = segno * SegSize - SbTail]
        /\ pc' = "journal"
        /\ UNCHANGED <<dev_ops, lastseg, area, used_bytes, di_used_bytes, flush_i,
                       medium, faulty, exited, fileVars, blk, journal_seg,
                       journal, super>>

MutTailEntry(segno) == [segment_entry EXCEPT ![lastseg] = ReservedEntry]
TailEntry(segno) == [segment_entry EXCEPT ![segno] = ReservedEntry]

MutTailErased(segno, skipped) == medium
TailErased(segno, skipped) ==
    [t \in Segs |-> IF t = segno THEN Erased
                   ELSE IF t \in skipped THEN Unknown
                   ELSE medium[t]]

\* mtd_prepare_sb: the last segment that can be erased, of the last TailWindow.
\* A segment that cannot is passed over, its entry stays as it is.
MtdSb2(segno) ==
    LET skipped == segno + 1 .. NoSegs - 1
        ofs     == (segno + 1) * SegSize - SbTail
    IN  /\ pc = "sb2" /\ ~exited /\ dev_ops = "mtd"
        /\ NoSegs >= TailWindow /\ segno > NoSegs - TailWindow
        /\ faulty' = faulty \cup skipped
        /\ Cardinality(faulty') <= MaxFaults
        /\ segment_entry' = TailEntry(segno)
        /\ medium' = TailErased(segno, skipped)
        /\ sb_ofs' = [sb_ofs EXCEPT ![2] = ofs]
        /\ IF ofs <= sb_ofs[1]
           THEN exited' = TRUE /\ UNCHANGED pc
           ELSE pc' = "journal" /\ UNCHANGED exited
        /\ UNCHANGED <<dev_ops, lastseg, area, used_bytes, di_used_bytes, flush_i,
                       fileVars, blk, journal_seg, journal, super>>

\* No segment of the tail can be erased; with u32 arithmetic none is even tried
\* on a flash of fewer than TailWindow segments.
MtdSb2Fails ==
    LET tail == IF NoSegs < TailWindow THEN {}
                ELSE NoSegs - TailWindow + 1 .. NoSegs - 1
    IN  /\ pc = "sb2" /\ ~exited /\ dev_ops = "mtd"
        /\ faulty' = faulty \cup tail
        /\ Cardinality(faulty') <= MaxFaults
        /\ medium' = [t \in Segs |-> IF t \in tail THEN Unknown ELSE medium[t]]
        /\ exited' = TRUE
        /\ UNCHANGED <<lastseg, segment_entry, area, used_bytes, di_used_bytes,
                       flush_i, fileVars, mkfsVars>>

PrepareJournal(s) ==
    /\ pc = "journal"
    /\ Reserve(s)
    /\ journal_seg' = Append(journal_seg, s)
    /\ pc' = IF Len(journal_seg') = NoJournalSegs THEN "segfile" ELSE pc
    /\ UNCHANGED <<dev_ops, fileVars, blk, sb_ofs, journal, super>>

ReserveSegmentFails ==
    /\ pc \in {"sb1", "journal"}
    /\ ReserveFails
    /\ UNCHANGED <<fileVars, mkfsVars>>

----------------------------------------------------------------------------
(* The segment file and the inodes                                         *)

SegfileBlocks == {b \in 0 .. NoSegs : b * Factor < NoSegs}

\* write_segment_file, one block of zeros: the entries come later, as aliases
\* in the journal.
WriteSegfile(s) ==
    /\ pc = "segfile"
    /\ blk \in SegfileBlocks
    /\ FileWrite("block", SEGFILE, blk, Payload, s)
    /\ blk' = blk + 1
    /\ UNCHANGED <<dev_ops, pc, sb_ofs, journal_seg, journal, super>>

FlushSegfile ==
    /\ pc = "segfile"
    /\ blk \notin SegfileBlocks
    /\ StartFlush(SEGFILE)
    /\ pc' = "segflush"
    /\ UNCHANGED <<dev_ops, blk, sb_ofs, journal_seg, journal, super>>

FlushStep(s) ==
    /\ pc = "segflush"
    /\ FlushBlock(s) \/ FlushRoot(s)
    /\ UNCHANGED mkfsVars

\* write_inode: the inode as it is now becomes a block of the inode file.
WriteInode(ino, s) == FileWrite("inode", MASTER, ino, Inode(ino), s)

MutSegfileDone == pc = "segflush"
SegfileDone == pc = "segflush" /\ flushing = None

WriteSegfileInode(s) ==
    /\ SegfileDone
    /\ WriteInode(SEGFILE, s)
    /\ pc' = "rootdir"
    /\ UNCHANGED <<dev_ops, blk, sb_ofs, journal_seg, journal, super>>

WriteRootdir(s) ==
    /\ pc = "rootdir"
    /\ WriteInode(ROOT, s)
    /\ pc' = "flush"
    /\ UNCHANGED <<dev_ops, blk, sb_ofs, journal_seg, journal, super>>

FileWriteError ==
    /\ \/ pc = "segfile" /\ blk \in SegfileBlocks /\ FileWriteFails(SEGFILE)
       \/ pc = "segflush" /\ FileFlushFails
       \/ pc \in {"segflush", "rootdir"} /\ flushing = None /\ FileWriteFails(MASTER)
    /\ UNCHANGED mkfsVars

FlushSegments ==
    /\ pc = "flush"
    /\ FlushArea
    /\ UNCHANGED <<fileVars, mkfsVars>>

FlushSegmentsFails ==
    /\ pc = "flush"
    /\ FlushFails
    /\ UNCHANGED <<fileVars, mkfsVars>>

----------------------------------------------------------------------------
(* The journal                                                             *)

Align(n) == ((n + JeAlign - 1) \div JeAlign) * JeAlign

MutAliased(s) == segment_entry[s].valid # 0 /\ segment_entry[s].valid # RESERVED
\* je_alias: the segments with an entry that is not zero.
Aliased(s) == segment_entry[s].ec_level # 0 \/ segment_entry[s].valid # 0

AliasedSegs == {s \in Segs : Aliased(s)}

\* A segment entry is a child of a block of the segment file.
AliasKey(s) == <<s \div Factor, s % Factor>>
Aliases ==
    [k \in {AliasKey(s) : s \in AliasedSegs} |->
        segment_entry[k[1] * Factor + k[2]]]

\* logfs_compress: the lengths it may return; it fails if the result is no shorter
\* or does not fit.
Compressed(len, max) == {c \in CompLens : c < len /\ c <= max}

\* write_je: an entry is stored compressed if that makes it shorter, else as it
\* is; without room for it BUG_ON stops the program.
Stored(len, max) == Compressed(len, max) \cup (IF len <= max THEN {len} ELSE {})

\* The journal segment's first entry starts behind the segment header.
JeStart == Align(SegHeader)
After(jpos, len) == jpos + JeHeader + Align(len)

\* The u32 product seg * segsize of make_journal.
JournalSegment == ((journal_seg[1] * SegSize) % OffsetMod) \div SegSize

RawAliasLen == Cardinality(AliasedSegs) * AliasLen

MutJeArray(p2, p3) == <<JeStart, p2>>
\* je_array when the commit entry is written: the entries before it.
JeArray(p2, p3) == <<JeStart, p2, p3>>

MakeJournal ==
    /\ pc = "flush" /\ ~exited
    /\ flush_i = NoAreas
    /\ RawAliasLen <= 2 * BlockSize
    /\ \E a \in Stored(AnchorLen, BlockSize - JeStart) :
       LET p2 == After(JeStart, a) IN
       \E d \in Stored(DynsbLen, BlockSize - p2) :
       LET p3 == After(p2, d) IN
       \E o \in Stored(RawAliasLen, BlockSize - p3) :
       LET p4 == After(p3, o)
           je == JeArray(p2, p3)
       IN  /\ Len(je) * JeOfsLen <= BlockSize - p4
           /\ journal' =
                [seg    |-> JournalSegment,
                 anchor |-> [at |-> JeStart, ptr |-> inode[MASTER].di_data,
                             used |-> di_used_bytes[MASTER]],
                 dynsb  |-> [at |-> p2, used |-> used_bytes],
                 alias  |-> [at |-> p3, val |-> Aliases],
                 commit |-> {journal_seg[1] * SegSize + je[i] : i \in DOMAIN je},
                 end    |-> After(p4, Len(je) * JeOfsLen)]
    /\ medium' = [medium EXCEPT ![JournalSegment] = Journal]
    /\ pc' = "super1"
    /\ UNCHANGED <<dev_ops, lastseg, segment_entry, area, used_bytes, di_used_bytes,
                   flush_i, faulty, exited, fileVars, blk, sb_ofs, journal_seg,
                   super>>

\* The journal is written in part only.
MakeJournalFails ==
    /\ pc = "flush" /\ ~exited
    /\ flush_i = NoAreas
    /\ MaxFaults > 0
    /\ medium' = [medium EXCEPT ![JournalSegment] = Unknown]
    /\ exited' = TRUE
    /\ UNCHANGED <<lastseg, segment_entry, area, used_bytes, di_used_bytes,
                   flush_i, faulty, fileVars, mkfsVars>>

\* je_alias overruns the scratch buffer of two blocks.  What happens then is
\* undefined; the model lets the program stop.
ScratchOverrun ==
    /\ pc = "flush" /\ ~exited
    /\ flush_i = NoAreas
    /\ RawAliasLen > 2 * BlockSize
    /\ exited' = TRUE
    /\ UNCHANGED <<lastseg, segment_entry, area, used_bytes, di_used_bytes,
                   flush_i, medium, faulty, fileVars, mkfsVars>>

\* BUG_ON(len > max): entries that do not compress outgrow the block.
JournalBug ==
    LET p4 == After(After(After(JeStart, AnchorLen), DynsbLen), RawAliasLen)
    IN  /\ pc = "flush" /\ ~exited
        /\ flush_i = NoAreas
        /\ p4 + 3 * JeOfsLen > BlockSize
        /\ exited' = TRUE
        /\ UNCHANGED <<lastseg, segment_entry, area, used_bytes, di_used_bytes,
                       flush_i, medium, faulty, fileVars, mkfsVars>>

----------------------------------------------------------------------------
(* The superblocks                                                         *)

\* The bytes of superblock n, as positions on the device.
SbBytes(n) == sb_ofs[n] .. sb_ofs[n] + SbSize - 1

\* Objects that a write of superblock n leaves alone.
Spared(n, t, objs) ==
    {o \in objs : \A b \in SbBytes(n) :
                     ~(t * SegSize + o.pos <= b /\ b < t * SegSize + End(o))}

SpareJournal(n) ==
    \A b \in SbBytes(n) : ~(journal.seg * SegSize <= b
                            /\ b < journal.seg * SegSize + journal.end)

\* make_super, the write of superblock n.
WriteSuper(n) ==
    /\ ~exited
    /\ super' = [super EXCEPT ![n] =
          [ofs |-> sb_ofs[n], journal_seg |-> journal_seg, super_ofs |-> sb_ofs]]
    /\ medium' = [t \in Segs |->
          [medium[t] EXCEPT !.objs = Spared(n, t, @)]]
    /\ journal' = IF SpareJournal(n) THEN journal ELSE NoJournal
    /\ UNCHANGED <<dev_ops, lastseg, segment_entry, area, used_bytes, di_used_bytes,
                   flush_i, faulty, exited, fileVars, blk, sb_ofs, journal_seg>>

MakeSuper1 == pc = "super1" /\ WriteSuper(1) /\ pc' = "super2"
MakeSuper2 == pc = "super2" /\ WriteSuper(2) /\ pc' = "done"

----------------------------------------------------------------------------
(* The program                                                             *)

\* The process is stopped between two steps, or the write of a superblock fails.
MkfsHalt ==
    /\ MaxFaults > 0
    /\ pc # "done"
    /\ Halt
    /\ UNCHANGED <<fileVars, mkfsVars>>

MkfsInit ==
    /\ Init
    /\ dev_ops \in Devices
    /\ pc = "sb1"
    /\ blk = 0
    /\ sb_ofs = <<0, 0>>
    /\ journal_seg = << >>
    /\ journal = NoJournal
    /\ super = [n \in 1..2 |-> NoSuper]

MkfsNext ==
    \/ \E s \in Segs :
          \/ PrepareSb1(s) \/ MtdSb2(s) \/ PrepareJournal(s)
          \/ WriteSegfile(s) \/ FlushStep(s)
          \/ WriteSegfileInode(s) \/ WriteRootdir(s)
    \/ BdevSb2 \/ MtdSb2Fails \/ ReserveSegmentFails
    \/ FlushSegfile \/ FileWriteError
    \/ FlushSegments \/ FlushSegmentsFails
    \/ MakeJournal \/ MakeJournalFails \/ JournalBug \/ ScratchOverrun
    \/ MakeSuper1 \/ MakeSuper2
    \/ MkfsHalt

\* One sequential process, which the system keeps running.
MkfsSpec == MkfsInit /\ [][MkfsNext]_vars /\ WF_vars(MkfsNext)

----------------------------------------------------------------------------
(* What a mount finds.  A superblock names the journal, whose commit entry  *)
(* names the others; the anchor is the inode of the inode file; the aliases *)
(* replace entries of the segment file.                                    *)

Visible == \E n \in 1..2 : super[n] # NoSuper

\* The segment of superblock n.
SbSegment(n) == sb_ofs[n] \div SegSize

\* get_segment has not come to the segment of the second superblock.
Roomy == lastseg <= SbSegment(2)

OnMedium(ofs, type, ino, bix, level) ==
    \E s \in Segs :
        /\ medium[s].kind = "ostore" /\ medium[s].level = level
        /\ \E o \in medium[s].objs :
              /\ s * SegSize + o.pos = ofs
              /\ o.type = type /\ o.ino = ino /\ o.bix = bix

\* The inode a mount reads through the anchor.
ReadInode(ino) == content[journal.anchor.ptr[ino]]

ReadEntry(s) == IF AliasKey(s) \in DOMAIN journal.alias.val
                THEN journal.alias.val[AliasKey(s)] ELSE ZeroEntry

MediumBytes(ino) ==
    MapThenSumSet(LAMBDA s : BytesOf({o \in medium[s].objs : o.ino = ino}), Segs)

\* The program's own state while it runs, for the steps that are not those of
\* Segment and FileRW.
MkfsTypeOK ==
    /\ FileTypeOK
    /\ dev_ops \in Devices
    /\ pc \in {"sb1", "sb2", "journal", "segfile", "segflush", "rootdir",
              "flush", "super1", "super2", "done"}
    /\ blk \in 0 .. NoSegs
    /\ sb_ofs \in [1..2 -> Int]
    /\ journal_seg \in Seq(Segs)

\* From the end of prepare_sb on, no superblock of an earlier filesystem is left
\* where a mount looks for one, whenever the program stops: the superblocks
\* come last, and an old one would expose a half-written device.  On a disk
\* bdev_prepare_sb erases the first one only; a get_segment at the end of its
\* tether may try an erase of the second again and fail.
OldSuperblocksErased ==
    pc \notin {"sb1", "sb2"} /\ Roomy =>
        \A n \in 1..2 : /\ n = 1 \/ dev_ops = "mtd"
                        /\ SbSegment(n) \notin faulty
                        => medium[SbSegment(n)].kind # "unknown"

\* A superblock on the device finds a complete journal in the segment it names,
\* and the commit entry names exactly the entries written before it.
SuperFindsJournal ==
    Visible =>
        /\ journal # NoJournal
        /\ \A n \in 1..2 : super[n] # NoSuper => super[n].journal_seg[1] = journal.seg
        /\ medium[journal.seg] = Journal
        /\ journal.commit = {journal.seg * SegSize + at : at \in
              {journal.anchor.at, journal.dynsb.at, journal.alias.at}}

\* Once a superblock is on the device every inode, every indirect block and
\* every block of the segment file is there too, in a segment of its level.
TreeOnMedium ==
    Visible /\ Roomy =>
        /\ \A ino \in {ROOT, SEGFILE} :
              OnMedium(journal.anchor.ptr[ino], "inode", MASTER, ino, MaxLevels)
        /\ LET di == ReadInode(SEGFILE)
           IN  \A b \in SegfileBlocks :
                  /\ OnMedium(Lookup(di, b), "block", SEGFILE, b, 0)
                  /\ b >= I0 => \A l \in 1 .. di.height :
                        OnMedium(Path(di, b)[l], "block", SEGFILE, ParentBix(b, l), l)

\* The segment file with its aliases tells the truth: level and valid bytes of
\* every object segment, though many were finished long after the file was
\* written, RESERVED for the journal and the first superblock, and nothing for
\* a segment that holds nothing.
AliasesTrue ==
    Visible /\ Roomy => \A s \in Segs :
        LET e == ReadEntry(s)
        IN  /\ medium[s].kind = "ostore" =>
                  e = [ec_level |-> EcLevel(1, medium[s].level),
                       valid |-> BytesOf(medium[s].objs)]
            /\ s = SbSegment(1) \/ s \in {journal_seg[i] : i \in DOMAIN journal_seg} =>
                  e = ReservedEntry
            /\ e # ZeroEntry /\ e.valid # RESERVED => medium[s].kind = "ostore"

\* "valid contains [...] RESERVED [...] if the segment is used for either the
\* superblock or the journal": for both superblocks.
SuperblocksReserved ==
    \A n \in 1..2 : super[n] # NoSuper => ReadEntry(SbSegment(n)).valid = RESERVED

\* On flash the segment mtd_prepare_sb marks is the one it places the second
\* superblock in, and the mark is still there when it is written.
FlashSuperblocksReserved == dev_ops = "mtd" /\ Roomy => SuperblocksReserved

\* "[...] or when the segment is bad", and "an ec_level of BADSEG (-1)
\* identifies bad segments": every segment get_segment could not erase, whatever
\* it was asked for and however late.  Those mtd_prepare_sb passes over, behind
\* the second superblock, are tried again if get_segment gets there, and an
\* erase that failed once may succeed then.
BadSegmentsMarked ==
    Visible => \A s \in faulty :
        (dev_ops = "mtd" => s <= SbSegment(2)) => ReadEntry(s) = BadEntry

\* The byte counts in the anchor, in the inode of the segment file and in the
\* dynsb are those of the objects on the device, though they are taken at three
\* different moments of the run.
UsedBytesOnMedium ==
    Visible /\ Roomy =>
        /\ journal.anchor.used = MediumBytes(MASTER)
        /\ ReadInode(SEGFILE).used = MediumBytes(SEGFILE)
        /\ journal.dynsb.used = MapThenSumSet(MediumBytes, Inos)

Kept(s) == segment_entry[s] = ReservedEntry => segment_entry'[s] = ReservedEntry

\* A segment once set aside for a superblock or the journal stays so.
ReservedKept == [][\A s \in Segs : Kept(s)]_vars

\* And so it is until get_segment comes to the end of the device, with both kinds
\* of superblock placement and whatever erases fail.
ReservedKeptWithRoom == [][Roomy' => \A s \in Segs : Kept(s)]_vars

\* On a device without faults and with room enough the program gets to the end,
\* both superblocks written: no loop of the flush, of the levels or of the
\* segment file goes on for ever or runs the device full.
Completes == <>(pc = "done")
=============================================================================
