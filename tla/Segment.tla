------------------------------ MODULE Segment ------------------------------
(***************************************************************************)
(* segment.c: the log-structured object store of mklogfs.                  *)
(*                                                                         *)
(* Objects (data blocks, indirect blocks, inodes) are appended to an       *)
(* in-memory buffer, one buffer per level, the "area".  A full area is     *)
(* written to the device as one whole segment and the area moves on to the *)
(* next segment that can be erased.  Sizes are parameters: the program's   *)
(* are SegHeader = 24, ObjHeader = 28, BlockSize = 4096, InodeSize = 200,  *)
(* MaxLevels = 6 and OffsetMod = 2^32.                                     *)
(*                                                                         *)
(* Operators called Mut... are wrong on purpose and used by no definition:  *)
(* with one of them in the place of the operator that follows it, the runs *)
(* must find a property violated.                                          *)
(*                                                                         *)
(* What an object holds is left to the clients of this module; here an     *)
(* object is its header and the place it was given.                        *)
(***************************************************************************)
EXTENDS Integers, FiniteSets, FiniteSetsExt

CONSTANTS
    NoSegs,        \* number of segments of the device
    SegSize,       \* bytes in a segment
    BlockSize,     \* bytes in a data or indirect block
    InodeSize,     \* sizeof(struct logfs_disk_inode)
    SegHeader,     \* LOGFS_SEGMENT_HEADERSIZE
    ObjHeader,     \* sizeof(struct logfs_object_header)
    MaxLevels,     \* LOGFS_MAX_LEVELS
    OffsetMod,     \* 2^32, the width of the offset computed for an object
    Inos,          \* inode numbers in use
    MASTER,        \* LOGFS_INO_MASTER, the inode of the inode file
    MaxBix,        \* largest block index explored (a bound on the inputs)
    MaxFaults      \* most segments whose erase fails (a bound on the faults);
                   \* with 0 writes do not fail either

ASSUME DeviceAssumption ==
    /\ NoSegs \in Nat
    /\ SegSize \in Nat
    /\ OffsetMod \in Nat \ {0}
    /\ MaxLevels \in Nat \ {0}
    /\ MASTER \in Inos
    /\ MaxBix \in Nat
    /\ MaxFaults \in Nat

\* mkfs() accepts a segment only if it is larger than a block, both powers of
\* two, so a segment has room for its header and one block with its header.
ASSUME SizeAssumption ==
    /\ BlockSize \in Nat \ {0}
    /\ InodeSize \in 1..BlockSize
    /\ SegHeader \in Nat \ {0}
    /\ ObjHeader \in Nat
    /\ SegHeader + ObjHeader + BlockSize <= SegSize

VARIABLES
    lastseg,        \* super_block.lastseg: the next segment to try
    segment_entry,  \* super_block.segment_entry
    area,           \* super_block.area
    used_bytes,     \* super_block.used_bytes
    di_used_bytes,  \* di_used_bytes of every inode in memory
    flush_i,        \* the areas below it are written for good (i of flush_segments)
    medium,         \* what each segment of the device holds
    faulty,         \* history: the segments whose erase failed
    exited          \* the process is gone: fail(), BUG_ON or a kill

segVars == <<lastseg, segment_entry, area, used_bytes, di_used_bytes, flush_i,
             medium, faulty, exited>>

Segs    == 0 .. NoSegs - 1
Levels  == 0 .. MaxLevels - 1
NoAreas == 2 * MaxLevels
Areas   == 0 .. NoAreas - 1
Types   == {"inode", "block"}   \* no caller writes an OBJ_DENTRY

BADSEG   == -1
RESERVED == -1

\* ec_level(ec, level)
EcLevel(ec, level) == ec * 16 + (level % 16)

Entry         == [ec_level : Int, valid : Int]
ZeroEntry     == [ec_level |-> 0, valid |-> 0]
BadEntry      == [ec_level |-> BADSEG, valid |-> RESERVED]
ReservedEntry == [ec_level |-> EcLevel(1, 0), valid |-> RESERVED]

Object == [type : Types, ino : Inos, bix : Nat, pos : Nat, len : Nat]
End(o) == o.pos + ObjHeader + o.len

\* A segment on the device: its content may be unknown (whatever was there
\* before, or a failed erase or write), erased, an object store or the journal.
Unknown  == [kind |-> "unknown", level |-> 0, objs |-> {}]
Erased   == [kind |-> "erased", level |-> 0, objs |-> {}]
Journal  == [kind |-> "journal", level |-> 0, objs |-> {}]
Ostore(level, objs) == [kind |-> "ostore", level |-> level, objs |-> objs]

----------------------------------------------------------------------------
(* Areas                                                                   *)

NoArea == [open |-> FALSE, segno |-> 0, used_bytes |-> 0, buf |-> {}]

\* __init_area: a buffer with nothing but the segment header.
Fresh(s) == [open |-> TRUE, segno |-> s, used_bytes |-> SegHeader, buf |-> {}]

\* The area of an object: inode-file levels are stacked on the file levels.
AreaOf(ino, level) == IF ino = MASTER THEN level + MaxLevels ELSE level

ObjLen(type) == IF type = "inode" THEN InodeSize ELSE BlockSize

\* copybuf of the object header and of the object.
CopyBuf(a, type, ino, bix) ==
    [a EXCEPT !.buf = @ \cup {[type |-> type, ino |-> ino, bix |-> bix,
                               pos |-> a.used_bytes, len |-> ObjLen(type)]},
              !.used_bytes = @ + ObjHeader + ObjLen(type)]

\* The test for room asks for a whole block, whatever the object.
MutHasRoom(l) == area[l].used_bytes + BlockSize <= SegSize
HasRoom(l) == area[l].used_bytes + ObjHeader + BlockSize <= SegSize

\* finish_area: the buffer replaces the segment on the device, the entry counts
\* the bytes behind the segment header.
MutValidBytes(l) == area[l].used_bytes
ValidBytes(l) == area[l].used_bytes - SegHeader

EntryAfterFinish(l) ==
    [segment_entry EXCEPT ![area[l].segno] =
        [ec_level |-> EcLevel(1, l), valid |-> ValidBytes(l)]]

MediumAfterFinish(l) ==
    [medium EXCEPT ![area[l].segno] = Ostore(l, area[l].buf)]

----------------------------------------------------------------------------
(* Segments                                                                *)

MutMarkBad(entry, S) == entry

\* The entries after the erase of every segment of S has failed.
MarkBad(entry, S) ==
    [t \in Segs |-> IF t \in S THEN BadEntry ELSE entry[t]]

MutNextSegSame(s) == s
MutNextSegTwice(s) == s + 2
NextSeg(s) == s + 1

\* get_segment returns s: the segments tried before it could not be erased.
\* entry and m are the segment entries and the medium when it is called.
GetSegment(s, entry, m) ==
    LET skipped == lastseg .. s - 1
    IN  /\ s \in Segs /\ lastseg <= s
        /\ lastseg' = NextSeg(s)
        /\ faulty' = faulty \cup skipped
        /\ Cardinality(faulty') <= MaxFaults
        /\ segment_entry' = MarkBad(entry, skipped)
        /\ medium' = [t \in Segs |-> IF t = s THEN Erased
                                     ELSE IF t \in skipped THEN Unknown
                                     ELSE m[t]]

\* get_segment finds no segment and fails: every erase left to try failed.  The
\* memory of the process is lost, the medium stays.
NoSegmentLeft(m) ==
    LET skipped == lastseg .. NoSegs - 1
    IN  /\ faulty' = faulty \cup skipped
        /\ Cardinality(faulty') <= MaxFaults
        /\ medium' = [t \in Segs |-> IF t \in skipped THEN Unknown ELSE m[t]]
        /\ exited' = TRUE

\* get_segment for a superblock or the journal, which then mark it RESERVED.
Reserve(s) ==
    /\ ~exited
    /\ flush_i = 0
    /\ GetSegment(s, [segment_entry EXCEPT ![s] = ReservedEntry], medium)
    /\ UNCHANGED <<area, used_bytes, di_used_bytes, flush_i, exited>>

ReserveFails ==
    /\ ~exited
    /\ flush_i = 0
    /\ NoSegmentLeft(medium)
    /\ UNCHANGED <<lastseg, segment_entry, area, used_bytes, di_used_bytes,
                   flush_i>>

----------------------------------------------------------------------------
(* Writing objects                                                         *)

MutGrowInode(ino, len) ==
    /\ di_used_bytes' = [di_used_bytes EXCEPT ![ino] = @ + len]
    /\ used_bytes' = IF ino = MASTER THEN used_bytes ELSE used_bytes + len

\* grow_inode: the bytes of the object count for its inode and the filesystem.
GrowInode(ino, len) ==
    /\ di_used_bytes' = [di_used_bytes EXCEPT ![ino] = @ + len]
    /\ used_bytes' = used_bytes + len

\* Where the next object of area l starts, in the segment it goes to.
NextPos(l) ==
    IF area[l].open /\ HasRoom(l) THEN area[l].used_bytes ELSE SegHeader

\* The offset logfs_segment_write returns for an object that area l is about to
\* take in segment s: u32 arithmetic.
WriteOfs(l, s) == (s * SegSize + NextPos(l)) % OffsetMod

\* logfs_segment_write: the object goes to segment s, where its area is or
\* where the area moves because it has no segment yet or no room left.
SegmentWrite(type, ino, bix, level, s) ==
    LET l == AreaOf(ino, level)
        a == area[l]
    IN  /\ ~exited
        /\ flush_i = 0
        /\ \/ /\ a.open /\ HasRoom(l)
              /\ s = a.segno
              /\ area' = [area EXCEPT ![l] = CopyBuf(a, type, ino, bix)]
              /\ UNCHANGED <<lastseg, segment_entry, medium, faulty>>
           \/ /\ ~a.open
              /\ GetSegment(s, segment_entry, medium)
              /\ area' = [area EXCEPT ![l] = CopyBuf(Fresh(s), type, ino, bix)]
           \/ /\ a.open /\ ~HasRoom(l)
              /\ GetSegment(s, EntryAfterFinish(l), MediumAfterFinish(l))
              /\ area' = [area EXCEPT ![l] = CopyBuf(Fresh(s), type, ino, bix)]
        /\ GrowInode(ino, ObjHeader + ObjLen(type))
        /\ UNCHANGED <<flush_i, exited>>

\* The pwrite of finish_area fails: the segment may hold a part of the buffer,
\* the error travels up to mkfs(), which exits.
WriteError(l) ==
    /\ MaxFaults > 0
    /\ medium' = [medium EXCEPT ![area[l].segno] = Unknown]
    /\ exited' = TRUE
    /\ UNCHANGED faulty

\* logfs_segment_write fails: the full area cannot be written, or it could but
\* there is no segment to continue in.
SegmentWriteFails(ino, level) ==
    LET l == AreaOf(ino, level)
    IN  /\ ~exited
        /\ flush_i = 0
        /\ \/ area[l].open /\ ~HasRoom(l) /\ WriteError(l)
           \/ area[l].open /\ ~HasRoom(l) /\ NoSegmentLeft(MediumAfterFinish(l))
           \/ ~area[l].open /\ NoSegmentLeft(medium)
        /\ UNCHANGED <<lastseg, segment_entry, area, used_bytes, di_used_bytes,
                       flush_i>>

\* One iteration of flush_segments.  The area keeps its buffer.
FlushArea ==
    /\ ~exited
    /\ flush_i \in Areas
    /\ \/ /\ area[flush_i].open
          /\ segment_entry' = EntryAfterFinish(flush_i)
          /\ medium' = MediumAfterFinish(flush_i)
       \/ /\ ~area[flush_i].open
          /\ UNCHANGED <<segment_entry, medium>>
    /\ flush_i' = flush_i + 1
    /\ UNCHANGED <<lastseg, area, used_bytes, di_used_bytes, faulty, exited>>

FlushFails ==
    /\ ~exited
    /\ flush_i \in Areas
    /\ area[flush_i].open
    /\ WriteError(flush_i)
    /\ UNCHANGED <<lastseg, segment_entry, area, used_bytes, di_used_bytes,
                   flush_i>>

\* The process stops between two steps: out of memory, BUG_ON, a signal.  (What
\* a power failure leaves is the subject of Device.)
Halt ==
    /\ ~exited
    /\ exited' = TRUE
    /\ UNCHANGED <<lastseg, segment_entry, area, used_bytes, di_used_bytes,
                   flush_i, medium, faulty>>

----------------------------------------------------------------------------
(* The store, driven by any client that flushes once, at the end.          *)

SegInit ==
    /\ lastseg = 0
    /\ segment_entry = [s \in Segs |-> ZeroEntry]
    /\ area = [l \in Areas |-> NoArea]
    /\ used_bytes = 0
    /\ di_used_bytes = [ino \in Inos |-> 0]
    /\ flush_i = 0
    /\ medium = [s \in Segs |-> Unknown]
    /\ faulty = {}
    /\ exited = FALSE

SegNext ==
    \/ \E s \in Segs : Reserve(s)
    \/ ReserveFails
    \/ \E type \in Types, ino \in Inos, bix \in 0..MaxBix, level \in Levels,
          s \in Segs : SegmentWrite(type, ino, bix, level, s)
    \/ \E ino \in Inos, level \in Levels : SegmentWriteFails(ino, level)
    \/ FlushArea
    \/ FlushFails
    \/ Halt

SegSpec == SegInit /\ [][SegNext]_segVars

----------------------------------------------------------------------------
(* Properties                                                              *)

AreaType    == [open : BOOLEAN, segno : Nat, used_bytes : Nat,
                buf : SUBSET Object]
SegmentType == [kind : {"unknown", "erased", "ostore", "journal"}, level : Nat,
                objs : SUBSET Object]

\* Every variable of the store has its type, and areas and segment entries are
\* about segments there are: get_segment never runs past the device.
TypeOK ==
    /\ lastseg \in 0..NoSegs
    /\ segment_entry \in [Segs -> Entry]
    /\ area \in [Areas -> AreaType]
    /\ \A l \in Areas : area[l].open => area[l].segno \in Segs
    /\ used_bytes \in Nat
    /\ di_used_bytes \in [Inos -> Nat]
    /\ flush_i \in 0..NoAreas
    /\ medium \in [Segs -> SegmentType]
    /\ faulty \subseteq Segs
    /\ exited \in BOOLEAN

\* The area's segment on the device is still to be written.
Pending(l) == area[l].open /\ flush_i <= l

\* get_segment has not come to segment s yet.
Untouched(s) ==
    /\ segment_entry[s] = ZeroEntry
    /\ medium[s] = Unknown
    /\ s \notin faulty

\* Two areas never share a segment.  An area that has to be written owns its
\* segment: it was handed out before, it has been erased and is empty, its erase
\* did not fail, no entry describes it yet.  Areas move on one by one, each
\* through get_segment, and an area given the segment of another would wipe what
\* that one writes.
AreasExclusive ==
    ~exited =>
        /\ \A s \in Segs : lastseg <= s => Untouched(s)
        /\ \A l, m \in Areas :
              area[l].open /\ area[m].open /\ area[l].segno = area[m].segno
                  => l = m
        /\ \A l \in Areas : area[l].open => area[l].segno < lastseg
        /\ \A l \in Areas : Pending(l) =>
              /\ medium[area[l].segno] = Erased
              /\ segment_entry[area[l].segno] = ZeroEntry
              /\ area[l].segno \notin faulty

\* The objects objs fill the bytes of a segment from its header up to end: each
\* starts where the header or another one ends, and no two overlap.
Tiles(objs, end) ==
    /\ \A o \in objs : SegHeader <= o.pos /\ End(o) <= end
    /\ \A o, p \in objs : o = p \/ End(o) <= p.pos \/ End(p) <= o.pos
    /\ \A o \in objs : o.pos = SegHeader \/ \E p \in objs : End(p) = o.pos
    /\ end = SegHeader \/ \E o \in objs : End(o) = end

\* Objects are packed without gap or overlap inside a segment, in the buffers
\* and on the device: what logfs_segment_write checks for one block must be
\* enough for whatever the object is, and the header must survive.
Packed ==
    /\ \A l \in Areas : area[l].open =>
          /\ area[l].used_bytes \in SegHeader..SegSize
          /\ Tiles(area[l].buf, area[l].used_bytes)
    /\ \A s \in Segs : medium[s].kind = "ostore" =>
          \E end \in SegHeader..SegSize : Tiles(medium[s].objs, end)

\* A segment written by finish_area is neither written nor erased again, and a
\* segment is erased before it is written: the life of a flash segment.
WriteOnce ==
    [][\A s \in Segs :
          /\ medium[s].kind = "ostore" => medium'[s] = medium[s]
          /\ medium'[s].kind = "ostore" => medium[s].kind \in {"erased", "ostore"}
      ]_segVars

Bytes(o) == ObjHeader + o.len
BytesOf(objs) == MapThenSumSet(Bytes, objs)

\* The entry of a segment on the device is the truth about it: its level and
\* the bytes of the objects in it (the journal publishes these entries).
ValidExact ==
    ~exited => \A s \in Segs : medium[s].kind = "ostore" =>
        /\ segment_entry[s].ec_level = EcLevel(1, medium[s].level)
        /\ segment_entry[s].valid = BytesOf(medium[s].objs)

\* A segment whose erase failed is marked bad and nothing is ever put on it.
BadSegmentsShunned ==
    /\ \A s \in faulty : medium[s].kind = "unknown"
    /\ ~exited => \A s \in faulty : segment_entry[s] = BadEntry

\* Every object of the store: on the device, or in a buffer that is not yet.
Live ==
    (UNION {{<<s, o>> : o \in medium[s].objs} : s \in Segs})
        \cup (UNION {{<<area[l].segno, o>> : o \in area[l].buf} :
                        l \in {m \in Areas : area[m].open}})

LiveBytes(S) == MapThenSumSet(LAMBDA so : Bytes(so[2]), S)

\* The byte counters that go to the inodes, the anchor and the dynsb are the
\* sizes of the objects there are, whichever areas they went through.
UsedBytesExact ==
    ~exited =>
        /\ used_bytes = LiveBytes(Live)
        /\ \A ino \in Inos :
              di_used_bytes[ino] = LiveBytes({so \in Live : so[2].ino = ino})
=============================================================================
