----------------------------- MODULE MkfsProofs -----------------------------
(***************************************************************************)
(* Theorems about the sequence of mkfs() in Mkfs.                          *)
(*                                                                         *)
(* The program is a client of the object store and of the files: most of   *)
(* its steps are steps of Segment, for which the invariants of             *)
(* SegmentProofs and SegmentSums hold as long as get_segment has not come  *)
(* to the segment of the second superblock, which was set aside without    *)
(* it.  The other steps are those of prepare_sb, the journal and the       *)
(* superblocks.                                                            *)
(***************************************************************************)
EXTENDS Mkfs, FileRWProofs, SequenceTheorems

Steps == {"sb1", "sb2", "journal", "segfile", "segflush", "rootdir",
          "flush", "super1", "super2", "done"}

Preparing == pc \in {"sb1", "sb2", "journal"}
Early     == pc \in {"sb1", "sb2"}
Late      == pc \in {"super1", "super2", "done"}

MkfsInv ==
    /\ FileInv
    /\ dev_ops \in Devices
    /\ pc \in Steps
    /\ blk \in 0 .. NoSegs
    /\ sb_ofs \in [1..2 -> Int]
    /\ journal_seg \in Seq(Segs)

LEMMA MkfsConstants ==
    /\ MASTER \in Inos /\ ROOT \in Inos /\ SEGFILE \in Inos
    /\ ROOT \in Nat /\ SEGFILE \in Nat
    /\ ROOT <= Factor ^ MaskLevels /\ SEGFILE <= Factor ^ MaskLevels
    /\ NoSegs <= Factor * (Factor ^ MaskLevels)
    /\ NoSegs \in Nat /\ NoSegs > 1 /\ NoJournalSegs \in Nat /\ NoJournalSegs > 0
    /\ SegSize \in Nat /\ SegSize > 0 /\ SbTail \in 1 .. SegSize /\ SbSize \in Nat
    /\ TailWindow \in Nat
<1>1. MaskLevels - 1 \in 0 .. MaxLevels /\ MaskLevels = (MaskLevels - 1) + 1
      /\ MaskLevels \in 0 .. MaxLevels
  BY Constants
<1> DEFINE p == Factor ^ (MaskLevels - 1)
<1>2. p \in Nat \ {0} /\ Factor ^ ((MaskLevels - 1) + 1) = Factor * p
  BY <1>1, PowerAssumption
<1>3. Factor ^ MaskLevels = Factor * p
  BY <1>1, <1>2
<1>7. Factor ^ (MaskLevels + 1) = Factor * (Factor ^ MaskLevels)
  BY <1>1, PowerAssumption
<1> HIDE DEF p
<1>4. Factor * p >= Factor
  BY <1>2, Constants
<1>5. ROOT \in 0 .. I0 - 1 /\ SEGFILE \in 0 .. I0 - 1
  BY MkfsAssumption
<1>6. ROOT <= Factor * p /\ SEGFILE <= Factor * p
  BY <1>2, <1>4, <1>5, Constants
<1> QED
  BY <1>3, <1>5, <1>6, <1>7, Constants, MkfsAssumption, DeviceAssumption, SizeAssumption

\* The blocks of the segment file are those bixmask is right for.
LEMMA SegfileBlocksFit ==
    ASSUME NEW b \in Nat, b * Factor < NoSegs
    PROVE  b <= Factor ^ MaskLevels
<1> DEFINE p == Factor ^ MaskLevels
<1>1. p \in Nat /\ Factor \in Nat /\ Factor > 0
  BY Powers, Constants
<1>2. NoSegs <= Factor * p /\ NoSegs \in Nat
  BY MkfsConstants
<1> HIDE DEF p
<1>3. b * Factor \in Nat /\ Factor * p \in Nat /\ b * Factor < Factor * p
  BY <1>1, <1>2
<1>4. b < p
  BY <1>1, <1>3
<1> QED
  BY <1>1, <1>4 DEF p

\* The steps that only the object store sees, and what they leave alone.
Work ==
    /\ [StoreNext]_segVars
    /\ UNCHANGED <<dev_ops, sb_ofs, journal_seg, journal, super>>
    /\ \/ UNCHANGED pc
       \/ ~Preparing /\ ~Late /\ ~Preparing' /\ ~Late' /\ pc' \in Steps
    /\ Preparing => \/ UNCHANGED segVars
                    \/ exited' /\ UNCHANGED <<lastseg, area>>
    /\ Late => UNCHANGED <<lastseg, segment_entry, area, used_bytes, di_used_bytes,
                           flush_i, medium, faulty>>

LEMMA WriteWorks ==
    ASSUME MkfsInv, NEW s \in Segs,
           WriteSegfile(s) \/ WriteSegfileInode(s) \/ WriteRootdir(s)
    PROVE  FileInv' /\ Work /\ blk' \in 0 .. NoSegs
<1> USE DEF MkfsInv
<1>1. CASE WriteSegfile(s)
  <2>1. blk \in Nat /\ blk < NoSegs /\ blk' = blk + 1 /\ blk <= Factor ^ MaskLevels
    <3>1. blk \in Nat /\ blk * Factor < NoSegs /\ blk' = blk + 1
      BY <1>1 DEF WriteSegfile, SegfileBlocks
    <3>2. blk <= blk * Factor
      BY <3>1, Constants
    <3>3. blk * Factor \in Nat
      BY <3>1, Constants
    <3> HIDE DEF MkfsInv
    <3>4. blk < NoSegs
      BY <3>1, <3>2, <3>3, MkfsConstants
    <3> QED
      BY <3>1, <3>4, SegfileBlocksFit, MkfsConstants
  <2>2. FileWrite("block", SEGFILE, blk, Payload, s) /\ "block" \in Types
    BY <1>1 DEF WriteSegfile, Types
  <2>3. FileInv'
    BY <2>1, <2>2, FileWriteInv, MkfsConstants
  <2>4. StoreNext
    BY <2>1, <2>2, FileWriteCalls, MkfsConstants
  <2> QED
    BY <1>1, <2>1, <2>3, <2>4, MkfsConstants DEF WriteSegfile, Work, Preparing, Late
<1>2. CASE WriteSegfileInode(s)
  <2>1. FileWrite("inode", MASTER, SEGFILE, Inode(SEGFILE), s) /\ "inode" \in Types
    BY <1>2 DEF WriteSegfileInode, WriteInode, Types
  <2>2. FileInv'
    BY <2>1, FileWriteInv, MkfsConstants
  <2>3. StoreNext
    BY <2>1, FileWriteCalls, MkfsConstants
  <2> QED
    BY <1>2, <2>2, <2>3 DEF WriteSegfileInode, SegfileDone, Work, Preparing, Late, Steps
<1>3. CASE WriteRootdir(s)
  <2>1. FileWrite("inode", MASTER, ROOT, Inode(ROOT), s) /\ "inode" \in Types
    BY <1>3 DEF WriteRootdir, WriteInode, Types
  <2>2. FileInv'
    BY <2>1, FileWriteInv, MkfsConstants
  <2>3. StoreNext
    BY <2>1, FileWriteCalls, MkfsConstants
  <2> QED
    BY <1>3, <2>2, <2>3 DEF WriteRootdir, Work, Preparing, Late, Steps
<1> QED
  BY <1>1, <1>2, <1>3

LEMMA FlushWorks ==
    ASSUME MkfsInv, \/ FlushSegfile
                    \/ \E s \in Segs : FlushStep(s)
                    \/ FileWriteError
    PROVE  FileInv' /\ Work /\ UNCHANGED blk
<1> USE DEF MkfsInv
<1>1. CASE FlushSegfile
  <2>1. FileInv'
    BY <1>1, StartFlushInv, MkfsConstants DEF FlushSegfile
  <2> QED
    BY <1>1, <2>1 DEF FlushSegfile, StartFlush, Work, Preparing, Late, Steps
<1>2. ASSUME NEW s \in Segs, FlushStep(s)
      PROVE  FileInv' /\ Work /\ UNCHANGED blk
  <2>1. FileInv' /\ StoreNext
    BY <1>2, FlushBlockInv, FlushRootInv, FlushCalls DEF FlushStep
  <2> QED
    BY <1>2, <2>1 DEF FlushStep, Work, Preparing, Late, mkfsVars
<1>3. CASE FileWriteError
  <2>1. /\ StoreNext /\ UNCHANGED fileVars /\ UNCHANGED mkfsVars
        /\ pc \in {"segfile", "segflush", "rootdir"}
    <3>1. CASE pc = "segfile" /\ FileWriteFails(SEGFILE)
      BY <1>3, <3>1, FileWriteFailsCalls, MkfsConstants DEF FileWriteError, FileWriteFails
    <3>2. CASE pc = "segflush" /\ FileFlushFails
      BY <1>3, <3>2, FileFlushFailsCalls DEF FileWriteError, FileFlushFails
    <3>3. CASE pc \in {"segflush", "rootdir"} /\ FileWriteFails(MASTER)
      BY <1>3, <3>3, FileWriteFailsCalls, MkfsConstants DEF FileWriteError, FileWriteFails
    <3> QED
      BY <1>3, <3>1, <3>2, <3>3 DEF FileWriteError
  <2>2. TypeOK'
    BY <2>1, TypeStep DEF FileInv
  <2>3. FileInv'
    BY <2>1, <2>2, StoreOnlyInv
  <2> QED
    BY <2>1, <2>3 DEF Work, Preparing, Late, mkfsVars
<1> QED
  BY <1>1, <1>2, <1>3

LEMMA OtherWorks ==
    ASSUME MkfsInv, \/ ReserveSegmentFails \/ FlushSegments \/ FlushSegmentsFails
                    \/ JournalBug \/ ScratchOverrun \/ MkfsHalt
                    \/ UNCHANGED vars
    PROVE  FileInv' /\ Work /\ UNCHANGED blk
<1> USE DEF MkfsInv
<1>1. UNCHANGED fileVars /\ UNCHANGED mkfsVars
  BY DEF ReserveSegmentFails, FlushSegments, FlushSegmentsFails, JournalBug,
         ScratchOverrun, MkfsHalt, vars
<1>2. /\ [StoreNext]_segVars
      /\ Preparing => \/ UNCHANGED segVars
                      \/ exited' /\ UNCHANGED <<lastseg, area>>
      /\ Late => UNCHANGED <<lastseg, segment_entry, area, used_bytes, di_used_bytes,
                             flush_i, medium, faulty>>
  <2>1. CASE ReserveSegmentFails
    BY <2>1 DEF ReserveSegmentFails, ReserveFails, NoSegmentLeft, StoreNext, Late
  <2>2. CASE FlushSegments
    BY <2>2 DEF FlushSegments, StoreNext, Preparing, Late
  <2>3. CASE FlushSegmentsFails
    BY <2>3 DEF FlushSegmentsFails, StoreNext, Preparing, Late
  <2>4. CASE JournalBug \/ ScratchOverrun \/ MkfsHalt
    <3>1. Halt
      BY <2>4 DEF JournalBug, ScratchOverrun, MkfsHalt, Halt
    <3> QED
      BY <3>1 DEF Halt, StoreNext
  <2>5. CASE UNCHANGED vars
    BY <2>5 DEF vars, segVars
  <2> QED
    BY <2>1, <2>2, <2>3, <2>4, <2>5
<1>3. TypeOK'
  BY <1>2, TypeStep DEF FileInv
<1>4. FileInv'
  BY <1>1, <1>3, StoreOnlyInv
<1> QED
  BY <1>1, <1>2, <1>4 DEF Work, mkfsVars

\* The steps of prepare_sb and prepare_journal that get a segment.
LEMMA ReserveTypes ==
    ASSUME MkfsInv, NEW s \in Segs, Reserve(s), UNCHANGED fileVars
    PROVE  StoreNext /\ FileInv'
<1>1. StoreNext
  BY DEF StoreNext
<1>2. TypeOK'
  BY <1>1, TypeStep DEF MkfsInv, FileInv
<1> QED
  BY <1>1, <1>2, StoreOnlyInv DEF MkfsInv

\* A step outside the object store that replaces the content of segments.
LEMMA MediumTypes ==
    ASSUME FileInv, UNCHANGED fileVars,
           UNCHANGED <<lastseg, area, used_bytes, di_used_bytes, flush_i>>,
           segment_entry' \in [Segs -> Entry], medium' \in [Segs -> SegmentType],
           faulty' \subseteq Segs, exited' \in BOOLEAN
    PROVE  FileInv'
<1>1. TypeOK'
  BY DEF FileInv, TypeOK
<1> QED
  BY <1>1, StoreOnlyInv

LEMMA PrepareTypes ==
    ASSUME MkfsInv, BdevSb2 \/ MtdSb2Fails \/ \E s \in Segs : MtdSb2(s)
    PROVE  MkfsInv'
<1> USE DEF MkfsInv
<1>1. /\ segment_entry \in [Segs -> Entry] /\ medium \in [Segs -> SegmentType]
      /\ faulty \subseteq Segs /\ exited \in BOOLEAN
  BY DEF FileInv, TypeOK
<1>2. CASE BdevSb2
  <2>1. segment_entry' \in [Segs -> Entry]
    BY <1>1, <1>2, SegmentValues DEF BdevSb2
  <2>2. FileInv'
    BY <1>1, <1>2, <2>1, MediumTypes DEF BdevSb2
  <2>3. sb_ofs' \in [1..2 -> Int]
    BY <1>2, MkfsConstants DEF BdevSb2
  <2> QED
    BY <1>2, <2>2, <2>3 DEF BdevSb2, Steps
<1>3. ASSUME NEW s \in Segs, MtdSb2(s) PROVE MkfsInv'
  <2>1. segment_entry' \in [Segs -> Entry]
    BY <1>1, <1>3, SegmentValues DEF MtdSb2, TailEntry
  <2>2. medium' \in [Segs -> SegmentType]
    BY <1>1, <1>3, SegmentValues DEF MtdSb2, TailErased
  <2>3. faulty' \subseteq Segs
    <3>1. faulty' = faulty \cup (s + 1 .. NoSegs - 1)
      BY <1>3 DEF MtdSb2
    <3> QED
      BY <1>1, <3>1, MkfsConstants DEF Segs
  <2>4. exited' \in BOOLEAN /\ pc' \in Steps
    BY <1>1, <1>3 DEF MtdSb2, Steps
  <2>5. FileInv'
    BY <1>3, <2>1, <2>2, <2>3, <2>4, MediumTypes DEF MtdSb2
  <2>6. sb_ofs' \in [1..2 -> Int]
    BY <1>3, MkfsConstants DEF MtdSb2, Segs
  <2> QED
    BY <1>3, <2>4, <2>5, <2>6 DEF MtdSb2
<1>4. CASE MtdSb2Fails
  <2>1. medium' \in [Segs -> SegmentType]
    BY <1>1, <1>4, SegmentValues DEF MtdSb2Fails
  <2>2. faulty' \subseteq Segs
    BY <1>1, <1>4, MkfsConstants DEF MtdSb2Fails, Segs
  <2>3. FileInv'
    BY <1>1, <1>4, <2>1, <2>2, MediumTypes DEF MtdSb2Fails
  <2> QED
    BY <1>4, <2>3 DEF MtdSb2Fails, mkfsVars
<1> QED
  BY <1>2, <1>3, <1>4

LEMMA PublishTypes ==
    ASSUME MkfsInv, MakeJournal \/ MakeJournalFails \/ MakeSuper1 \/ MakeSuper2
    PROVE  MkfsInv'
<1> USE DEF MkfsInv
<1>1. /\ segment_entry \in [Segs -> Entry] /\ medium \in [Segs -> SegmentType]
      /\ faulty \subseteq Segs /\ exited \in BOOLEAN
  BY DEF FileInv, TypeOK
<1>2. CASE MakeJournal \/ MakeJournalFails
  <2>1. medium' \in [Segs -> SegmentType]
    <3>1. Journal \in SegmentType /\ Unknown \in SegmentType
      BY SegmentValues DEF Journal, SegmentType
    <3>2. \/ medium' = [medium EXCEPT ![JournalSegment] = Journal]
          \/ medium' = [medium EXCEPT ![JournalSegment] = Unknown]
      BY <1>2 DEF MakeJournal, MakeJournalFails
    <3> QED
      BY <1>1, <3>1, <3>2
  <2>2. /\ UNCHANGED <<lastseg, segment_entry, area, used_bytes, di_used_bytes, flush_i,
                       faulty, fileVars, dev_ops, blk, sb_ofs, journal_seg>>
        /\ exited' \in BOOLEAN /\ pc' \in Steps
    BY <1>1, <1>2 DEF MakeJournal, MakeJournalFails, mkfsVars, Steps
  <2>3. FileInv'
    BY <1>1, <2>1, <2>2, MediumTypes
  <2> QED
    BY <2>2, <2>3
<1>3. CASE MakeSuper1 \/ MakeSuper2
  <2>1. PICK n \in 1..2 : WriteSuper(n)
    BY <1>3 DEF MakeSuper1, MakeSuper2
  <2>2. medium' \in [Segs -> SegmentType]
    <3>1. ASSUME NEW t \in Segs
          PROVE  [medium[t] EXCEPT !.objs = Spared(n, t, @)] \in SegmentType
      <4>1. medium[t] \in SegmentType /\ Spared(n, t, medium[t].objs) \subseteq medium[t].objs
        BY <1>1 DEF Spared
      <4> QED
        BY <4>1 DEF SegmentType
    <3> QED
      BY <2>1, <3>1 DEF WriteSuper
  <2>3. FileInv'
    BY <1>1, <2>1, <2>2, MediumTypes DEF WriteSuper
  <2> QED
    BY <1>3, <2>1, <2>3 DEF WriteSuper, MakeSuper1, MakeSuper2, Steps
<1> QED
  BY <1>2, <1>3

LEMMA MkfsTypes == MkfsInv /\ [MkfsNext]_vars => MkfsInv'
<1> SUFFICES ASSUME MkfsInv, [MkfsNext]_vars PROVE MkfsInv'
  OBVIOUS
<1>1. ASSUME FileInv', Work, blk' \in 0 .. NoSegs PROVE MkfsInv'
  BY <1>1 DEF MkfsInv, Work
<1>2. ASSUME NEW s \in Segs, PrepareSb1(s) PROVE MkfsInv'
  <2>1. FileInv'
    BY <1>2, ReserveTypes DEF PrepareSb1
  <2>2. sb_ofs' \in [1..2 -> Int]
    BY <1>2, MkfsConstants DEF PrepareSb1, MkfsInv, Segs
  <2> QED
    BY <1>2, <2>1, <2>2 DEF PrepareSb1, MkfsInv, Steps
<1>3. ASSUME NEW s \in Segs, PrepareJournal(s) PROVE MkfsInv'
  <2>1. FileInv'
    BY <1>3, ReserveTypes DEF PrepareJournal
  <2>2. journal_seg' \in Seq(Segs)
    BY <1>3 DEF PrepareJournal, MkfsInv
  <2> QED
    BY <1>3, <2>1, <2>2 DEF PrepareJournal, MkfsInv, Steps
<1>4. blk \in 0 .. NoSegs
  BY DEF MkfsInv
<1> QED
  BY <1>1, <1>2, <1>3, <1>4, WriteWorks, FlushWorks, OtherWorks, PrepareTypes, PublishTypes
     DEF MkfsNext

LEMMA MkfsInitial == MkfsInit => MkfsInv
<1> SUFFICES ASSUME MkfsInit PROVE MkfsInv
  OBVIOUS
<1>1. FileInv
  BY FilesInitial DEF MkfsInit
<1>2. sb_ofs \in [1..2 -> Int] /\ journal_seg \in Seq(Segs)
  BY DEF MkfsInit
<1> QED
  BY <1>1, <1>2, MkfsConstants DEF MkfsInit, MkfsInv, Steps

LEMMA MkfsAlways == MkfsSpec => []MkfsInv
  BY MkfsInitial, MkfsTypes, PTL DEF MkfsSpec

\* In every run of mkfs() the store, the files and the program's own variables
\* keep their types: the segment file has no more blocks than its height can
\* reach, get_segment never runs past the device, and the segments of the
\* journal are segments there are.
THEOREM MkfsTyping == MkfsSpec => []MkfsTypeOK
<1>1. MkfsInv => MkfsTypeOK
  BY FileTypes DEF MkfsInv, MkfsTypeOK, Steps
<1> QED
  BY <1>1, MkfsAlways, PTL

----------------------------------------------------------------------------
(* The steps of the program                                                *)

LEMMA MkfsSteps ==
    ASSUME MkfsInv, [MkfsNext]_vars
    PROVE  \/ Work
           \/ \E s \in Segs : PrepareSb1(s) \/ MtdSb2(s) \/ PrepareJournal(s)
           \/ BdevSb2 \/ MtdSb2Fails
           \/ MakeJournal \/ MakeJournalFails \/ MakeSuper1 \/ MakeSuper2
  BY WriteWorks, FlushWorks, OtherWorks DEF MkfsNext
----------------------------------------------------------------------------
(* What a step of the object store leaves alone                            *)

\* An area stays in its segment or moves to one get_segment just returned.
AreaMoves ==
    /\ lastseg' \in 0 .. NoSegs /\ lastseg <= lastseg'
    /\ \A l \in Areas : area'[l].open =>
          \/ area[l].open /\ area'[l].segno = area[l].segno
          \/ /\ lastseg <= area'[l].segno /\ area'[l].segno < lastseg'
             /\ area'[l].segno \in faulty' => area'[l].segno \in faulty

LEMMA AreasMove == TypeOK /\ [StoreNext]_segVars => AreaMoves
<1> SUFFICES ASSUME TypeOK, [StoreNext]_segVars PROVE AreaMoves
  OBVIOUS
<1>1. lastseg \in 0 .. NoSegs /\ area \in [Areas -> AreaType] /\ lastseg \in Int
      /\ segment_entry \in [Segs -> Entry] /\ medium \in [Segs -> SegmentType]
  BY DEF TypeOK
<1>2. ASSUME UNCHANGED <<lastseg, area>> PROVE AreaMoves
  BY <1>1, <1>2 DEF AreaMoves
<1>3. ASSUME NEW s \in Segs, Reserve(s) PROVE AreaMoves
  <2>1. [segment_entry EXCEPT ![s] = ReservedEntry] \in [Segs -> Entry]
    BY <1>1, SegmentValues
  <2>2. lastseg <= s /\ lastseg' = s + 1 /\ lastseg' \in 0 .. NoSegs
    BY <1>1, <1>3, <2>1, GetSegmentFacts DEF Reserve
  <2>3. area' = area
    BY <1>3 DEF Reserve
  <2> QED
    BY <1>1, <2>2, <2>3 DEF AreaMoves, Segs
<1>4. ASSUME NEW type \in Types, NEW ino \in Inos, NEW bix \in Nat,
             NEW level \in Levels, NEW s \in Segs,
             SegmentWrite(type, ino, bix, level, s)
      PROVE  AreaMoves
  <2> DEFINE l == AreaOf(ino, level)
  <2>1. l \in Areas
    BY AreaOfType
  <2>2. CASE area[l].open /\ InPlace(l, CopyBuf(area[l], type, ino, bix))
    <3>1. area[l] \in AreaType
      BY <1>1, <2>1
    <3>2. CopyBuf(area[l], type, ino, bix).segno = area[l].segno
      BY <3>1, CopyBufArea
    <3>3. area' = [area EXCEPT ![l] = CopyBuf(area[l], type, ino, bix)] /\ lastseg' = lastseg
      BY <2>2 DEF InPlace
    <3> HIDE DEF l
    <3> QED
      BY <1>1, <2>1, <2>2, <3>2, <3>3 DEF AreaMoves
  <2>3. CASE MovesTo(l, s, CopyBuf(Fresh(s), type, ino, bix))
    <3>1. Fresh(s) \in AreaType /\ Fresh(s).segno = s
      BY FreshArea
    <3>2. CopyBuf(Fresh(s), type, ino, bix).segno = s
      BY <3>1, CopyBufArea
    <3>3. area' = [area EXCEPT ![l] = CopyBuf(Fresh(s), type, ino, bix)]
      BY <2>3 DEF MovesTo
    <3>4. /\ lastseg <= s /\ lastseg' = s + 1 /\ lastseg' \in 0 .. NoSegs
          /\ s \in faulty' => s \in faulty
      BY <2>3, GetSegmentFacts DEF MovesTo
    <3> HIDE DEF l
    <3> QED
      BY <1>1, <2>1, <3>2, <3>3, <3>4 DEF AreaMoves, Segs
  <2> QED
    BY <1>4, <2>2, <2>3, SegmentWriteShape
<1>5. CASE ReserveFails \/ FlushArea \/ FlushFails \/ Halt
  BY <1>2, <1>5 DEF ReserveFails, FlushArea, FlushFails, Halt
<1>6. ASSUME NEW ino \in Inos, NEW level \in Levels, SegmentWriteFails(ino, level)
      PROVE  AreaMoves
  BY <1>2, <1>6 DEF SegmentWriteFails
<1>7. CASE UNCHANGED segVars
  BY <1>2, <1>7 DEF segVars
<1> QED
  BY <1>3, <1>4, <1>5, <1>6, <1>7 DEF StoreNext

\* No area is in segment t.
Unowned(t) == \A l \in Areas : area[l].open => area[l].segno # t

\* Behind lastseg and ahead of get_segment a segment without an area stays as it
\* is, unless get_segment fails; an erase that fails is marked.
Leaves(t) ==
    /\ t < lastseg => medium'[t] = medium[t] /\ segment_entry'[t] = segment_entry[t]
    /\ lastseg' <= t => /\ segment_entry'[t] = segment_entry[t]
                        /\ medium'[t] \in {medium[t], Unknown}
                        /\ t \in faulty' \/ medium'[t] = medium[t]
    /\ t \in faulty' => \/ t \in faulty
                        \/ exited'
                        \/ lastseg <= t /\ t < lastseg' /\ segment_entry'[t] = BadEntry
    /\ t \in faulty => t \in faulty'

LEMMA GetSegmentLeaves ==
    ASSUME TypeOK, NEW t \in Segs, NEW s, NEW entry \in [Segs -> Entry],
           NEW m \in [Segs -> SegmentType], GetSegment(s, entry, m),
           t = s \/ entry[t] = segment_entry[t], m[t] = medium[t]
    PROVE  Leaves(t)
<1>1. /\ s \in Segs /\ lastseg <= s /\ lastseg' = s + 1
      /\ faulty' = faulty \cup (lastseg .. s - 1)
      /\ segment_entry'[t] = IF t \in lastseg .. s - 1 THEN BadEntry ELSE entry[t]
      /\ medium'[t] = IF t = s THEN Erased
                      ELSE IF t \in lastseg .. s - 1 THEN Unknown
                      ELSE m[t]
  BY DEF GetSegment, MarkBad, NextSeg
<1>2. lastseg \in Nat /\ s \in Nat /\ t \in Nat
  BY <1>1 DEF TypeOK, Segs
<1>3. t < lastseg => medium'[t] = medium[t] /\ segment_entry'[t] = segment_entry[t]
  BY <1>1, <1>2
<1>4. lastseg' <= t => medium'[t] = medium[t] /\ segment_entry'[t] = segment_entry[t]
  BY <1>1, <1>2
<1>5. t \in faulty' => \/ t \in faulty
                       \/ lastseg <= t /\ t < lastseg' /\ segment_entry'[t] = BadEntry
  BY <1>1, <1>2
<1>6. t \in faulty => t \in faulty'
  BY <1>1
<1> QED
  BY <1>3, <1>4, <1>5, <1>6 DEF Leaves

LEMMA NoSegmentLeftLeaves ==
    ASSUME TypeOK, NEW t \in Segs, NEW m, NoSegmentLeft(m), m[t] = medium[t],
           UNCHANGED <<lastseg, segment_entry>>
    PROVE  Leaves(t)
<1>1. /\ faulty' = faulty \cup (lastseg .. NoSegs - 1) /\ exited'
      /\ medium'[t] = IF t \in lastseg .. NoSegs - 1 THEN Unknown ELSE m[t]
  BY DEF NoSegmentLeft
<1>2. lastseg \in Nat /\ t \in Nat /\ t <= NoSegs - 1 /\ NoSegs \in Nat
  BY DeviceAssumption DEF TypeOK, Segs
<1> QED
  BY <1>1, <1>2 DEF Leaves

LEMMA WriteErrorLeaves ==
    ASSUME TypeOK, NEW t \in Segs, NEW l \in Areas, area[l].open, Unowned(t),
           WriteError(l), UNCHANGED <<lastseg, segment_entry>>
    PROVE  Leaves(t)
<1>1. medium'[t] = medium[t] /\ faulty' = faulty /\ exited'
  BY DEF WriteError, Unowned, TypeOK
<1> QED
  BY <1>1 DEF Leaves

LEMMA StoreLeaves ==
    ASSUME TypeOK, [StoreNext]_segVars, NEW t \in Segs, Unowned(t)
    PROVE  Leaves(t)
<1>1. /\ segment_entry \in [Segs -> Entry] /\ medium \in [Segs -> SegmentType]
      /\ lastseg \in Nat
  BY DEF TypeOK
<1>2. ASSUME NEW s \in Segs, Reserve(s) PROVE Leaves(t)
  <2> DEFINE entry == [segment_entry EXCEPT ![s] = ReservedEntry]
  <2>1. entry \in [Segs -> Entry] /\ (t = s \/ entry[t] = segment_entry[t])
    BY <1>1, SegmentValues
  <2>2. GetSegment(s, entry, medium)
    BY <1>2 DEF Reserve
  <2> HIDE DEF entry
  <2> QED
    BY <1>1, <2>1, <2>2, GetSegmentLeaves
<1>3. ASSUME NEW type \in Types, NEW ino \in Inos, NEW bix \in Nat,
             NEW level \in Levels, NEW s \in Segs,
             SegmentWrite(type, ino, bix, level, s)
      PROVE  Leaves(t)
  <2> DEFINE l == AreaOf(ino, level)
  <2>1. l \in Areas
    BY AreaOfType
  <2>2. ASSUME NEW b, InPlace(l, b) PROVE Leaves(t)
    BY <1>1, <2>2 DEF InPlace, Leaves
  <2>3. ASSUME NEW b, MovesTo(l, s, b) PROVE Leaves(t)
    <3>1. PICK entry \in [Segs -> Entry], m \in [Segs -> SegmentType] :
             /\ GetSegment(s, entry, m)
             /\ \A u \in Segs :
                   \/ area[l].open /\ u = area[l].segno
                   \/ entry[u] = segment_entry[u] /\ m[u] = medium[u]
      BY <2>3 DEF MovesTo
    <3>2. entry[t] = segment_entry[t] /\ m[t] = medium[t]
      BY <2>1, <3>1 DEF Unowned
    <3> QED
      BY <3>1, <3>2, GetSegmentLeaves
  <2> QED
    BY <1>3, <2>2, <2>3, SegmentWriteShape
<1>4. ASSUME NEW ino \in Inos, NEW level \in Levels, SegmentWriteFails(ino, level)
      PROVE  Leaves(t)
  <2> DEFINE l == AreaOf(ino, level)
  <2>1. l \in Areas
    BY AreaOfType
  <2>2. UNCHANGED <<lastseg, segment_entry>>
    BY <1>4 DEF SegmentWriteFails
  <2>3. area[l].open => MediumAfterFinish(l)[t] = medium[t]
    BY <2>1, FinishFacts DEF Unowned
  <2>4. CASE area[l].open /\ WriteError(l)
    BY <2>1, <2>2, <2>4, WriteErrorLeaves
  <2>5. CASE area[l].open /\ NoSegmentLeft(MediumAfterFinish(l))
    BY <2>2, <2>3, <2>5, NoSegmentLeftLeaves
  <2>6. CASE NoSegmentLeft(medium)
    BY <2>2, <2>6, NoSegmentLeftLeaves
  <2> QED
    BY <1>4, <2>4, <2>5, <2>6 DEF SegmentWriteFails
<1>5. CASE ReserveFails
  BY <1>5, NoSegmentLeftLeaves DEF ReserveFails
<1>6. CASE FlushArea
  <2>1. UNCHANGED <<lastseg, faulty>> /\ flush_i \in Areas
    BY <1>6 DEF FlushArea
  <2>2. medium'[t] = medium[t] /\ segment_entry'[t] = segment_entry[t]
    BY <1>6, <2>1, FinishFacts DEF FlushArea, Unowned
  <2> QED
    BY <2>1, <2>2 DEF Leaves
<1>7. CASE FlushFails
  BY <1>7, WriteErrorLeaves DEF FlushFails
<1>8. CASE Halt \/ UNCHANGED segVars
  BY <1>8 DEF Halt, segVars, Leaves
<1> QED
  BY <1>2, <1>3, <1>4, <1>5, <1>6, <1>7, <1>8 DEF StoreNext
----------------------------------------------------------------------------
(* Where the superblocks, the journal and the areas are                    *)

LEMMA SegmentOfStart ==
    ASSUME NEW s \in Nat
    PROVE  (s * SegSize) \div SegSize = s
<1>1. s * SegSize \in Nat /\ s * SegSize = SegSize * s + 0
  BY MkfsConstants
<1>2. 0 \in 0 .. SegSize - 1
  BY MkfsConstants
<1> QED
  BY <1>1, <1>2, DivisionUnique, MkfsConstants

LEMMA SegmentOfTail ==
    ASSUME NEW s \in Nat
    PROVE  ((s + 1) * SegSize - SbTail) \div SegSize = s
<1> DEFINE r == SegSize - SbTail
<1>1. r \in 0 .. SegSize - 1
  BY MkfsConstants
<1>2. (s + 1) * SegSize - SbTail = SegSize * s + r
  BY MkfsConstants
<1>3. SegSize * s + r \in Nat
  BY <1>1, MkfsConstants
<1> HIDE DEF r
<1> QED
  BY <1>1, <1>2, <1>3, DivisionUnique, MkfsConstants

Sb1Placed == /\ SbSegment(1) \in Segs /\ SbSegment(1) < lastseg
             /\ sb_ofs[1] = SbSegment(1) * SegSize
Sb2Placed == /\ SbSegment(2) \in Segs
             /\ sb_ofs[2] = (SbSegment(2) + 1) * SegSize - SbTail

\* No area is open before the journal is prepared; the segments of the journal
\* and of the areas lie behind that of the first superblock.
PlaceInv ==
    /\ pc = "sb1" /\ ~exited => lastseg = 0 /\ faulty = {}
    /\ pc = "sb2" /\ ~exited => /\ lastseg = SbSegment(1) + 1
                                /\ \A f \in faulty : f < SbSegment(1)
    /\ Early => journal_seg = << >>
    /\ pc # "sb1" => Sb1Placed
    /\ ~Early => Sb2Placed
    /\ \A i \in 1 .. Len(journal_seg) :
          SbSegment(1) < journal_seg[i] /\ journal_seg[i] < lastseg
    /\ ~Preparing => Len(journal_seg) > 0
    /\ Preparing => \A l \in Areas : ~area[l].open
    /\ \A l \in Areas : area[l].open =>
          SbSegment(1) < area[l].segno /\ area[l].segno < lastseg

LEMMA PlaceInitial == MkfsInit => PlaceInv
<1> SUFFICES ASSUME MkfsInit PROVE PlaceInv
  OBVIOUS
<1>1. \A l \in Areas : ~area[l].open
  BY SegmentValues DEF MkfsInit, Init, SegInit
<1>2. journal_seg = << >> /\ Len(journal_seg) = 0 /\ lastseg = 0 /\ faulty = {} /\ pc = "sb1"
  BY DEF MkfsInit, Init, SegInit
<1> QED
  BY <1>1, <1>2 DEF PlaceInv, Early, Preparing

\* An area in use, behind lastseg and the first superblock, where it may move.
LEMMA AreasPlaced ==
    ASSUME MkfsInv, MkfsInv', PlaceInv, AreaMoves, UNCHANGED sb_ofs, pc # "sb1"
    PROVE  /\ \A l \in Areas : area'[l].open =>
                 SbSegment(1)' < area'[l].segno /\ area'[l].segno < lastseg'
           /\ Sb1Placed'
<1>1. SbSegment(1)' = SbSegment(1) /\ SbSegment(1) \in Nat /\ SbSegment(1) < lastseg
  BY DEF PlaceInv, Sb1Placed, SbSegment, Segs
<1>2. lastseg \in Nat /\ lastseg' \in Nat /\ lastseg <= lastseg'
  BY DEF AreaMoves, MkfsInv, FileInv, TypeOK
<1>3. ASSUME NEW l \in Areas, area'[l].open
      PROVE  SbSegment(1) < area'[l].segno /\ area'[l].segno < lastseg'
  <2>1. CASE area[l].open /\ area'[l].segno = area[l].segno
    <3>1. area[l].segno \in Nat /\ SbSegment(1) < area[l].segno /\ area[l].segno < lastseg
      BY <2>1 DEF PlaceInv, MkfsInv, FileInv, TypeOK, Segs
    <3> QED
      BY <1>2, <2>1, <3>1
  <2>2. CASE lastseg <= area'[l].segno /\ area'[l].segno < lastseg' /\ area'[l].segno \in Int
    BY <1>1, <1>2, <2>2
  <2>3. area'[l].segno \in Int
    BY <1>3 DEF MkfsInv, FileInv, TypeOK, Segs
  <2> QED
    BY <1>3, <2>1, <2>2, <2>3 DEF AreaMoves
<1>4. Sb1Placed'
  BY <1>1, <1>2 DEF Sb1Placed, PlaceInv
<1> QED
  BY <1>1, <1>3, <1>4
LEMMA WorkPlaces ==
    ASSUME MkfsInv, MkfsInv', PlaceInv, Work
    PROVE  PlaceInv'
<1>1. AreaMoves
  BY AreasMove DEF Work, MkfsInv, FileInv
<1>2. lastseg \in Nat /\ lastseg' \in Nat /\ lastseg <= lastseg'
  BY <1>1 DEF AreaMoves, MkfsInv, FileInv, TypeOK
<1>3. /\ SbSegment(1)' = SbSegment(1) /\ SbSegment(2)' = SbSegment(2)
      /\ sb_ofs' = sb_ofs /\ journal_seg' = journal_seg
  BY DEF Work, SbSegment
<1>4. /\ Preparing' <=> Preparing
      /\ Early' <=> Early
      /\ (pc' = "sb1") <=> (pc = "sb1")
      /\ (pc' = "sb2") <=> (pc = "sb2")
  BY DEF Work, Preparing, Early
<1>5. ASSUME Preparing PROVE PlaceInv'
  <2>1. UNCHANGED <<lastseg, area>> /\ (exited' \/ UNCHANGED <<exited, faulty>>)
    BY <1>5 DEF Work, segVars
  <2> QED
    BY <1>3, <1>4, <2>1 DEF PlaceInv, Sb1Placed, Sb2Placed
<1>6. ASSUME ~Preparing PROVE PlaceInv'
  <2>1. ~Early /\ pc # "sb1" /\ pc # "sb2"
    BY <1>6 DEF Early, Preparing
  <2>2. /\ \A l \in Areas : area'[l].open =>
              SbSegment(1)' < area'[l].segno /\ area'[l].segno < lastseg'
        /\ Sb1Placed'
    BY <1>1, <1>3, <2>1, AreasPlaced
  <2>3. ASSUME NEW i \in 1 .. Len(journal_seg)
        PROVE  SbSegment(1) < journal_seg[i] /\ journal_seg[i] < lastseg'
    <3>1. journal_seg[i] \in Segs
      BY DEF MkfsInv
    <3>2. SbSegment(1) < journal_seg[i] /\ journal_seg[i] < lastseg
      BY DEF PlaceInv
    <3> QED
      BY <1>2, <3>1, <3>2 DEF Segs
  <2>4. Sb2Placed'
    BY <1>3, <2>1 DEF PlaceInv, Sb2Placed
  <2>5. Len(journal_seg) > 0
    BY <1>6 DEF PlaceInv
  <2> QED
    BY <1>3, <1>4, <1>6, <2>1, <2>2, <2>3, <2>4, <2>5 DEF PlaceInv
<1> QED
  BY <1>5, <1>6

LEMMA Sb1Places ==
    ASSUME MkfsInv, MkfsInv', PlaceInv, NEW s \in Segs, PrepareSb1(s)
    PROVE  PlaceInv' /\ SbSegment(1)' = s
<1>1. pc = "sb1" /\ pc' = "sb2" /\ ~exited /\ UNCHANGED <<area, exited, journal_seg>>
  BY DEF PrepareSb1, Reserve
<1>2. lastseg = 0 /\ faulty = {} /\ journal_seg = << >> /\ \A l \in Areas : ~area[l].open
  BY <1>1 DEF PlaceInv, Early, Preparing
<1>3. lastseg' = s + 1 /\ faulty' = 0 .. s - 1
  BY <1>2 DEF PrepareSb1, Reserve, GetSegment, NextSeg
<1>4. s \in Nat /\ sb_ofs'[1] = s * SegSize
  BY DEF PrepareSb1, Segs, MkfsInv
<1>5. SbSegment(1)' = s
  BY <1>4, SegmentOfStart DEF SbSegment
<1>6. Sb1Placed'
  BY <1>3, <1>4, <1>5 DEF Sb1Placed
<1>7. \A f \in faulty' : f < s
  BY <1>3, <1>4
<1> QED
  BY <1>1, <1>2, <1>3, <1>5, <1>6, <1>7 DEF PlaceInv, Early, Preparing

LEMMA Sb2Places ==
    ASSUME MkfsInv, MkfsInv', PlaceInv, BdevSb2 \/ \E s \in Segs : MtdSb2(s)
    PROVE  /\ PlaceInv'
           /\ BdevSb2 => SbSegment(2)' = NoSegs - 2
           /\ \A s \in Segs : MtdSb2(s) => SbSegment(2)' = s
<1>1. /\ pc = "sb2" /\ pc' \in {"sb2", "journal"}
      /\ pc' = "journal" \/ exited'
      /\ UNCHANGED <<lastseg, area, journal_seg>>
      /\ sb_ofs'[1] = sb_ofs[1]
  BY DEF BdevSb2, MtdSb2, MkfsInv
<1>2. /\ journal_seg = << >> /\ Len(journal_seg) = 0 /\ Sb1Placed
      /\ \A l \in Areas : ~area[l].open
  BY <1>1 DEF PlaceInv, Early, Preparing
<1>3. Sb1Placed'
  BY <1>1, <1>2 DEF Sb1Placed, SbSegment
<1>4. ASSUME BdevSb2 PROVE SbSegment(2)' = NoSegs - 2 /\ Sb2Placed'
  <2>1. NoSegs - 2 \in Nat /\ NoSegs - 2 \in Segs /\ NoSegs - 1 = (NoSegs - 2) + 1
    BY MkfsConstants DEF Segs
  <2>2. sb_ofs'[2] = ((NoSegs - 2) + 1) * SegSize - SbTail
    BY <1>4, <2>1 DEF BdevSb2, MkfsInv
  <2>3. SbSegment(2)' = NoSegs - 2
    BY <2>1, <2>2, SegmentOfTail DEF SbSegment
  <2> QED
    BY <2>1, <2>2, <2>3 DEF Sb2Placed
<1>5. ASSUME NEW s \in Segs, MtdSb2(s) PROVE SbSegment(2)' = s /\ Sb2Placed'
  <2>1. s \in Nat /\ sb_ofs'[2] = (s + 1) * SegSize - SbTail
    BY <1>5 DEF MtdSb2, MkfsInv, Segs
  <2>2. SbSegment(2)' = s
    BY <2>1, SegmentOfTail DEF SbSegment
  <2> QED
    BY <2>1, <2>2 DEF Sb2Placed
<1>6. Sb2Placed'
  BY <1>4, <1>5
<1>7. pc' # "sb1" /\ (pc' = "sb2" => exited') /\ Preparing'
  BY <1>1 DEF Preparing
<1>8. PlaceInv'
  BY <1>1, <1>2, <1>3, <1>6, <1>7 DEF PlaceInv
<1> QED
  BY <1>4, <1>5, <1>8

LEMMA JournalPlaces ==
    ASSUME MkfsInv, MkfsInv', PlaceInv, NEW s \in Segs, PrepareJournal(s)
    PROVE  PlaceInv'
<1>1. /\ pc = "journal" /\ pc' \in {"journal", "segfile"}
      /\ UNCHANGED <<area, exited, sb_ofs>>
      /\ journal_seg' = Append(journal_seg, s)
      /\ lastseg <= s /\ lastseg' = s + 1
  BY DEF PrepareJournal, Reserve, GetSegment, NextSeg
<1>2. /\ Sb1Placed /\ Sb2Placed /\ \A l \in Areas : ~area[l].open
      /\ \A i \in 1 .. Len(journal_seg) :
            SbSegment(1) < journal_seg[i] /\ journal_seg[i] < lastseg
  BY <1>1 DEF PlaceInv, Early, Preparing
<1>3. SbSegment(1)' = SbSegment(1) /\ SbSegment(2)' = SbSegment(2)
  BY <1>1 DEF SbSegment
<1>4. lastseg \in Nat /\ s \in Nat /\ SbSegment(1) \in Nat
  BY <1>2 DEF MkfsInv, FileInv, TypeOK, Segs, Sb1Placed
<1>5. Sb1Placed' /\ Sb2Placed'
  BY <1>1, <1>2, <1>3, <1>4 DEF Sb1Placed, Sb2Placed
<1>6. /\ Len(journal_seg') = Len(journal_seg) + 1 /\ Len(journal_seg) \in Nat
      /\ journal_seg'[Len(journal_seg) + 1] = s
      /\ \A i \in 1 .. Len(journal_seg) : journal_seg'[i] = journal_seg[i]
  BY <1>1 DEF MkfsInv
<1>7. ASSUME NEW i \in 1 .. Len(journal_seg')
      PROVE  SbSegment(1) < journal_seg'[i] /\ journal_seg'[i] < lastseg'
  <2>1. CASE i = Len(journal_seg) + 1
    BY <1>1, <1>2, <1>4, <1>6, <2>1 DEF Sb1Placed
  <2>2. CASE i \in 1 .. Len(journal_seg)
    <3>1. journal_seg[i] \in Segs
      BY <2>2 DEF MkfsInv
    <3> QED
      BY <1>1, <1>2, <1>4, <1>6, <2>2, <3>1 DEF Segs
  <2> QED
    BY <1>6, <2>1, <2>2
<1> QED
  BY <1>1, <1>2, <1>3, <1>5, <1>6, <1>7 DEF PlaceInv, Early, Preparing

LEMMA PublishPlaces ==
    ASSUME PlaceInv, MtdSb2Fails \/ MakeJournal \/ MakeJournalFails \/ MakeSuper1 \/ MakeSuper2
    PROVE  PlaceInv'
<1>1. UNCHANGED <<lastseg, area, sb_ofs, journal_seg>>
  BY DEF MtdSb2Fails, MakeJournal, MakeJournalFails, MakeSuper1, MakeSuper2, WriteSuper,
         mkfsVars
<1>2. SbSegment(1)' = SbSegment(1) /\ (Sb1Placed => Sb1Placed') /\ (Sb2Placed => Sb2Placed')
  BY <1>1 DEF SbSegment, Sb1Placed, Sb2Placed
<1>3. \/ pc = "sb2" /\ pc' = "sb2" /\ exited'
      \/ ~Preparing /\ ~Preparing'
  BY DEF MtdSb2Fails, MakeJournal, MakeJournalFails, MakeSuper1, MakeSuper2, mkfsVars,
         Preparing
<1> QED
  BY <1>1, <1>2, <1>3 DEF PlaceInv, Early, Preparing

LEMMA PlaceStep ==
    ASSUME MkfsInv, MkfsInv', PlaceInv, [MkfsNext]_vars
    PROVE  PlaceInv'
  BY MkfsSteps, WorkPlaces, Sb1Places, Sb2Places, JournalPlaces, PublishPlaces
----------------------------------------------------------------------------
(* The segments of the superblocks                                         *)

\* What fits at the end of a step fitted at its beginning.
LEMMA FittedSoFar ==
    ASSUME MkfsInv, MkfsInv', [MkfsNext]_vars, OffsetsFit'
    PROVE  OffsetsFit
<1>1. TypeOK /\ TypeOK'
  BY DEF MkfsInv, FileInv
<1>2. CASE [StoreNext]_segVars
  BY <1>1, <1>2, LastsegGrows, FittedBefore
<1>3. CASE UNCHANGED lastseg
  BY <1>3 DEF OffsetsFit
<1>4. ASSUME NEW s \in Segs, PrepareSb1(s) \/ PrepareJournal(s) PROVE [StoreNext]_segVars
  BY <1>4 DEF PrepareSb1, PrepareJournal, StoreNext
<1>5. ASSUME NEW s \in Segs, MtdSb2(s) PROVE UNCHANGED lastseg
  BY <1>5 DEF MtdSb2
<1>6. ASSUME BdevSb2 \/ MtdSb2Fails \/ MakeJournal \/ MakeJournalFails \/ MakeSuper1 \/ MakeSuper2
      PROVE  UNCHANGED lastseg
  BY <1>6 DEF BdevSb2, MtdSb2Fails, MakeJournal, MakeJournalFails, MakeSuper1, MakeSuper2,
     WriteSuper
<1>7. Work => [StoreNext]_segVars
  BY DEF Work
<1> QED
  BY <1>2, <1>3, <1>4, <1>5, <1>6, <1>7, MkfsSteps

\* With 32-bit offsets that do not wrap the journal is written to the segment
\* set aside for it.
LEMMA JournalSegmentIs ==
    ASSUME MkfsInv, PlaceInv, ~Preparing, OffsetsFit
    PROVE  /\ JournalSegment = journal_seg[1] /\ journal_seg[1] \in Segs
           /\ SbSegment(1) < journal_seg[1] /\ journal_seg[1] < lastseg
<1> DEFINE j == journal_seg[1]
<1>1. Len(journal_seg) \in Nat /\ Len(journal_seg) > 0 /\ 1 \in 1 .. Len(journal_seg)
  BY DEF PlaceInv, MkfsInv
<1>2. j \in Segs
  BY <1>1 DEF MkfsInv
<1>3. SbSegment(1) < j /\ j < lastseg
  BY <1>1 DEF PlaceInv
<1> HIDE DEF j
<1>4. j \in Nat /\ lastseg \in Nat /\ SegSize > 0
  BY <1>2, MkfsConstants DEF Segs, MkfsInv, FileInv, TypeOK
<1>5. j * SegSize \in Nat /\ j * SegSize + SegSize <= OffsetMod
  BY <1>3, <1>4, SegmentFits DEF OffsetsFit
<1>6. OffsetMod \in Nat /\ OffsetMod > 0
  BY DeviceAssumption
<1>7. j * SegSize \in 0 .. OffsetMod - 1 /\ j * SegSize = OffsetMod * 0 + j * SegSize
  BY <1>4, <1>5, <1>6, MkfsConstants
<1>8. (j * SegSize) % OffsetMod = j * SegSize
  BY <1>5, <1>6, <1>7, DivisionUnique
<1>9. JournalSegment = j
  BY <1>4, <1>8, SegmentOfStart DEF JournalSegment, j
<1> QED
  BY <1>2, <1>3, <1>9 DEF j

\* Nothing is stored on a segment get_segment has not come to.
Ahead == \A s \in Segs : lastseg <= s => medium[s].objs = {} /\ medium[s].kind # "ostore"

\* prepare_sb has erased and marked the segment of the first superblock, and on
\* flash that of the second; get_segment may try that one again at the end.
Settled  == pc # "sb1" /\ (pc = "sb2" => ~exited)
Sb1Ready == Settled => /\ medium[SbSegment(1)] = Erased
                       /\ segment_entry[SbSegment(1)] = ReservedEntry
Sb2Ready == ~Early /\ dev_ops = "mtd" /\ Roomy =>
                /\ segment_entry[SbSegment(2)] = ReservedEntry
                /\ SbSegment(2) \notin faulty => medium[SbSegment(2)] = Erased
MediumInv == Ahead /\ Sb1Ready /\ Sb2Ready

LEMMA AheadStep ==
    ASSUME TypeOK, Ahead, AreaMoves, [StoreNext]_segVars,
           \A l \in Areas : area[l].open => area[l].segno < lastseg
    PROVE  Ahead'
<1> SUFFICES ASSUME NEW s \in Segs, lastseg' <= s
             PROVE  medium'[s].objs = {} /\ medium'[s].kind # "ostore"
  BY DEF Ahead
<1>1. s \in Nat /\ lastseg \in Nat /\ lastseg' \in Nat /\ lastseg <= s
  BY DEF Segs, AreaMoves, TypeOK
<1>2. Unowned(s)
  BY <1>1 DEF Unowned, TypeOK, Segs
<1>3. medium'[s] \in {medium[s], Unknown}
  BY <1>2, StoreLeaves DEF Leaves
<1>4. medium[s].objs = {} /\ medium[s].kind # "ostore"
  BY <1>1 DEF Ahead
<1> QED
  BY <1>3, <1>4 DEF Unknown

\* Once the first superblock has its place a call of the store leaves it, and
\* the second one ahead of get_segment, alone.
LEMMA StoreMedium ==
    ASSUME MkfsInv, MkfsInv', PlaceInv, MediumInv, Settled, [StoreNext]_segVars,
           UNCHANGED <<dev_ops, sb_ofs>>, Early' <=> Early
    PROVE  MediumInv'
<1>1. TypeOK /\ AreaMoves
  BY AreasMove DEF MkfsInv, FileInv
<1>2. /\ SbSegment(1)' = SbSegment(1) /\ SbSegment(2)' = SbSegment(2)
      /\ SbSegment(1) \in Segs /\ SbSegment(1) < lastseg
      /\ ~Early => SbSegment(2) \in Segs
  BY DEF PlaceInv, Sb1Placed, Sb2Placed, SbSegment, Settled
<1>3. lastseg \in Nat /\ lastseg' \in Nat /\ lastseg <= lastseg'
  BY <1>1 DEF AreaMoves, TypeOK
<1>4. Ahead'
  BY <1>1, AheadStep DEF PlaceInv, MediumInv
<1>5. Unowned(SbSegment(1))
  BY <1>1, <1>2 DEF Unowned, PlaceInv, TypeOK, Segs
<1>6. Sb1Ready'
  BY <1>1, <1>2, <1>5, StoreLeaves DEF Leaves, MediumInv, Sb1Ready
<1>7. ASSUME ~Early, dev_ops = "mtd", lastseg' <= SbSegment(2)
      PROVE  /\ segment_entry'[SbSegment(2)] = ReservedEntry
             /\ SbSegment(2) \notin faulty' => medium'[SbSegment(2)] = Erased
  <2>1. SbSegment(2) \in Nat /\ lastseg <= SbSegment(2)
    BY <1>2, <1>3, <1>7 DEF Segs
  <2>2. Unowned(SbSegment(2))
    BY <1>1, <2>1, <1>3 DEF Unowned, PlaceInv, TypeOK, Segs
  <2>3. Leaves(SbSegment(2))
    BY <1>1, <1>2, <1>7, <2>2, StoreLeaves
  <2> QED
    BY <1>7, <2>1, <2>3 DEF Leaves, MediumInv, Sb2Ready, Roomy
<1>8. Sb2Ready'
  BY <1>2, <1>7 DEF Sb2Ready, Roomy
<1> QED
  BY <1>4, <1>6, <1>8 DEF MediumInv
LEMMA WorkMedium ==
    ASSUME MkfsInv, MkfsInv', PlaceInv, MediumInv, Work
    PROVE  MediumInv'
<1>1. Early' <=> Early
  BY DEF Work, Early, Preparing
<1>2. CASE Settled
  BY <1>1, <1>2, StoreMedium DEF Work
<1>3. CASE ~Settled
  <2>1. Early /\ Preparing /\ ~Settled'
    <3>1. Early /\ Preparing /\ UNCHANGED pc
      BY <1>3 DEF Settled, Work, Early, Preparing, Late
    <3>2. pc = "sb1" \/ (pc = "sb2" /\ exited)
      BY <1>3 DEF Settled
    <3>3. exited' \/ UNCHANGED exited
      BY <3>1 DEF Work, segVars
    <3> QED
      BY <3>1, <3>2, <3>3 DEF Settled
  <2>2. TypeOK /\ AreaMoves
    BY AreasMove DEF Work, MkfsInv, FileInv
  <2>3. Ahead'
    BY <2>2, AheadStep DEF PlaceInv, MediumInv, Work
  <2> QED
    BY <1>1, <2>1, <2>3 DEF MediumInv, Sb1Ready, Sb2Ready
<1> QED
  BY <1>2, <1>3

LEMMA ReserveMedium ==
    ASSUME MkfsInv, MkfsInv', PlaceInv, MediumInv, NEW s \in Segs,
           PrepareSb1(s) \/ PrepareJournal(s)
    PROVE  MediumInv'
<1>1. CASE PrepareSb1(s)
  <2>1. StoreNext /\ TypeOK
    BY <1>1, ReserveTypes DEF PrepareSb1, MkfsInv, FileInv
  <2>2. Ahead'
    BY <2>1, AreasMove, AheadStep DEF PlaceInv, MediumInv
  <2>3. SbSegment(1)' = s /\ pc' = "sb2"
    BY <1>1, Sb1Places DEF PrepareSb1
  <2> DEFINE entry == [segment_entry EXCEPT ![s] = ReservedEntry]
  <2>4. entry \in [Segs -> Entry] /\ medium \in [Segs -> SegmentType] /\ entry[s] = ReservedEntry
    BY <2>1, SegmentValues DEF TypeOK
  <2>5. GetSegment(s, entry, medium)
    BY <1>1 DEF PrepareSb1, Reserve
  <2> HIDE DEF entry
  <2>6. medium'[s] = Erased /\ segment_entry'[s] = ReservedEntry
    BY <2>1, <2>4, <2>5, GetSegmentFacts
  <2> QED
    BY <2>2, <2>3, <2>6 DEF MediumInv, Sb1Ready, Sb2Ready, Early
<1>2. CASE PrepareJournal(s)
  <2>1. StoreNext
    BY <1>2, ReserveTypes DEF PrepareJournal
  <2>2. Settled /\ (Early' <=> Early) /\ UNCHANGED <<dev_ops, sb_ofs>>
    BY <1>2 DEF PrepareJournal, Settled, Early
  <2> QED
    BY <2>1, <2>2, StoreMedium
<1> QED
  BY <1>1, <1>2

\* mtd_prepare_sb goes on only with a second superblock behind the first.
LEMMA TailBehind ==
    ASSUME MkfsInv, PlaceInv, NEW s \in Segs, MtdSb2(s), ~exited'
    PROVE  SbSegment(1) <= s /\ pc' = "journal" /\ UNCHANGED exited
<1>1. /\ ~((s + 1) * SegSize - SbTail <= sb_ofs[1])
      /\ pc = "sb2" /\ pc' = "journal" /\ UNCHANGED exited
  BY DEF MtdSb2
<1>2. sb_ofs[1] = SbSegment(1) * SegSize /\ SbSegment(1) \in Segs
  BY <1>1 DEF PlaceInv, Sb1Placed
<1> DEFINE f == SbSegment(1)
<1> HIDE DEF f
<1>3. f \in Nat /\ s \in Nat /\ (s + 1) * SegSize > f * SegSize
  <2>1. f \in Nat /\ s \in Nat /\ ~((s + 1) * SegSize - SbTail <= f * SegSize)
    BY <1>1, <1>2 DEF Segs, f
  <2>2. (s + 1) * SegSize \in Nat /\ f * SegSize \in Nat
    BY <2>1, MkfsConstants
  <2> QED
    BY <2>1, <2>2, MkfsConstants
<1>4. ASSUME s + 1 <= f PROVE FALSE
  <2>1. (s + 1) * SegSize <= f * SegSize
    BY <1>3, <1>4, MkfsConstants
  <2>2. (s + 1) * SegSize \in Nat /\ f * SegSize \in Nat
    BY <1>3, MkfsConstants
  <2> QED
    BY <1>3, <2>1, <2>2
<1> QED
  BY <1>1, <1>3, <1>4 DEF f

LEMMA Sb2Medium ==
    ASSUME MkfsInv, MkfsInv', PlaceInv, MediumInv,
           BdevSb2 \/ MtdSb2Fails \/ \E s \in Segs : MtdSb2(s)
    PROVE  MediumInv'
<1>1. /\ pc = "sb2" /\ ~exited /\ UNCHANGED <<lastseg, dev_ops>>
      /\ SbSegment(1)' = SbSegment(1) /\ SbSegment(1) \in Segs
  BY DEF BdevSb2, MtdSb2Fails, MtdSb2, SbSegment, PlaceInv, Sb1Placed, mkfsVars, MkfsInv
<1>2. medium[SbSegment(1)] = Erased /\ segment_entry[SbSegment(1)] = ReservedEntry
  BY <1>1 DEF MediumInv, Sb1Ready, Settled
<1>3. segment_entry \in [Segs -> Entry] /\ medium \in [Segs -> SegmentType]
  BY DEF MkfsInv, FileInv, TypeOK
<1>4. CASE BdevSb2
  <2>1. medium' = medium /\ dev_ops' = "bdev"
    BY <1>4 DEF BdevSb2
  <2>2. segment_entry'[SbSegment(1)] = ReservedEntry
    BY <1>1, <1>2, <1>3, <1>4 DEF BdevSb2
  <2> QED
    BY <1>1, <1>2, <2>1, <2>2 DEF MediumInv, Ahead, Sb1Ready, Sb2Ready
<1>5. ASSUME NEW s \in Segs, MtdSb2(s) PROVE MediumInv'
  <2>1. \A t \in Segs : /\ medium'[t] \in {medium[t], Erased, Unknown}
                        /\ t < s => medium'[t] = medium[t]
    BY <1>5 DEF MtdSb2, TailErased, Segs
  <2>2. medium'[s] = Erased
    BY <1>5 DEF MtdSb2, TailErased
  <2>3. /\ segment_entry'[s] = ReservedEntry
        /\ \A t \in Segs : t # s => segment_entry'[t] = segment_entry[t]
    BY <1>3, <1>5 DEF MtdSb2, TailEntry
  <2>4. Ahead'
    BY <1>1, <2>1 DEF MediumInv, Ahead, Erased, Unknown
  <2>5. SbSegment(2)' = s
    BY <1>5, Sb2Places
  <2>6. CASE exited'
    <3>1. pc' = "sb2"
      BY <1>1, <1>5, <2>6 DEF MtdSb2
    <3> QED
      BY <2>4, <2>6, <3>1 DEF MediumInv, Sb1Ready, Settled, Sb2Ready, Early
  <2>7. CASE ~exited'
    <3>1. SbSegment(1) <= s /\ s \in Int /\ SbSegment(1) \in Int
      BY <1>1, <1>5, <2>7, TailBehind DEF Segs
    <3>2. medium'[SbSegment(1)] = Erased /\ segment_entry'[SbSegment(1)] = ReservedEntry
      BY <1>1, <1>2, <2>1, <2>2, <2>3, <3>1
    <3> QED
      BY <1>1, <2>2, <2>3, <2>4, <2>5, <3>2 DEF MediumInv, Sb1Ready, Sb2Ready
  <2> QED
    BY <2>6, <2>7
<1>6. CASE MtdSb2Fails
  <2>1. \A t \in Segs : medium'[t] \in {medium[t], Unknown}
    BY <1>6 DEF MtdSb2Fails
  <2>2. Ahead'
    BY <1>1, <2>1 DEF MediumInv, Ahead, Unknown
  <2>3. exited' /\ pc' = "sb2"
    BY <1>1, <1>6 DEF MtdSb2Fails, mkfsVars
  <2> QED
    BY <2>2, <2>3 DEF MediumInv, Sb1Ready, Settled, Sb2Ready, Early
<1> QED
  BY <1>4, <1>5, <1>6

LEMMA SameObjects ==
    ASSUME NEW seg \in SegmentType
    PROVE  [seg EXCEPT !.objs = seg.objs] = seg
  BY DEF SegmentType

\* The write of a superblock leaves a segment without objects as it is.
LEMMA SuperSparesEmpty ==
    ASSUME TypeOK, NEW n \in 1..2, WriteSuper(n), NEW t \in Segs, medium[t].objs = {}
    PROVE  medium'[t] = medium[t]
<1>1. medium[t] \in SegmentType
  BY DEF TypeOK
<1>2. Spared(n, t, medium[t].objs) = medium[t].objs
  BY DEF Spared
<1>3. medium'[t] = [medium[t] EXCEPT !.objs = Spared(n, t, medium[t].objs)]
  BY DEF WriteSuper
<1>4. medium'[t] = [medium[t] EXCEPT !.objs = medium[t].objs]
  BY <1>2, <1>3
<1> QED
  BY <1>1, <1>4, SameObjects

LEMMA PublishMedium ==
    ASSUME OffsetsFit, MkfsInv, MkfsInv', PlaceInv, MediumInv,
           MakeJournal \/ MakeJournalFails \/ MakeSuper1 \/ MakeSuper2
    PROVE  MediumInv'
<1>1. /\ ~Preparing /\ ~Early /\ pc' # "sb1" /\ pc' # "sb2"
      /\ UNCHANGED <<lastseg, dev_ops, sb_ofs, segment_entry, faulty>>
  BY DEF MakeJournal, MakeJournalFails, MakeSuper1, MakeSuper2, WriteSuper, mkfsVars,
         Preparing, Early
<1>2. /\ SbSegment(1)' = SbSegment(1) /\ SbSegment(2)' = SbSegment(2) /\ Settled /\ Settled'
      /\ ~Early'
      /\ SbSegment(1) \in Segs /\ SbSegment(2) \in Segs
  BY <1>1 DEF SbSegment, PlaceInv, Sb1Placed, Sb2Placed, Settled, Early
<1>3. medium[SbSegment(1)] = Erased /\ segment_entry[SbSegment(1)] = ReservedEntry
  BY <1>2 DEF MediumInv, Sb1Ready
<1>4. TypeOK /\ lastseg \in Nat
  <2>1. TypeOK
    BY DEF MkfsInv, FileInv
  <2> QED
    BY <2>1 DEF TypeOK
<1>5. /\ medium'[SbSegment(1)] = medium[SbSegment(1)]
      /\ \A t \in Segs : lastseg <= t => medium'[t] = medium[t]
  <2>1. CASE MakeJournal \/ MakeJournalFails
    <3>1. \/ medium' = [medium EXCEPT ![JournalSegment] = Journal]
          \/ medium' = [medium EXCEPT ![JournalSegment] = Unknown]
      BY <2>1 DEF MakeJournal, MakeJournalFails
    <3>2. JournalSegment \in Nat /\ SbSegment(1) < JournalSegment /\ JournalSegment < lastseg
      BY <1>1, JournalSegmentIs DEF Segs
    <3>3. \A t \in Segs : t # JournalSegment => medium'[t] = medium[t]
      BY <1>4, <3>1 DEF TypeOK
    <3>4. \A t \in Segs : lastseg <= t => t # JournalSegment
      BY <1>4, <3>2 DEF Segs
    <3>5. SbSegment(1) # JournalSegment
      BY <1>2, <3>2 DEF Segs
    <3> QED
      BY <1>2, <3>3, <3>4, <3>5
  <2>2. CASE MakeSuper1 \/ MakeSuper2
    <3>1. PICK n \in 1..2 : WriteSuper(n)
      BY <2>2 DEF MakeSuper1, MakeSuper2
    <3>2. medium[SbSegment(1)].objs = {}
      BY <1>3 DEF Erased
    <3>3. ASSUME NEW t \in Segs, lastseg <= t PROVE medium'[t] = medium[t]
      <4>1. medium[t].objs = {}
        BY <3>3 DEF MediumInv, Ahead
      <4> QED
        BY <1>4, <3>1, <4>1, SuperSparesEmpty
    <3> QED
      BY <1>2, <1>4, <3>1, <3>2, <3>3, SuperSparesEmpty
  <2> QED
    BY <2>1, <2>2
<1>6. Ahead'
  BY <1>1, <1>5 DEF MediumInv, Ahead
<1>7. Sb1Ready'
  BY <1>1, <1>2, <1>3, <1>5 DEF Sb1Ready
<1>8. Sb2Ready'
  BY <1>1, <1>2, <1>5 DEF MediumInv, Sb2Ready, Roomy
<1> QED
  BY <1>6, <1>7, <1>8 DEF MediumInv

LEMMA MediumStep ==
    ASSUME OffsetsFit, MkfsInv, MkfsInv', PlaceInv, MediumInv,
           [MkfsNext]_vars
    PROVE  MediumInv'
  BY MkfsSteps, WorkMedium, ReserveMedium, Sb2Medium, PublishMedium

LEMMA MediumInitial == MkfsInit => MediumInv
<1> SUFFICES ASSUME MkfsInit PROVE MediumInv
  OBVIOUS
<1>1. pc = "sb1" /\ medium = [s \in Segs |-> Unknown]
  BY DEF MkfsInit, Init, SegInit
<1> QED
  BY <1>1 DEF MediumInv, Ahead, Sb1Ready, Sb2Ready, Settled, Early, Unknown

PlacedInv   == MkfsInv /\ PlaceInv
PreparedInv == PlacedInv /\ MediumInv

LEMMA PlacedAlways == MkfsSpec => []PlacedInv
<1>1. MkfsInit => PlacedInv
  BY MkfsInitial, PlaceInitial DEF PlacedInv
<1>2. PlacedInv /\ [MkfsNext]_vars => PlacedInv'
  BY MkfsTypes, PlaceStep DEF PlacedInv
<1> QED
  BY <1>1, <1>2, PTL DEF MkfsSpec

LEMMA PreparedAlways == MkfsSpec => [](OffsetsFit => PreparedInv)
<1>1. MkfsInit => MediumInv
  BY MediumInitial
<1>2. PlacedInv /\ PlacedInv' /\ (OffsetsFit => MediumInv) /\ [MkfsNext]_vars
        => (OffsetsFit => MediumInv)'
  BY MediumStep, FittedSoFar DEF PlacedInv
<1>3. MkfsSpec => [](OffsetsFit => MediumInv)
  BY <1>1, <1>2, PlacedAlways, PTL DEF MkfsSpec
<1> QED
  BY <1>3, PlacedAlways, PTL DEF PreparedInv

\* As long as the segments handed out lie in the first OffsetMod bytes (4 GiB) no
\* superblock of an earlier filesystem is left, from the end of prepare_sb on and
\* whenever the program stops, if get_segment has not come to the second one.
THEOREM NoOldSuperblock == MkfsSpec => [](OffsetsFit => OldSuperblocksErased)
<1>1. PreparedInv => OldSuperblocksErased
  <2> SUFFICES ASSUME PreparedInv, ~Early, Roomy, NEW n \in 1..2,
                      n = 1 \/ dev_ops = "mtd", SbSegment(n) \notin faulty
               PROVE  medium[SbSegment(n)].kind # "unknown"
    BY DEF OldSuperblocksErased, Early
  <2>1. medium[SbSegment(n)] = Erased
    BY DEF PreparedInv, MediumInv, Sb1Ready, Sb2Ready, Settled, Early
  <2> QED
    BY <2>1 DEF Erased
<1> QED
  BY <1>1, PreparedAlways, PTL
----------------------------------------------------------------------------
(* The journal                                                             *)

\* The sizes of a real device: a superblock fits behind the place of the second
\* one, and the journal's block, rounded up, ends before it.  And the offsets do
\* not wrap, in the segments handed out so far.
Fits ==
    /\ OffsetsFit
    /\ SbSize <= SbTail
    /\ BlockSize + JeHeader + JeAlign + SbTail <= SegSize + 1

\* The segment file with the aliases of je_alias is the table of the entries.
LEMMA AliasTable ==
    ASSUME TypeOK, NEW s \in Segs
    PROVE  (IF AliasKey(s) \in DOMAIN Aliases THEN Aliases[AliasKey(s)] ELSE ZeroEntry)
               = segment_entry[s]
<1>1. /\ s \in Nat /\ s \div Factor \in Nat /\ s % Factor \in Nat
      /\ (s \div Factor) * Factor + (s % Factor) = s
  <2>1. s \in Nat /\ Factor \in Nat /\ Factor > 0
    BY Constants DEF Segs
  <2>2. /\ s \div Factor \in Nat /\ s % Factor \in 0 .. Factor - 1
        /\ s = Factor * (s \div Factor) + (s % Factor)
    BY <2>1, DivisionFacts
  <2> QED
    BY <2>1, <2>2
<1>2. DOMAIN Aliases = {AliasKey(t) : t \in AliasedSegs}
  BY DEF Aliases
<1>3. AliasKey(s)[1] = s \div Factor /\ AliasKey(s)[2] = s % Factor
  BY DEF AliasKey
<1>4. CASE AliasKey(s) \in DOMAIN Aliases
  <2>1. Aliases[AliasKey(s)] = segment_entry[AliasKey(s)[1] * Factor + AliasKey(s)[2]]
    BY <1>4 DEF Aliases
  <2> QED
    BY <1>1, <1>3, <1>4, <2>1
<1>5. CASE AliasKey(s) \notin DOMAIN Aliases
  <2>1. s \notin AliasedSegs
    BY <1>2, <1>5
  <2>2. segment_entry[s].ec_level = 0 /\ segment_entry[s].valid = 0
    BY <2>1 DEF AliasedSegs, Aliased
  <2>3. segment_entry[s] \in Entry
    BY DEF TypeOK
  <2>4. segment_entry[s] = ZeroEntry
    BY <2>2, <2>3 DEF Entry, ZeroEntry
  <2> QED
    BY <1>5, <2>4
<1> QED
  BY <1>4, <1>5

LEMMA AlignFacts ==
    ASSUME NEW n \in Nat
    PROVE  Align(n) \in Nat /\ Align(n) <= n + JeAlign - 1
<1> DEFINE x == n + JeAlign - 1
<1>1. JeAlign \in Nat /\ JeAlign > 0
  BY MkfsAssumption
<1>2. x \in Nat
  BY <1>1
<1> HIDE DEF x
<1>3. /\ x \div JeAlign \in Nat /\ x % JeAlign \in 0 .. JeAlign - 1
      /\ x = JeAlign * (x \div JeAlign) + (x % JeAlign)
  BY <1>1, <1>2, DivisionFacts
<1>4. Align(n) = (x \div JeAlign) * JeAlign
  BY DEF Align, x
<1>5. (x \div JeAlign) * JeAlign \in Nat /\ (x \div JeAlign) * JeAlign <= x
  BY <1>1, <1>2, <1>3
<1> QED
  BY <1>4, <1>5 DEF x

\* The commit entry and the end of the journal that make_journal writes.
JournalMade ==
    /\ journal'.seg = JournalSegment
    /\ journal'.end \in Nat /\ journal'.end <= SegSize - SbTail
    /\ journal'.commit = {journal_seg[1] * SegSize + at :
                             at \in {journal'.anchor.at, journal'.dynsb.at, journal'.alias.at}}
    /\ journal'.alias.val = Aliases

\* The journal with its second and third entry and its commit entry at these places.
JournalAs(p2, p3, p4) ==
    /\ 3 * JeOfsLen <= BlockSize - p4
    /\ journal' =
          [seg    |-> JournalSegment,
           anchor |-> [at |-> JeStart, ptr |-> inode[MASTER].di_data,
                       used |-> di_used_bytes[MASTER]],
           dynsb  |-> [at |-> p2, used |-> used_bytes],
           alias  |-> [at |-> p3, val |-> Aliases],
           commit |-> {journal_seg[1] * SegSize + JeArray(p2, p3)[i] : i \in 1 .. 3},
           end    |-> After(p4, 3 * JeOfsLen)]

LEMMA StoredNat ==
    ASSUME NEW len \in Nat, NEW max, NEW x \in Stored(len, max)
    PROVE  x \in Nat
  BY MkfsAssumption DEF Stored, Compressed

LEMMA AfterNat ==
    ASSUME NEW at \in Nat, NEW len \in Nat
    PROVE  After(at, len) \in Nat /\ After(at, len) <= at + len + JeHeader + JeAlign - 1
<1>1. Align(len) \in Nat /\ Align(len) <= len + JeAlign - 1
  BY AlignFacts
<1>2. JeHeader \in Nat /\ JeAlign \in Nat
  BY MkfsAssumption
<1> QED
  BY <1>1, <1>2 DEF After

LEMMA MakeJournalMakes ==
    ASSUME Fits, MakeJournal
    PROVE  JournalMade
<1>1. \A p, q : Len(JeArray(p, q)) = 3 /\ DOMAIN JeArray(p, q) = 1 .. 3
  BY DEF JeArray
<1>2. PICK a \in Stored(AnchorLen, BlockSize - JeStart) :
         \E d \in Stored(DynsbLen, BlockSize - After(JeStart, a)) :
         \E o \in Stored(RawAliasLen, BlockSize - After(After(JeStart, a), d)) :
            JournalAs(After(JeStart, a), After(After(JeStart, a), d),
                      After(After(After(JeStart, a), d), o))
  BY <1>1 DEF MakeJournal, JournalAs
<1> DEFINE p2 == After(JeStart, a)
<1>3. PICK d \in Stored(DynsbLen, BlockSize - p2) :
         \E o \in Stored(RawAliasLen, BlockSize - After(p2, d)) :
            JournalAs(p2, After(p2, d), After(After(p2, d), o))
  BY <1>2
<1> DEFINE p3 == After(p2, d)
<1>4. PICK o \in Stored(RawAliasLen, BlockSize - p3) : JournalAs(p2, p3, After(p3, o))
  BY <1>3
<1> DEFINE p4 == After(p3, o)
<1>5. AnchorLen \in Nat /\ DynsbLen \in Nat /\ JeOfsLen \in Nat /\ RawAliasLen \in Nat
  <2>1. IsFiniteSet(Segs)
    BY FS_Interval, MkfsConstants DEF Segs
  <2>2. Cardinality(AliasedSegs) \in Nat
    BY <2>1, FS_Subset, FS_CardinalityType DEF AliasedSegs
  <2> QED
    BY <2>2, MkfsAssumption DEF RawAliasLen
<1>6. a \in Nat /\ d \in Nat /\ o \in Nat
  BY <1>5, StoredNat
<1>7. JeStart \in Nat
  BY AlignFacts, SizeAssumption DEF JeStart
<1>8. p2 \in Nat
  BY <1>6, <1>7, AfterNat
<1>9. p3 \in Nat
  BY <1>6, <1>8, AfterNat
<1>10. p4 \in Nat
  BY <1>6, <1>9, AfterNat
<1>11. JournalAs(p2, p3, p4)
  BY <1>4
<1> HIDE DEF p2, p3, p4
<1>12. After(p4, 3 * JeOfsLen) \in Nat /\ After(p4, 3 * JeOfsLen) <= SegSize - SbTail
  <2>1. 3 * JeOfsLen \in Nat /\ 3 * JeOfsLen <= BlockSize - p4
    BY <1>5, <1>11 DEF JournalAs
  <2>2. /\ After(p4, 3 * JeOfsLen) \in Nat
        /\ After(p4, 3 * JeOfsLen) <= p4 + 3 * JeOfsLen + JeHeader + JeAlign - 1
    BY <1>10, <2>1, AfterNat
  <2>3. /\ BlockSize \in Nat /\ JeHeader \in Nat /\ JeAlign \in Nat /\ SegSize \in Nat
        /\ SbTail \in Nat
    BY MkfsAssumption, SizeAssumption, MkfsConstants
  <2> QED
    BY <1>10, <2>1, <2>2, <2>3 DEF Fits
<1>13. {journal_seg[1] * SegSize + JeArray(p2, p3)[i] : i \in 1 .. 3}
          = {journal_seg[1] * SegSize + at : at \in {JeStart, p2, p3}}
  <2>1. /\ JeArray(p2, p3)[1] = JeStart /\ JeArray(p2, p3)[2] = p2
        /\ JeArray(p2, p3)[3] = p3
    BY DEF JeArray
  <2>2. 1 .. 3 = {1, 2, 3}
    OBVIOUS
  <2> QED
    BY <2>1, <2>2
<1> QED
  BY <1>11, <1>12, <1>13 DEF JournalAs, JournalMade

\* Once it is written the journal is whole, in the segment set aside for it, and
\* its aliases are the entries in memory.
JournalWritten ==
    /\ journal.seg = journal_seg[1]
    /\ journal.end \in Nat /\ journal.end <= SegSize - SbTail
    /\ journal.commit = {journal.seg * SegSize + at :
                            at \in {journal.anchor.at, journal.dynsb.at, journal.alias.at}}
    /\ medium[journal.seg] = Journal
    /\ \A s \in Segs : ReadEntry(s) = segment_entry[s]

JournalInv ==
    /\ Late => JournalWritten
    /\ DOMAIN super = 1..2
    /\ \A n \in 1..2 : super[n] # NoSuper => Late /\ super[n].journal_seg = journal_seg

\* The bytes of a superblock and those of the journal are apart, even when both
\* are in one segment at the end of the device.
LEMMA JournalSpared ==
    ASSUME Fits, MkfsInv, PlaceInv, Late, JournalWritten, NEW n \in 1..2
    PROVE  SpareJournal(n)
<1> DEFINE j == journal.seg
           f == SbSegment(1)
           t == SbSegment(2)
<1>1. /\ ~Preparing /\ ~Early /\ pc # "sb1"
  BY DEF Late, Preparing, Early
<1>2. j \in Segs /\ f < j
  BY <1>1, JournalSegmentIs DEF Fits, JournalWritten
<1>3. f \in Segs /\ t \in Segs /\ sb_ofs[1] = f * SegSize /\ sb_ofs[2] = (t + 1) * SegSize - SbTail
  BY <1>1 DEF PlaceInv, Sb1Placed, Sb2Placed
<1>4. SUFFICES ASSUME NEW b \in SbBytes(n), j * SegSize <= b, b < j * SegSize + journal.end
               PROVE  FALSE
  BY DEF SpareJournal
<1> HIDE DEF j, f, t
<1>5. /\ j \in Nat /\ f \in Nat /\ t \in Nat /\ SegSize \in Nat /\ SbTail \in Nat
      /\ SbTail <= SegSize /\ SbSize \in Nat /\ SbSize <= SbTail
      /\ journal.end \in Nat /\ journal.end <= SegSize - SbTail
  BY <1>2, <1>3, MkfsConstants DEF Segs, Fits, JournalWritten
<1>6. /\ j * SegSize \in Nat /\ f * SegSize \in Nat /\ t * SegSize \in Nat
      /\ (t + 1) * SegSize = t * SegSize + SegSize
  BY <1>5
<1>7. b \in Int
  <2>1. sb_ofs[n] \in Int
    BY DEF MkfsInv
  <2> QED
    BY <1>5, <2>1 DEF SbBytes
<1>8. CASE n = 1
  <2>1. b < f * SegSize + SegSize
    BY <1>3, <1>5, <1>6, <1>8 DEF SbBytes
  <2>2. f * SegSize + SegSize <= j * SegSize
    BY <1>2, <1>5
  <2> QED
    BY <1>4, <1>5, <1>6, <1>7, <2>1, <2>2
<1>9. CASE n = 2
  <2>1. t * SegSize + SegSize - SbTail <= b /\ b < t * SegSize + SegSize
    BY <1>3, <1>5, <1>6, <1>9 DEF SbBytes
  <2>2. CASE j = t
    BY <1>4, <1>5, <1>6, <1>7, <2>1, <2>2
  <2>3. CASE j < t
    <3>1. j * SegSize + SegSize <= t * SegSize
      BY <1>5, <2>3
    <3> QED
      BY <1>4, <1>5, <1>6, <1>7, <2>1, <3>1
  <2>4. CASE t < j
    <3>1. t * SegSize + SegSize <= j * SegSize
      BY <1>5, <2>4
    <3> QED
      BY <1>4, <1>5, <1>6, <1>7, <2>1, <3>1
  <2> QED
    BY <1>5, <2>2, <2>3, <2>4
<1> QED
  BY <1>8, <1>9

LEMMA WorkJournal ==
    ASSUME JournalInv, Work
    PROVE  JournalInv'
<1>1. (Late' <=> Late) /\ UNCHANGED <<super, journal_seg, journal>>
  BY DEF Work, Late
<1>2. Late => UNCHANGED <<medium, segment_entry>>
  BY DEF Work
<1>3. ASSUME Late PROVE JournalWritten'
  BY <1>1, <1>2, <1>3 DEF JournalInv, JournalWritten, ReadEntry
<1> QED
  BY <1>1, <1>3 DEF JournalInv

LEMMA PrepareJournalInv ==
    ASSUME JournalInv, \/ BdevSb2 \/ MtdSb2Fails \/ MakeJournalFails
                       \/ \E s \in Segs : PrepareSb1(s) \/ MtdSb2(s) \/ PrepareJournal(s)
    PROVE  JournalInv'
<1>1. ~Late /\ ~Late' /\ UNCHANGED super
  BY DEF BdevSb2, MtdSb2Fails, MakeJournalFails, PrepareSb1, MtdSb2, PrepareJournal, Late,
         mkfsVars
<1> QED
  BY <1>1 DEF JournalInv

LEMMA MakeJournalInv ==
    ASSUME Fits, MkfsInv, PlaceInv, JournalInv, MakeJournal
    PROVE  JournalInv'
<1>1. /\ ~Preparing /\ ~Late /\ Late' /\ UNCHANGED <<super, journal_seg, segment_entry>>
      /\ medium' = [medium EXCEPT ![JournalSegment] = Journal]
  BY DEF MakeJournal, Preparing, Late
<1>2. JournalMade
  BY MakeJournalMakes
<1>3. JournalSegment = journal_seg[1] /\ journal_seg[1] \in Segs
  BY <1>1, JournalSegmentIs DEF Fits
<1>4. TypeOK
  BY DEF MkfsInv, FileInv
<1>5. ASSUME NEW s \in Segs PROVE ReadEntry(s)' = segment_entry'[s]
  <2>1. journal'.alias.val = Aliases
    BY <1>2 DEF JournalMade
  <2>2. ReadEntry(s)' = (IF AliasKey(s) \in DOMAIN Aliases
                         THEN Aliases[AliasKey(s)] ELSE ZeroEntry)
    BY <2>1 DEF ReadEntry, AliasKey
  <2> QED
    BY <1>1, <1>4, <2>2, AliasTable
<1>6. medium'[journal'.seg] = Journal
  BY <1>1, <1>2, <1>3, <1>4 DEF JournalMade, TypeOK
<1>7. JournalWritten'
  BY <1>1, <1>2, <1>3, <1>5, <1>6 DEF JournalWritten, JournalMade
<1> QED
  BY <1>1, <1>7 DEF JournalInv

LEMMA MakeSuperInv ==
    ASSUME Fits, MkfsInv, PlaceInv, JournalInv, MakeSuper1 \/ MakeSuper2
    PROVE  JournalInv'
<1>1. PICK n \in 1..2 : WriteSuper(n)
  BY DEF MakeSuper1, MakeSuper2
<1>2. Late /\ Late'
  BY DEF MakeSuper1, MakeSuper2, Late
<1>3. UNCHANGED <<journal_seg, segment_entry>>
  BY <1>1 DEF WriteSuper
<1>4. JournalWritten
  BY <1>2 DEF JournalInv
<1>5. journal' = journal
  BY <1>1, <1>2, <1>4, JournalSpared DEF WriteSuper
<1>6. medium'[journal.seg] = medium[journal.seg]
  <2>1. TypeOK /\ ~Preparing
    BY <1>2 DEF MkfsInv, FileInv, Late, Preparing
  <2>2. journal.seg \in Segs /\ medium[journal.seg].objs = {}
    BY <1>4, <2>1, JournalSegmentIs DEF JournalWritten, Fits, Journal
  <2> QED
    BY <1>1, <2>1, <2>2, SuperSparesEmpty
<1>7. JournalWritten'
  BY <1>3, <1>4, <1>5, <1>6 DEF JournalWritten, ReadEntry
<1>8. /\ DOMAIN super' = 1..2
      /\ \A m \in 1..2 : \/ super'[m] = super[m]
                         \/ super'[m].journal_seg = journal_seg
  BY <1>1 DEF WriteSuper, JournalInv
<1> QED
  BY <1>2, <1>3, <1>7, <1>8 DEF JournalInv

LEMMA JournalStep ==
    ASSUME Fits, MkfsInv, PlaceInv, JournalInv, [MkfsNext]_vars
    PROVE  JournalInv'
  BY MkfsSteps, WorkJournal, PrepareJournalInv, MakeJournalInv, MakeSuperInv

LEMMA JournalInitial == MkfsInit => JournalInv
  BY DEF MkfsInit, JournalInv, Late
PublishedInv == PreparedInv /\ JournalInv

LEMMA FitsSoFar ==
    ASSUME PlacedInv, PlacedInv', [MkfsNext]_vars, Fits'
    PROVE  Fits
  BY FittedSoFar DEF PlacedInv, Fits

LEMMA PublishedAlways == MkfsSpec => [](Fits => PublishedInv)
<1>1. MkfsInit => JournalInv
  BY JournalInitial
<1>2. PlacedInv /\ PlacedInv' /\ (Fits => JournalInv) /\ [MkfsNext]_vars
        => (Fits => JournalInv)'
  BY JournalStep, FitsSoFar DEF PlacedInv
<1>3. MkfsSpec => [](Fits => JournalInv)
  BY <1>1, <1>2, PlacedAlways, PTL DEF MkfsSpec
<1>4. Fits => OffsetsFit
  BY DEF Fits
<1> QED
  BY <1>3, <1>4, PreparedAlways, PTL DEF PublishedInv

LEMMA VisibleIsLate == JournalInv /\ Visible => Late /\ JournalWritten
  BY DEF JournalInv, Visible

\* Where the offsets fit, whoever finds a superblock finds a complete journal
\* where the superblock says it is: the superblocks, written after it, never
\* overwrite it, not even when all of them are in the last segments.
THEOREM JournalFound == MkfsSpec => [](Fits => SuperFindsJournal)
<1>1. Fits /\ PublishedInv => SuperFindsJournal
  <2> SUFFICES ASSUME Fits, PublishedInv, Visible PROVE SuperFindsJournal
    BY DEF SuperFindsJournal
  <2>1. Late /\ JournalWritten /\ ~Preparing
    BY VisibleIsLate DEF PublishedInv, Late, Preparing
  <2>2. journal.seg \in Segs
    BY <2>1, JournalSegmentIs DEF PublishedInv, PreparedInv, PlacedInv, JournalWritten, Fits
  <2>3. journal # NoJournal
    BY <2>2 DEF NoJournal, Segs
  <2>4. \A n \in 1..2 : super[n] # NoSuper => super[n].journal_seg[1] = journal.seg
    BY <2>1 DEF PublishedInv, JournalInv, JournalWritten
  <2> QED
    BY <2>1, <2>3, <2>4 DEF SuperFindsJournal, JournalWritten
<1> QED
  BY <1>1, PublishedAlways, PTL

\* On flash the segment file says RESERVED for the segments of both superblocks,
\* as long as get_segment has not come to the second one.
THEOREM FlashReserved == MkfsSpec => [](Fits => FlashSuperblocksReserved)
<1>1. PublishedInv => FlashSuperblocksReserved
  <2> SUFFICES ASSUME PublishedInv, dev_ops = "mtd", Roomy, NEW n \in 1..2,
                      super[n] # NoSuper
               PROVE  ReadEntry(SbSegment(n)).valid = RESERVED
    BY DEF FlashSuperblocksReserved, SuperblocksReserved
  <2>1. Late /\ JournalWritten
    BY VisibleIsLate DEF PublishedInv, Visible
  <2>2. ~Early /\ Settled
    BY <2>1 DEF Late, Early, Settled
  <2>3. SbSegment(n) \in Segs
    BY <2>2 DEF PublishedInv, PreparedInv, PlacedInv, PlaceInv, Sb1Placed, Sb2Placed, Settled
  <2>4. segment_entry[SbSegment(n)] = ReservedEntry
    BY <2>2 DEF PublishedInv, PreparedInv, MediumInv, Sb1Ready, Sb2Ready
  <2>5. ReadEntry(SbSegment(n)) = ReservedEntry
    BY <2>1, <2>3, <2>4 DEF JournalWritten
  <2> QED
    BY <2>5 DEF ReservedEntry
<1> QED
  BY <1>1, PublishedAlways, PTL

----------------------------------------------------------------------------
(* Bad segments                                                            *)

\* A segment whose erase failed for get_segment: not one that mtd_prepare_sb
\* passed over on its way to the second superblock.
Failed(s) == s \in faulty /\ (dev_ops = "mtd" /\ ~Early => s <= SbSegment(2))

BadInv ==
    ~exited \/ Late => \A s \in Segs : Failed(s) =>
        s < lastseg /\ segment_entry[s] = BadEntry /\ Unowned(s)

LEMMA FaultyGrows ==
    ASSUME TypeOK, [StoreNext]_segVars, NEW f \in faulty'
    PROVE  f \in faulty \/ (f \in Segs /\ lastseg <= f)
<1>1. lastseg \in Nat /\ NoSegs \in Nat
  BY DeviceAssumption DEF TypeOK
<1>2. ASSUME NEW s, NEW entry, NEW m, GetSegment(s, entry, m)
      PROVE  f \in faulty \/ (f \in Segs /\ lastseg <= f)
  <2>1. faulty' = faulty \cup (lastseg .. s - 1) /\ s \in Segs
    BY <1>2 DEF GetSegment
  <2> QED
    BY <1>1, <2>1 DEF Segs
<1>3. ASSUME NEW m, NoSegmentLeft(m)
      PROVE  f \in faulty \/ (f \in Segs /\ lastseg <= f)
  <2>1. faulty' = faulty \cup (lastseg .. NoSegs - 1)
    BY <1>3 DEF NoSegmentLeft
  <2> QED
    BY <1>1, <2>1 DEF Segs
<1>4. CASE UNCHANGED faulty
  BY <1>4
<1>5. \/ UNCHANGED faulty
      \/ \E s, entry, m : GetSegment(s, entry, m)
      \/ \E m : NoSegmentLeft(m)
  <2>1. ASSUME NEW s \in Segs, Reserve(s) PROVE \E t, entry, m : GetSegment(t, entry, m)
    BY <2>1 DEF Reserve
  <2>2. ASSUME NEW type \in Types, NEW ino \in Inos, NEW bix \in Nat,
               NEW level \in Levels, NEW s \in Segs,
               SegmentWrite(type, ino, bix, level, s)
        PROVE  UNCHANGED faulty \/ \E t, entry, m : GetSegment(t, entry, m)
    BY <2>2, SegmentWriteShape DEF InPlace, MovesTo
  <2>3. ASSUME NEW ino \in Inos, NEW level \in Levels, SegmentWriteFails(ino, level)
        PROVE  UNCHANGED faulty \/ \E m : NoSegmentLeft(m)
    BY <2>3 DEF SegmentWriteFails, WriteError
  <2>4. CASE ReserveFails
    BY <2>4 DEF ReserveFails
  <2>5. CASE FlushArea \/ FlushFails \/ Halt \/ UNCHANGED segVars
    BY <2>5 DEF FlushArea, FlushFails, WriteError, Halt, segVars
  <2> QED
    BY <2>1, <2>2, <2>3, <2>4, <2>5 DEF StoreNext
<1> QED
  BY <1>2, <1>3, <1>4, <1>5

\* A process that is gone does nothing more.
LEMMA ExitedStays ==
    ASSUME [StoreNext]_segVars, exited
    PROVE  UNCHANGED segVars
  BY DEF StoreNext, Reserve, ReserveFails, SegmentWrite, SegmentWriteFails, FlushArea,
         FlushFails, Halt

\* A call of the store marks what it finds bad and stays clear of it.
LEMMA StoreBad ==
    ASSUME MkfsInv, MkfsInv', PlaceInv, BadInv, [StoreNext]_segVars, ~exited, ~exited',
           UNCHANGED dev_ops, Early' <=> Early, ~Early => UNCHANGED sb_ofs
    PROVE  BadInv'
<1>1. TypeOK /\ AreaMoves
  BY AreasMove DEF MkfsInv, FileInv
<1>2. lastseg \in Nat /\ lastseg' \in Nat /\ lastseg <= lastseg'
  BY <1>1 DEF AreaMoves, TypeOK
<1> SUFFICES ASSUME NEW f \in Segs, Failed(f)'
             PROVE  f < lastseg' /\ segment_entry'[f] = BadEntry /\ Unowned(f)'
  BY DEF BadInv
<1>3. f \in Nat /\ f \in faulty'
  BY DEF Segs, Failed
<1>4. \A l \in Areas : area[l].open => area[l].segno \in Nat /\ area[l].segno < lastseg
  BY <1>1 DEF PlaceInv, TypeOK, Segs
<1>5. CASE f \in faulty
  <2>1. Failed(f)
    BY <1>5 DEF Failed, SbSegment
  <2>2. f < lastseg /\ segment_entry[f] = BadEntry /\ Unowned(f)
    BY <2>1 DEF BadInv
  <2>3. segment_entry'[f] = BadEntry
    BY <1>1, <2>2, StoreLeaves DEF Leaves
  <2>4. Unowned(f)'
    BY <1>1, <1>2, <1>3, <2>2 DEF AreaMoves, Unowned
  <2> QED
    BY <1>2, <1>3, <2>2, <2>3, <2>4
<1>6. CASE f \notin faulty
  <2>1. lastseg <= f
    BY <1>1, <1>3, <1>6, FaultyGrows
  <2>2. Unowned(f)
    BY <1>2, <1>3, <1>4, <2>1 DEF Unowned
  <2>3. f < lastseg' /\ segment_entry'[f] = BadEntry
    BY <1>1, <1>3, <1>6, <2>2, StoreLeaves DEF Leaves
  <2>4. Unowned(f)'
    BY <1>1, <1>2, <1>3, <1>4, <1>6, <2>1 DEF AreaMoves, Unowned
  <2> QED
    BY <2>3, <2>4
<1> QED
  BY <1>5, <1>6
LEMMA WorkBad ==
    ASSUME MkfsInv, MkfsInv', PlaceInv, BadInv, Work
    PROVE  BadInv'
<1>1. /\ Late' <=> Late
      /\ Early' <=> Early
      /\ UNCHANGED <<dev_ops, sb_ofs>>
      /\ SbSegment(2)' = SbSegment(2)
  BY DEF Work, Late, Early, Preparing, SbSegment
<1>2. CASE Late
  <2>1. UNCHANGED <<lastseg, segment_entry, area, faulty>>
    BY <1>2 DEF Work
  <2> QED
    BY <1>1, <1>2, <2>1 DEF BadInv, Failed, Unowned
<1>3. CASE ~Late /\ ~exited'
  <2>1. ~exited
    BY <1>3, ExitedStays DEF Work, segVars
  <2> QED
    BY <1>1, <1>3, <2>1, StoreBad DEF Work
<1>4. CASE ~Late /\ exited'
  BY <1>1, <1>4 DEF BadInv
<1> QED
  BY <1>2, <1>3, <1>4

LEMMA ReserveBad ==
    ASSUME MkfsInv, MkfsInv', PlaceInv, BadInv, NEW s \in Segs,
           PrepareSb1(s) \/ PrepareJournal(s)
    PROVE  BadInv'
<1>1. /\ UNCHANGED <<dev_ops, exited>> /\ ~exited
      /\ Early' <=> Early
      /\ ~Early => UNCHANGED sb_ofs
  BY DEF PrepareSb1, PrepareJournal, Reserve, Early
<1>2. StoreNext
  BY ReserveTypes DEF PrepareSb1, PrepareJournal
<1> QED
  BY <1>1, <1>2, StoreBad

LEMMA Sb2Bad ==
    ASSUME MkfsInv, MkfsInv', PlaceInv, BadInv,
           BdevSb2 \/ MtdSb2Fails \/ \E s \in Segs : MtdSb2(s)
    PROVE  BadInv'
<1>1. /\ pc = "sb2" /\ ~exited /\ UNCHANGED <<lastseg, area>> /\ ~Late' /\ Early
      /\ lastseg = SbSegment(1) + 1 /\ \A f \in faulty : f < SbSegment(1)
      /\ SbSegment(1) \in Segs
  BY DEF BdevSb2, MtdSb2Fails, MtdSb2, PlaceInv, Sb1Placed, mkfsVars, Late, Early
<1>2. \A f \in Segs : f \in faulty =>
         f < lastseg /\ segment_entry[f] = BadEntry /\ Unowned(f)
  BY <1>1 DEF BadInv, Failed
<1>3. segment_entry \in [Segs -> Entry] /\ faulty \subseteq Segs
  BY DEF MkfsInv, FileInv, TypeOK
<1>4. CASE BdevSb2
  <2>1. /\ segment_entry' = [segment_entry EXCEPT ![NoSegs - 1] = ReservedEntry]
        /\ UNCHANGED faulty
    BY <1>4 DEF BdevSb2
  <2>2. \A f \in faulty : f # NoSegs - 1
    BY <1>1, <1>3, MkfsConstants DEF Segs
  <2> QED
    BY <1>1, <1>2, <1>3, <2>1, <2>2 DEF BadInv, Failed, Unowned
<1>5. ASSUME NEW s \in Segs, MtdSb2(s), ~exited' PROVE BadInv'
  <2>1. /\ segment_entry' = [segment_entry EXCEPT ![s] = ReservedEntry]
        /\ faulty' = faulty \cup (s + 1 .. NoSegs - 1) /\ dev_ops' = "mtd"
    BY <1>5 DEF MtdSb2, TailEntry
  <2>2. SbSegment(1) <= s /\ ~Early'
    BY <1>5, TailBehind DEF Early
  <2>3. SbSegment(2)' = s
    BY <1>5, Sb2Places
  <2>4. SUFFICES ASSUME NEW f \in Segs, Failed(f)'
                 PROVE  f < lastseg' /\ segment_entry'[f] = BadEntry /\ Unowned(f)'
    BY DEF BadInv
  <2>5. f \in faulty' /\ f <= s
    BY <2>1, <2>2, <2>3, <2>4 DEF Failed
  <2>6. f \in faulty
    BY <2>1, <2>5 DEF Segs
  <2>7. f # s
    BY <1>1, <2>2, <2>6 DEF Segs
  <2> QED
    BY <1>1, <1>2, <1>3, <2>1, <2>6, <2>7 DEF Unowned
<1>6. CASE exited'
  BY <1>1, <1>6 DEF BadInv
<1>7. MtdSb2Fails => exited'
  BY DEF MtdSb2Fails
<1> QED
  BY <1>4, <1>5, <1>6, <1>7

LEMMA PublishBad ==
    ASSUME BadInv, MakeJournal \/ MakeJournalFails \/ MakeSuper1 \/ MakeSuper2
    PROVE  BadInv'
<1>1. /\ UNCHANGED <<lastseg, segment_entry, area, faulty, dev_ops, sb_ofs>>
      /\ ~exited /\ ~Early /\ ~Early'
  BY DEF MakeJournal, MakeJournalFails, MakeSuper1, MakeSuper2, WriteSuper, mkfsVars, Early
<1> QED
  BY <1>1 DEF BadInv, Failed, Unowned, SbSegment

LEMMA BadStep ==
    ASSUME MkfsInv, MkfsInv', PlaceInv, BadInv, [MkfsNext]_vars
    PROVE  BadInv'
  BY MkfsSteps, WorkBad, ReserveBad, Sb2Bad, PublishBad

LEMMA BadInitial == MkfsInit => BadInv
  BY DEF MkfsInit, Init, SegInit, BadInv, Failed

\* Where the offsets fit every segment get_segment could not erase is BADSEG in
\* the segment file a mount reads, however late it was met and whatever it was
\* wanted for; on flash those behind the second superblock excepted.
THEOREM BadMarked == MkfsSpec => [](Fits => BadSegmentsMarked)
<1>1. PlacedInv /\ PlacedInv' /\ BadInv /\ [MkfsNext]_vars => BadInv'
  BY BadStep DEF PlacedInv
<1>2. MkfsInit => BadInv
  BY BadInitial
<1>3. MkfsSpec => [](Fits => PublishedInv)
  BY PublishedAlways
<1>4. MkfsSpec => []BadInv
  BY <1>1, <1>2, PlacedAlways, PTL DEF MkfsSpec
<1>5. PublishedInv /\ BadInv => BadSegmentsMarked
  <2> SUFFICES ASSUME PublishedInv, BadInv, Visible, NEW s \in faulty,
                      dev_ops = "mtd" => s <= SbSegment(2)
               PROVE  ReadEntry(s) = BadEntry
    BY DEF BadSegmentsMarked
  <2>1. Late /\ JournalWritten
    BY VisibleIsLate DEF PublishedInv
  <2>2. s \in Segs
    BY DEF PublishedInv, PreparedInv, PlacedInv, MkfsInv, FileInv, TypeOK
  <2>3. segment_entry[s] = BadEntry
    BY <2>1, <2>2 DEF BadInv, Failed
  <2> QED
    BY <2>1, <2>2, <2>3 DEF JournalWritten
<1> QED
  BY <1>3, <1>4, <1>5, PTL
----------------------------------------------------------------------------
(* The segment file                                                        *)

\* An entry that describes objects is that of a segment with objects.
Honest == \A s \in Segs :
    segment_entry[s] # ZeroEntry /\ segment_entry[s].valid # RESERVED
        => medium[s].kind = "ostore"

\* Below n a call of the store takes no segment back that was set aside.
LEMMA KeptStep ==
    ASSUME TypeOK, NEW n \in Nat, OwnedBelow(n), lastseg' <= n, [StoreNext]_segVars,
           NEW t \in Segs
    PROVE  Kept(t)
<1> SUFFICES ASSUME segment_entry[t] = ReservedEntry
             PROVE  segment_entry'[t] = ReservedEntry
  BY DEF Kept
<1>1. ReservedEntry # ZeroEntry
  BY DEF ReservedEntry, ZeroEntry, RESERVED
<1>2. CASE exited
  BY <1>2, ExitedStays DEF segVars
<1>3. CASE ~exited /\ Unowned(t)
  <2>1. ~(lastseg <= t /\ t < n)
    BY <1>1, <1>3 DEF OwnedBelow, Untouched
  <2>2. lastseg \in Nat /\ t \in Nat /\ lastseg' \in Nat
    BY AreasMove DEF TypeOK, AreaMoves, Segs
  <2>3. t < lastseg \/ lastseg' <= t
    BY <2>1, <2>2
  <2> QED
    BY <1>3, <2>3, StoreLeaves DEF Leaves
<1>4. CASE ~exited /\ ~Unowned(t)
  <2>1. PICK l \in Areas : area[l].open /\ area[l].segno = t
    BY <1>4 DEF Unowned
  <2>2. ~(flush_i <= l)
    BY <1>1, <1>4, <2>1 DEF OwnedBelow, Pending
  <2>3. flush_i # 0 /\ flush_i # l
    BY <2>2 DEF Areas
  <2>4. \/ segment_entry' = segment_entry
        \/ FlushArea
    <3>1. /\ \A s \in Segs : ~Reserve(s)
          /\ \A type \in Types, ino \in Inos, bix \in Nat, level \in Levels, s \in Segs :
                ~SegmentWrite(type, ino, bix, level, s)
      BY <2>3 DEF Reserve, SegmentWrite
    <3>2. ASSUME NEW ino \in Inos, NEW level \in Levels, SegmentWriteFails(ino, level)
          PROVE  segment_entry' = segment_entry
      BY <3>2 DEF SegmentWriteFails
    <3>3. ReserveFails \/ FlushFails \/ Halt \/ UNCHANGED segVars
              => segment_entry' = segment_entry
      BY DEF ReserveFails, FlushFails, Halt, segVars
    <3> QED
      BY <3>1, <3>2, <3>3 DEF StoreNext
  <2>5. CASE FlushArea
    <3>1. /\ flush_i \in Areas
          /\ \/ area[flush_i].open /\ segment_entry' = EntryAfterFinish(flush_i)
             \/ segment_entry' = segment_entry
      BY <2>5 DEF FlushArea
    <3>2. area[flush_i].open => area[flush_i].segno # t
      BY <1>4, <2>1, <2>3, <3>1 DEF OwnedBelow
    <3> QED
      BY <3>1, <3>2, FinishFacts
  <2> QED
    BY <2>4, <2>5
<1> QED
  BY <1>2, <1>3, <1>4

LEMMA HonestStep ==
    ASSUME TypeOK, NEW n \in Nat, OwnedBelow(n), lastseg' <= n, [StoreNext]_segVars,
           ~exited', Honest
    PROVE  Honest'
<1> SUFFICES ASSUME NEW t \in Segs, segment_entry'[t] # ZeroEntry,
                    segment_entry'[t].valid # RESERVED
             PROVE  medium'[t].kind = "ostore"
  BY DEF Honest
<1>1. BadEntry.valid = RESERVED /\ ReservedEntry.valid = RESERVED
  BY DEF BadEntry, ReservedEntry
<1>2. /\ lastseg \in Nat /\ segment_entry \in [Segs -> Entry]
      /\ medium \in [Segs -> SegmentType] /\ t \in Nat
  BY DEF TypeOK, Segs
<1>3. CASE segment_entry'[t] = segment_entry[t] /\ medium'[t] = medium[t]
  BY <1>3 DEF Honest
<1>4. ASSUME NEW s \in Segs, NEW entry, NEW m, GetSegment(s, entry, m), t # s
      PROVE  /\ t \notin lastseg .. s - 1
             /\ segment_entry'[t] = entry[t] /\ medium'[t] = m[t]
  <2>1. segment_entry'[t] = IF t \in lastseg .. s - 1 THEN BadEntry ELSE entry[t]
    BY <1>4 DEF GetSegment, MarkBad
  <2>2. t \notin lastseg .. s - 1
    BY <1>1, <2>1
  <2> QED
    BY <1>4, <2>1, <2>2 DEF GetSegment
<1>5. ASSUME NEW s \in Segs, Reserve(s) PROVE medium'[t].kind = "ostore"
  <2> DEFINE entry == [segment_entry EXCEPT ![s] = ReservedEntry]
  <2>1. GetSegment(s, entry, medium)
    BY <1>5 DEF Reserve
  <2>2. t # s
    <3>1. entry \in [Segs -> Entry] /\ entry[s] = ReservedEntry
      BY <1>2, SegmentValues
    <3> HIDE DEF entry
    <3>2. segment_entry'[s] = ReservedEntry
      BY <1>2, <2>1, <3>1, GetSegmentFacts
    <3> QED
      BY <1>1, <3>2
  <2>3. entry[t] = segment_entry[t]
    BY <1>2, <2>2
  <2> HIDE DEF entry
  <2> QED
    BY <1>3, <1>4, <2>1, <2>2, <2>3
<1>6. ASSUME NEW type \in Types, NEW ino \in Inos, NEW bix \in Nat,
             NEW level \in Levels, NEW s \in Segs,
             SegmentWrite(type, ino, bix, level, s)
      PROVE  medium'[t].kind = "ostore"
  <2> DEFINE l == AreaOf(ino, level)
  <2>1. l \in Areas
    BY AreaOfType
  <2>2. ~exited
    BY <1>6 DEF SegmentWrite
  <2>3. ASSUME NEW b, InPlace(l, b) PROVE medium'[t].kind = "ostore"
    BY <1>3, <2>3 DEF InPlace
  <2>4. ASSUME NEW b, MovesTo(l, s, b) PROVE medium'[t].kind = "ostore"
    <3>1. PICK entry \in [Segs -> Entry], m \in [Segs -> SegmentType] :
             /\ GetSegment(s, entry, m)
             /\ \A u \in Segs :
                   \/ area[l].open /\ u = area[l].segno /\ m[u].kind = "ostore"
                   \/ entry[u] = segment_entry[u] /\ m[u] = medium[u]
      BY <2>4 DEF MovesTo
    <3>2. lastseg <= s /\ lastseg' = s + 1 /\ segment_entry'[s] = entry[s]
      BY <3>1, GetSegmentFacts
    <3>3. s \in Nat /\ s < n
      BY <3>2 DEF Segs
    <3>4. segment_entry[s] = ZeroEntry
      BY <2>2, <3>2, <3>3 DEF OwnedBelow, Untouched
    <3>5. area[l].open => area[l].segno < lastseg /\ area[l].segno \in Nat
      BY <2>1, <2>2 DEF OwnedBelow, TypeOK, Segs
    <3>6. entry[s] = segment_entry[s]
      BY <1>2, <3>1, <3>2, <3>3, <3>5
    <3>7. t # s
      BY <3>2, <3>4, <3>6
    <3>8. segment_entry'[t] = entry[t] /\ medium'[t] = m[t]
      BY <1>4, <3>1, <3>7
    <3>9. CASE m[t].kind = "ostore"
      BY <3>8, <3>9
    <3>10. CASE entry[t] = segment_entry[t] /\ m[t] = medium[t]
      BY <1>3, <3>8, <3>10
    <3> QED
      BY <3>1, <3>9, <3>10
  <2> QED
    BY <1>6, <2>3, <2>4, SegmentWriteShape
<1>7. CASE FlushArea
  <2>1. /\ flush_i \in Areas
        /\ \/ /\ area[flush_i].open /\ segment_entry' = EntryAfterFinish(flush_i)
              /\ medium' = MediumAfterFinish(flush_i)
           \/ segment_entry' = segment_entry /\ medium' = medium
    BY <1>7 DEF FlushArea
  <2>2. CASE area[flush_i].open /\ medium' = MediumAfterFinish(flush_i)
             /\ t = area[flush_i].segno
    BY <2>1, <2>2, FinishFacts
  <2>3. CASE area[flush_i].open /\ medium' = MediumAfterFinish(flush_i)
             /\ segment_entry' = EntryAfterFinish(flush_i) /\ t # area[flush_i].segno
    BY <1>3, <2>1, <2>3, FinishFacts
  <2> QED
    BY <1>3, <2>1, <2>2, <2>3
<1>8. CASE UNCHANGED segVars
  BY <1>3, <1>8 DEF segVars
<1>9. ~ReserveFails /\ ~FlushFails /\ ~Halt
      /\ \A ino \in Inos, level \in Levels : ~SegmentWriteFails(ino, level)
  BY DEF ReserveFails, FlushFails, Halt, SegmentWriteFails, WriteError, NoSegmentLeft
<1> QED
  BY <1>5, <1>6, <1>7, <1>8, <1>9 DEF StoreNext
JournalReserved ==
    \A i \in 1 .. Len(journal_seg) : segment_entry[journal_seg[i]] = ReservedEntry

Truths == \A s \in Segs : Truth(segment_entry[s], medium[s])

\* The objects of a segment end in it.
Inside == \A s \in Segs : medium[s].kind = "ostore" =>
              \A o \in medium[s].objs : End(o) <= SegSize

\* As long as there is room the store keeps its promises for the segments in
\* front of the second superblock; what they mean for a mount stays when the
\* superblocks are written.
RoomInv ==
    /\ Early /\ ~exited => StoreInv /\ Honest
    /\ ~Early /\ ~Late /\ ~exited /\ Roomy =>
          StoreBelow(SbSegment(2)) /\ Honest /\ JournalReserved
    /\ Late /\ Roomy => Truths /\ Honest /\ JournalReserved /\ Inside

LEMMA RoomInitial == MkfsInit => RoomInv
<1> SUFFICES ASSUME MkfsInit PROVE RoomInv
  OBVIOUS
<1>1. SegInit /\ pc = "sb1"
  BY DEF MkfsInit, Init
<1>2. StoreInv
  BY <1>1, StoreInitial
<1>3. Honest
  BY <1>1 DEF SegInit, Honest
<1> QED
  BY <1>1, <1>2, <1>3 DEF RoomInv, Early, Late

\* prepare_sb touches only segments from n on, none with objects.
LEMMA TailStore ==
    ASSUME StoreInv, Honest, TypeOK', ~exited, NEW n \in Nat, lastseg <= n,
           UNCHANGED <<lastseg, area, used_bytes, di_used_bytes, flush_i, exited>>,
           \A l \in Areas : ~area[l].open,
           \A t \in Segs : t < n => /\ medium'[t] = medium[t]
                                    /\ segment_entry'[t] = segment_entry[t],
           \A t \in Segs : n <= t => /\ medium'[t] \in {medium[t], Erased, Unknown}
                                     /\ segment_entry'[t] \in {segment_entry[t], ReservedEntry},
           \A f \in faulty' : f < n => f \in faulty
    PROVE  StoreBelow(n)' /\ Honest'
<1>1. TypeOK /\ AreasExclusive /\ Packed /\ BadSegmentsShunned /\ CountedAreas /\ ValidExact
      /\ LiveInv
  BY DEF StoreInv
<1>2. lastseg \in Nat /\ \A t \in Segs : t \in Nat
  BY <1>1 DEF TypeOK, Segs
<1>3. ASSUME NEW t \in Segs, n <= t
      PROVE  /\ medium[t] = Unknown /\ segment_entry[t] = ZeroEntry
             /\ medium'[t] \in {Erased, Unknown}
             /\ segment_entry'[t] \in {ZeroEntry, ReservedEntry}
  <2>1. Untouched(t)
    BY <1>1, <1>2, <1>3 DEF AreasExclusive
  <2> QED
    BY <1>3, <2>1 DEF Untouched
<1>4. ASSUME NEW t \in Segs
      PROVE  \/ /\ t < n
                /\ medium'[t] = medium[t] /\ segment_entry'[t] = segment_entry[t]
             \/ /\ n <= t
                /\ medium'[t].kind # "ostore"
                /\ medium'[t].objs = {} /\ medium[t].objs = {}
  <2>1. t < n \/ n <= t
    BY <1>2
  <2> QED
    BY <1>3, <2>1 DEF Erased, Unknown
<1>5. OwnedBelow(n)'
  <2>1. ASSUME NEW t \in Segs, lastseg <= t, t < n PROVE Untouched(t)'
    <3>1. Untouched(t)
      BY <1>1, <2>1 DEF AreasExclusive
    <3> QED
      BY <2>1, <3>1 DEF Untouched
  <2> QED
    BY <2>1 DEF OwnedBelow, Pending
<1>6. Packed'
  BY <1>1, <1>4 DEF Packed
<1>7. ShunnedBelow(n)'
  BY <1>1, <1>2 DEF ShunnedBelow, BadSegmentsShunned, TypeOK
<1>8. CountedAreas'
  BY <1>1 DEF CountedAreas
<1>9. ValidExact'
  BY <1>1, <1>4 DEF ValidExact
<1>10. LiveInv'
  <2>1. ASSUME NEW t \in Segs, NEW o \in Object PROVE In(t, o)' <=> In(t, o)
    BY <1>4 DEF In
  <2>2. Live' = Live
    BY <1>1, <2>1, LiveStays
  <2> QED
    BY <1>1, <2>2, StayExact
<1>11. Honest'
  <2> SUFFICES ASSUME NEW t \in Segs, segment_entry'[t] # ZeroEntry,
                      segment_entry'[t].valid # RESERVED
               PROVE  medium'[t].kind = "ostore"
    BY DEF Honest
  <2>1. ReservedEntry.valid = RESERVED
    BY DEF ReservedEntry
  <2>2. t < n
    BY <1>2, <1>3, <2>1
  <2> QED
    BY <2>2 DEF Honest
<1> QED
  BY <1>5, <1>6, <1>7, <1>8, <1>9, <1>10, <1>11 DEF StoreBelow

LEMMA Sb2Room ==
    ASSUME MkfsInv, MkfsInv', PlaceInv, RoomInv,
           BdevSb2 \/ MtdSb2Fails \/ \E s \in Segs : MtdSb2(s)
    PROVE  RoomInv'
<1>1. /\ pc = "sb2" /\ ~exited /\ Early /\ ~Late' /\ UNCHANGED journal_seg
      /\ pc' \in {"sb2", "journal"} /\ (pc' = "sb2" => exited')
      /\ UNCHANGED <<lastseg, area, used_bytes, di_used_bytes, flush_i>>
  BY DEF BdevSb2, MtdSb2Fails, MtdSb2, mkfsVars, Late, Early
<1>2. /\ StoreInv /\ Honest /\ Len(journal_seg) = 0 /\ (\A l \in Areas : ~area[l].open)
      /\ JournalReserved'
  BY <1>1 DEF RoomInv, PlaceInv, Preparing, JournalReserved
<1>3. TypeOK /\ TypeOK' /\ lastseg \in Nat
  <2>1. TypeOK /\ TypeOK'
    BY DEF MkfsInv, FileInv
  <2> QED
    BY <2>1 DEF TypeOK
<1>4. SUFFICES ASSUME ~Early', ~exited', Roomy'
               PROVE  StoreBelow(SbSegment(2))' /\ Honest'
  BY <1>1, <1>2 DEF RoomInv, Early
<1>5. CASE BdevSb2
  <2>1. NoSegs - 2 \in Nat /\ SbSegment(2)' = NoSegs - 2 /\ lastseg <= NoSegs - 2
    BY <1>1, <1>4, <1>5, Sb2Places, MkfsConstants DEF Roomy
  <2>2. /\ segment_entry' = [segment_entry EXCEPT ![NoSegs - 1] = ReservedEntry]
        /\ UNCHANGED <<medium, faulty, exited>>
    BY <1>5 DEF BdevSb2
  <2>3. \A t \in Segs : /\ t < NoSegs - 2 => segment_entry'[t] = segment_entry[t]
                        /\ segment_entry'[t] \in {segment_entry[t], ReservedEntry}
    BY <1>3, <2>2, MkfsConstants DEF TypeOK, Segs
  <2>4. StoreBelow(NoSegs - 2)' /\ Honest'
    BY <1>1, <1>2, <1>3, <2>1, <2>2, <2>3, TailStore
  <2> QED
    BY <2>1, <2>4
<1>6. ASSUME NEW s \in Segs, MtdSb2(s) PROVE StoreBelow(SbSegment(2))' /\ Honest'
  <2>1. s \in Nat /\ SbSegment(2)' = s /\ lastseg <= s
    BY <1>1, <1>4, <1>6, Sb2Places DEF Roomy, Segs
  <2>2. UNCHANGED exited
    BY <1>4, <1>6 DEF MtdSb2
  <2>3. \A t \in Segs : /\ t < s => segment_entry'[t] = segment_entry[t]
                        /\ segment_entry'[t] \in {segment_entry[t], ReservedEntry}
    BY <1>3, <1>6 DEF MtdSb2, TailEntry, TypeOK, Segs
  <2>4. \A t \in Segs : /\ t < s => medium'[t] = medium[t]
                        /\ medium'[t] \in {medium[t], Erased, Unknown}
    BY <1>6 DEF MtdSb2, TailErased, Segs
  <2>5. \A f \in faulty' : f < s => f \in faulty
    <3>1. faulty' = faulty \cup (s + 1 .. NoSegs - 1)
      BY <1>6 DEF MtdSb2
    <3> QED
      BY <2>1, <3>1, MkfsConstants
  <2>6. StoreBelow(s)' /\ Honest'
    BY <1>1, <1>2, <1>3, <2>1, <2>2, <2>3, <2>4, <2>5, TailStore
  <2> QED
    BY <2>1, <2>6
<1>7. ~MtdSb2Fails
  BY <1>4 DEF MtdSb2Fails
<1> QED
  BY <1>5, <1>6, <1>7
\* With room left a call of the store keeps the second superblock in front of it.
LEMMA StoreRoom ==
    ASSUME MkfsInv, PlaceInv, RoomInv, [StoreNext]_segVars, ~exited, ~exited',
           UNCHANGED sb_ofs, ~Early, ~Late, Roomy'
    PROVE  /\ StoreBelow(SbSegment(2))' /\ Honest'
           /\ JournalReserved
           /\ \A t \in Segs : Kept(t)
<1>1. PICK n \in Nat : n = SbSegment(2) /\ SbSegment(2)' = n
  BY DEF PlaceInv, Sb2Placed, Segs, SbSegment
<1>2. TypeOK /\ AreaMoves
  BY AreasMove DEF MkfsInv, FileInv
<1>3. lastseg' <= n /\ lastseg \in Nat /\ lastseg' \in Nat /\ lastseg <= lastseg'
  BY <1>1, <1>2 DEF Roomy, AreaMoves, TypeOK
<1>4. Roomy
  BY <1>1, <1>3 DEF Roomy
<1>5. StoreBelow(n) /\ Honest /\ JournalReserved
  BY <1>1, <1>4 DEF RoomInv
<1>6. OwnedBelow(n)
  BY <1>5 DEF StoreBelow
<1>7. StoreBelow(n)'
  BY <1>3, <1>5, StoreBelowStep
<1>8. Honest'
  BY <1>2, <1>3, <1>5, <1>6, HonestStep
<1>9. \A t \in Segs : Kept(t)
  BY <1>2, <1>3, <1>6, KeptStep
<1> QED
  BY <1>1, <1>5, <1>7, <1>8, <1>9

LEMMA JournalKept ==
    ASSUME MkfsInv, JournalReserved, \A t \in Segs : Kept(t), UNCHANGED journal_seg
    PROVE  JournalReserved'
<1> SUFFICES ASSUME NEW i \in 1 .. Len(journal_seg)
             PROVE  segment_entry'[journal_seg[i]] = ReservedEntry
  BY DEF JournalReserved
<1>1. journal_seg[i] \in Segs
  BY DEF MkfsInv
<1> QED
  BY <1>1 DEF JournalReserved, Kept

\* While prepare_sb runs the whole device is the store's.
LEMMA EarlyStore ==
    ASSUME StoreInv, Honest, [StoreNext]_segVars, ~exited, ~exited'
    PROVE  StoreInv' /\ Honest' /\ \A t \in Segs : Kept(t)
<1>1. NoSegs \in Nat /\ StoreBelow(NoSegs)
  BY StoreIsBelow, DeviceAssumption
<1>2. TypeOK /\ OwnedBelow(NoSegs)
  BY <1>1 DEF StoreBelow
<1>3. lastseg' <= NoSegs
  BY <1>1, <1>2, AreasMove DEF AreaMoves
<1>4. Honest'
  BY <1>1, <1>2, <1>3, HonestStep
<1>5. \A t \in Segs : Kept(t)
  BY <1>1, <1>2, <1>3, KeptStep
<1> QED
  BY <1>4, <1>5, StoreStep

LEMMA WorkRoom ==
    ASSUME MkfsInv, MkfsInv', PlaceInv, RoomInv, Work
    PROVE  RoomInv'
<1>1. /\ Late' <=> Late
      /\ Early' <=> Early
      /\ UNCHANGED <<sb_ofs, journal_seg>>
      /\ SbSegment(2)' = SbSegment(2)
  BY DEF Work, Late, Early, Preparing, SbSegment
<1>2. CASE Late
  <2>1. UNCHANGED <<lastseg, segment_entry, medium>> /\ ~Early
    BY <1>2 DEF Work, Late, Early
  <2> QED
    BY <1>1, <1>2, <2>1 DEF RoomInv, Roomy, Truths, Honest, JournalReserved, Inside
<1>3. ASSUME ~exited' PROVE ~exited
  BY <1>3, ExitedStays DEF Work, segVars
<1>4. CASE Early
  <2>1. ASSUME ~exited' PROVE StoreInv' /\ Honest'
    BY <1>3, <1>4, <2>1, EarlyStore DEF RoomInv, Work
  <2>2. ~Late
    BY <1>4 DEF Early, Late
  <2> QED
    BY <1>1, <1>4, <2>1, <2>2 DEF RoomInv
<1>5. CASE ~Early /\ ~Late
  <2>1. ASSUME ~exited', Roomy'
        PROVE  StoreBelow(SbSegment(2))' /\ Honest' /\ JournalReserved'
    <3>1. /\ StoreBelow(SbSegment(2))' /\ Honest'
          /\ JournalReserved
          /\ \A t \in Segs : Kept(t)
      BY <1>1, <1>3, <1>5, <2>1, StoreRoom DEF Work
    <3> QED
      BY <1>1, <3>1, JournalKept
  <2> QED
    BY <1>1, <1>5, <2>1 DEF RoomInv
<1> QED
  BY <1>2, <1>4, <1>5

LEMMA ReserveRoom ==
    ASSUME MkfsInv, MkfsInv', PlaceInv, RoomInv, NEW s \in Segs,
           PrepareSb1(s) \/ PrepareJournal(s)
    PROVE  RoomInv'
<1>1. StoreNext /\ ~exited /\ ~exited' /\ ~Late /\ ~Late' /\ (Early' <=> Early)
  BY ReserveTypes DEF PrepareSb1, PrepareJournal, Reserve, Late, Early
<1>2. CASE PrepareSb1(s)
  <2>1. Early
    BY <1>2 DEF PrepareSb1, Early
  <2>2. StoreInv' /\ Honest'
    BY <1>1, <2>1, EarlyStore DEF RoomInv
  <2> QED
    BY <1>1, <2>1, <2>2 DEF RoomInv
<1>3. CASE PrepareJournal(s)
  <2>1. ~Early /\ UNCHANGED sb_ofs /\ journal_seg' = Append(journal_seg, s)
    BY <1>3 DEF PrepareJournal, Early
  <2>2. ASSUME Roomy'
        PROVE  StoreBelow(SbSegment(2))' /\ Honest' /\ JournalReserved'
    <3>1. /\ StoreBelow(SbSegment(2))' /\ Honest'
          /\ JournalReserved
          /\ \A t \in Segs : Kept(t)
      BY <1>1, <2>1, <2>2, StoreRoom
    <3>2. segment_entry'[s] = ReservedEntry
      <4> DEFINE entry == [segment_entry EXCEPT ![s] = ReservedEntry]
      <4>1. TypeOK /\ segment_entry \in [Segs -> Entry] /\ medium \in [Segs -> SegmentType]
        BY DEF MkfsInv, FileInv, TypeOK
      <4>2. entry \in [Segs -> Entry] /\ entry[s] = ReservedEntry
        BY <4>1, SegmentValues
      <4>3. GetSegment(s, entry, medium)
        BY <1>3 DEF PrepareJournal, Reserve
      <4> HIDE DEF entry
      <4> QED
        BY <4>1, <4>2, <4>3, GetSegmentFacts
    <3>3. ASSUME NEW i \in 1 .. Len(journal_seg')
          PROVE  segment_entry'[journal_seg'[i]] = ReservedEntry
      <4>1. /\ Len(journal_seg') = Len(journal_seg) + 1 /\ Len(journal_seg) \in Nat
            /\ journal_seg'[Len(journal_seg) + 1] = s
            /\ \A k \in 1 .. Len(journal_seg) : journal_seg'[k] = journal_seg[k]
        BY <2>1 DEF MkfsInv
      <4>2. CASE i \in 1 .. Len(journal_seg)
        <5>1. journal_seg[i] \in Segs
          BY <4>2 DEF MkfsInv
        <5> QED
          BY <3>1, <4>1, <4>2, <5>1 DEF JournalReserved, Kept
      <4>3. CASE i = Len(journal_seg) + 1
        BY <3>2, <4>1, <4>3
      <4> QED
        BY <4>1, <4>2, <4>3
    <3> QED
      BY <3>1, <3>3 DEF JournalReserved
  <2> QED
    BY <1>1, <2>1, <2>2 DEF RoomInv
<1> QED
  BY <1>2, <1>3
LEMMA MakeJournalRoom ==
    ASSUME Fits, MkfsInv, MkfsInv', PlaceInv, RoomInv, MakeJournal
    PROVE  RoomInv'
<1>1. /\ ~Early /\ ~Late /\ ~exited /\ Late' /\ ~Early' /\ ~Preparing
      /\ UNCHANGED <<lastseg, segment_entry, sb_ofs, journal_seg>>
      /\ medium' = [medium EXCEPT ![JournalSegment] = Journal]
  BY DEF MakeJournal, Early, Late, Preparing
<1>2. SUFFICES ASSUME Roomy PROVE Truths' /\ Honest' /\ JournalReserved' /\ Inside'
  BY <1>1 DEF RoomInv, Roomy, SbSegment
<1>3. StoreBelow(SbSegment(2)) /\ Honest /\ JournalReserved
  BY <1>1, <1>2 DEF RoomInv
<1>4. TypeOK /\ Packed /\ ValidExact
  BY <1>3 DEF StoreBelow
<1> DEFINE j == journal_seg[1]
<1>5. j \in Segs /\ JournalSegment = j
  BY <1>1, JournalSegmentIs DEF Fits
<1>6. segment_entry[j] = ReservedEntry
  <2>1. Len(journal_seg) \in Nat /\ Len(journal_seg) > 0
    BY <1>1 DEF PlaceInv, MkfsInv
  <2> QED
    BY <1>3, <2>1 DEF JournalReserved
<1> HIDE DEF j
<1>7. /\ medium'[j].kind # "ostore"
      /\ \A t \in Segs : t # j => medium'[t] = medium[t]
  BY <1>1, <1>4, <1>5 DEF TypeOK, Journal
<1>8. Truths'
  <2>1. \A t \in Segs : Truth(segment_entry[t], medium[t])
    BY <1>1, <1>4 DEF ValidExact, Truth
  <2> QED
    BY <1>1, <1>5, <1>7, <2>1 DEF Truths, Truth
<1>9. Honest'
  <2> SUFFICES ASSUME NEW t \in Segs, segment_entry[t] # ZeroEntry,
                      segment_entry[t].valid # RESERVED
               PROVE  medium'[t].kind = "ostore"
    BY <1>1 DEF Honest
  <2>1. t # j
    BY <1>6 DEF ReservedEntry
  <2> QED
    BY <1>3, <1>7, <2>1 DEF Honest
<1>10. Inside'
  <2> SUFFICES ASSUME NEW t \in Segs, medium'[t].kind = "ostore",
                      NEW o \in medium'[t].objs
               PROVE  End(o) <= SegSize
    BY DEF Inside
  <2>1. medium'[t] = medium[t]
    BY <1>7
  <2>2. PICK end \in SegHeader .. SegSize : Tiles(medium[t].objs, end)
    BY <1>4, <2>1 DEF Packed
  <2>3. End(o) <= end /\ end <= SegSize /\ end \in Int
    BY <2>1, <2>2, SizeAssumption DEF Tiles
  <2>4. o \in Object
    BY <1>4, <2>1 DEF TypeOK, SegmentType
  <2>5. End(o) \in Int
    BY <2>4, SizeAssumption DEF End, Object
  <2> QED
    BY <2>3, <2>5, MkfsConstants
<1> QED
  BY <1>1, <1>3, <1>8, <1>9, <1>10 DEF JournalReserved

\* A superblock is written into its own segment: it leaves what is in others.
LEMMA ObjectsSpared ==
    ASSUME Fits, MkfsInv, PlaceInv, ~Early, pc # "sb1", Inside, NEW n \in 1..2,
           NEW t \in Segs, t # SbSegment(n), medium[t].kind = "ostore"
    PROVE  Spared(n, t, medium[t].objs) = medium[t].objs
<1> DEFINE f == SbSegment(n)
<1>1. f \in Segs /\ t # f
  BY DEF PlaceInv, Sb1Placed, Sb2Placed
<1>2. /\ sb_ofs[1] = SbSegment(1) * SegSize
      /\ sb_ofs[2] = (SbSegment(2) + 1) * SegSize - SbTail
  BY DEF PlaceInv, Sb1Placed, Sb2Placed
<1>3. /\ f \in Nat /\ t \in Nat /\ SegSize \in Nat /\ SbTail \in Nat
      /\ SbTail <= SegSize /\ SbSize \in Nat /\ SbSize <= SbTail
  BY <1>1, MkfsConstants DEF Segs, Fits
<1>4. f * SegSize <= sb_ofs[n] /\ sb_ofs[n] + SbSize <= f * SegSize + SegSize
      /\ sb_ofs[n] \in Int
  <2>1. CASE n = 1
    <3>1. sb_ofs[n] = f * SegSize
      BY <1>2, <2>1
    <3> HIDE DEF f
    <3>2. f * SegSize \in Nat
      BY <1>3
    <3> QED
      BY <1>3, <3>1, <3>2
  <2>2. CASE n = 2
    <3>1. sb_ofs[n] = (f + 1) * SegSize - SbTail
      BY <1>2, <2>2
    <3> HIDE DEF f
    <3>2. f * SegSize \in Nat /\ (f + 1) * SegSize = f * SegSize + SegSize
      BY <1>3
    <3> QED
      BY <1>3, <3>1, <3>2
  <2> QED
    BY <2>1, <2>2
<1> HIDE DEF f
<1>5. ASSUME NEW o \in medium[t].objs, NEW b \in SbBytes(n),
             t * SegSize + o.pos <= b, b < t * SegSize + End(o)
      PROVE  FALSE
  <2>1. o \in Object /\ End(o) <= SegSize
    BY DEF MkfsInv, FileInv, TypeOK, SegmentType, Inside
  <2>2. o.pos \in Nat /\ End(o) \in Int
    BY <2>1, SizeAssumption DEF Object, End
  <2>3. /\ b \in Int /\ f * SegSize <= b /\ b < f * SegSize + SegSize
        /\ f * SegSize \in Nat /\ t * SegSize \in Nat
    <3>1. f * SegSize \in Nat /\ t * SegSize \in Nat
      BY <1>3
    <3>2. b \in Int /\ sb_ofs[n] <= b /\ b <= sb_ofs[n] + SbSize - 1
      BY <1>3, <1>4 DEF SbBytes
    <3> QED
      BY <1>3, <1>4, <3>1, <3>2
  <2>4. t * SegSize <= b /\ b < t * SegSize + SegSize
    BY <1>3, <1>5, <2>1, <2>2, <2>3
  <2>5. CASE t < f
    <3>1. t * SegSize + SegSize <= f * SegSize
      BY <1>3, <2>5
    <3> QED
      BY <1>3, <2>3, <2>4, <3>1
  <2>6. CASE f < t
    <3>1. f * SegSize + SegSize <= t * SegSize
      BY <1>3, <2>6
    <3> QED
      BY <1>3, <2>3, <2>4, <3>1
  <2> QED
    BY <1>1, <1>3, <2>5, <2>6
<1> QED
  BY <1>5 DEF Spared

\* While there is room the segments with objects are not those of the superblocks.
LEMMA SuperKeepsStore ==
    ASSUME Fits, MkfsInv, PlaceInv, MediumInv, RoomInv, Roomy, MakeSuper1 \/ MakeSuper2,
           NEW t \in Segs
    PROVE  /\ medium'[t].kind = medium[t].kind
           /\ medium[t].kind = "ostore" => medium'[t] = medium[t]
<1>1. PICK n \in 1..2 : WriteSuper(n)
  BY DEF MakeSuper1, MakeSuper2
<1>2. Late /\ ~Early /\ Settled /\ pc # "sb1"
  BY DEF MakeSuper1, MakeSuper2, Late, Early, Settled
<1>3. Inside
  BY <1>2 DEF RoomInv
<1>4. medium[SbSegment(1)] = Erased /\ Erased.kind # "ostore"
  BY <1>2 DEF MediumInv, Sb1Ready, Erased
<1>5. medium[SbSegment(2)].kind # "ostore"
  <2>1. SbSegment(2) \in Segs /\ lastseg <= SbSegment(2)
    BY <1>2 DEF PlaceInv, Sb2Placed, Roomy
  <2> QED
    BY <2>1 DEF MediumInv, Ahead
<1>6. medium[t] \in SegmentType
  BY DEF MkfsInv, FileInv, TypeOK
<1>7. medium'[t] = [medium[t] EXCEPT !.objs = Spared(n, t, medium[t].objs)]
  BY <1>1 DEF WriteSuper
<1>8. medium[t].kind = "ostore" => Spared(n, t, medium[t].objs) = medium[t].objs
  <2>1. medium[t].kind = "ostore" => t # SbSegment(n)
    BY <1>4, <1>5
  <2> QED
    BY <1>2, <1>3, <2>1, ObjectsSpared
<1> QED
  BY <1>6, <1>7, <1>8 DEF SegmentType

LEMMA MakeSuperRoom ==
    ASSUME Fits, MkfsInv, MkfsInv', PlaceInv, MediumInv, RoomInv, MakeSuper1 \/ MakeSuper2
    PROVE  RoomInv'
<1>1. Late /\ Late' /\ ~Early /\ ~Early'
  BY DEF MakeSuper1, MakeSuper2, Late, Early
<1>2. UNCHANGED <<lastseg, segment_entry, sb_ofs, journal_seg>>
  BY DEF MakeSuper1, MakeSuper2, WriteSuper
<1>3. SUFFICES ASSUME Roomy PROVE Truths' /\ Honest' /\ JournalReserved' /\ Inside'
  BY <1>1, <1>2 DEF RoomInv, Roomy, SbSegment
<1>4. Truths /\ Honest /\ JournalReserved /\ Inside
  BY <1>1, <1>3 DEF RoomInv
<1>5. \A t \in Segs : /\ medium'[t].kind = medium[t].kind
                      /\ medium[t].kind = "ostore" => medium'[t] = medium[t]
  BY <1>3, SuperKeepsStore
<1>6. Truths'
  BY <1>2, <1>4, <1>5 DEF Truths, Truth
<1>7. Honest'
  BY <1>2, <1>4, <1>5 DEF Honest
<1>8. Inside'
  BY <1>4, <1>5 DEF Inside
<1> QED
  BY <1>2, <1>4, <1>6, <1>7, <1>8 DEF JournalReserved

LEMMA RoomStep ==
    ASSUME Fits, MkfsInv, MkfsInv', PlaceInv, MediumInv, RoomInv, [MkfsNext]_vars
    PROVE  RoomInv'
<1>1. ASSUME MakeJournalFails PROVE RoomInv'
  <2>1. exited' /\ ~Early' /\ ~Late'
    BY <1>1 DEF MakeJournalFails, mkfsVars, Early, Late
  <2> QED
    BY <2>1 DEF RoomInv
<1> QED
  BY <1>1, MkfsSteps, WorkRoom, ReserveRoom, Sb2Room, MakeJournalRoom, MakeSuperRoom

LEMMA RoomAlways == MkfsSpec => [](Fits => PublishedInv /\ RoomInv)
<1>1. /\ PlacedInv /\ PlacedInv' /\ [MkfsNext]_vars
      /\ (Fits => PublishedInv) /\ (Fits => RoomInv)
      => (Fits => RoomInv)'
  BY RoomStep, FitsSoFar DEF PublishedInv, PreparedInv, PlacedInv
<1>2. MkfsInit => RoomInv
  BY RoomInitial
<1> QED
  BY <1>1, <1>2, PlacedAlways, PublishedAlways, PTL DEF MkfsSpec

\* Where the offsets fit and there is room the segment file, as a mount reads it
\* through the aliases, is the truth about every segment: level and valid bytes
\* of those with objects, RESERVED for the journal and the first superblock, and
\* no entry for a segment without objects.
THEOREM AliasesTell == MkfsSpec => [](Fits => AliasesTrue)
<1>1. PublishedInv /\ RoomInv => AliasesTrue
  <2> SUFFICES ASSUME PublishedInv, RoomInv, Visible, Roomy, NEW s \in Segs
               PROVE  LET e == ReadEntry(s)
                      IN  /\ medium[s].kind = "ostore" =>
                                e = [ec_level |-> EcLevel(1, medium[s].level),
                                     valid |-> BytesOf(medium[s].objs)]
                          /\ s = SbSegment(1) \/ s \in {journal_seg[i] : i \in DOMAIN journal_seg}
                                => e = ReservedEntry
                          /\ e # ZeroEntry /\ e.valid # RESERVED => medium[s].kind = "ostore"
    BY DEF AliasesTrue
  <2>1. Late /\ JournalWritten /\ Settled
    BY VisibleIsLate DEF PublishedInv, Late, Settled
  <2>2. ReadEntry(s) = segment_entry[s] /\ segment_entry[s] \in Entry
    BY <2>1 DEF JournalWritten, PublishedInv, PreparedInv, PlacedInv, MkfsInv, FileInv, TypeOK
  <2>3. Truths /\ Honest /\ JournalReserved
    BY <2>1 DEF RoomInv
  <2>4. medium[s].kind = "ostore" =>
           segment_entry[s] = [ec_level |-> EcLevel(1, medium[s].level),
                               valid |-> BytesOf(medium[s].objs)]
    BY <2>2, <2>3 DEF Truths, Truth, Entry
  <2>5. s = SbSegment(1) => segment_entry[s] = ReservedEntry
    BY <2>1 DEF PublishedInv, PreparedInv, MediumInv, Sb1Ready
  <2>6. s \in {journal_seg[i] : i \in DOMAIN journal_seg} => segment_entry[s] = ReservedEntry
    <3>1. DOMAIN journal_seg = 1 .. Len(journal_seg)
      BY DEF PublishedInv, PreparedInv, PlacedInv, MkfsInv
    <3> QED
      BY <2>3, <3>1 DEF JournalReserved
  <2>7. segment_entry[s] # ZeroEntry /\ segment_entry[s].valid # RESERVED
            => medium[s].kind = "ostore"
    BY <2>3 DEF Honest
  <2> QED
    BY <2>2, <2>4, <2>5, <2>6, <2>7
<1> QED
  BY <1>1, RoomAlways, PTL

LEMMA KeptSteps ==
    ASSUME MkfsInv, PlaceInv, ~Late => RoomInv, [MkfsNext]_vars, Roomy'
    PROVE  \A t \in Segs : Kept(t)
<1>1. segment_entry \in [Segs -> Entry]
  BY DEF MkfsInv, FileInv, TypeOK
<1>2. ASSUME UNCHANGED segment_entry PROVE \A t \in Segs : Kept(t)
  BY <1>2 DEF Kept
<1>3. ASSUME NEW s, segment_entry' = [segment_entry EXCEPT ![s] = ReservedEntry]
      PROVE  \A t \in Segs : Kept(t)
  BY <1>1, <1>3 DEF Kept
<1>4. ASSUME [StoreNext]_segVars, ~exited, ~exited', Early \/ ~Late,
             ~Early => UNCHANGED sb_ofs
      PROVE  \A t \in Segs : Kept(t)
  <2>1. CASE Early
    BY <1>4, <2>1, EarlyStore DEF RoomInv, Early, Late
  <2>2. CASE ~Early
    BY <1>4, <2>2, StoreRoom
  <2> QED
    BY <2>1, <2>2
<1>5. CASE Work
  <2>1. CASE exited \/ Late
    BY <1>2, <1>5, <2>1, ExitedStays DEF Work, segVars
  <2>2. CASE ~exited /\ ~Late /\ exited'
    <3>1. ReserveFails \/ FlushFails \/ Halt
          \/ \E ino \in Inos, level \in Levels : SegmentWriteFails(ino, level)
      <4>1. /\ \A s \in Segs : Reserve(s) => exited' = exited
            /\ \A type \in Types, ino \in Inos, bix \in Nat, level \in Levels, s \in Segs :
                  SegmentWrite(type, ino, bix, level, s) => exited' = exited
            /\ FlushArea \/ UNCHANGED segVars => exited' = exited
        <5>1. ASSUME NEW s \in Segs, Reserve(s) PROVE exited' = exited
          BY <5>1 DEF Reserve
        <5>2. ASSUME NEW type \in Types, NEW ino \in Inos, NEW bix \in Nat,
                     NEW level \in Levels, NEW s \in Segs,
                     SegmentWrite(type, ino, bix, level, s)
              PROVE  exited' = exited
          BY <5>2 DEF SegmentWrite
        <5>3. FlushArea \/ UNCHANGED segVars => exited' = exited
          BY DEF FlushArea, segVars
        <5> QED
          BY <5>1, <5>2, <5>3
      <4>2. exited' # exited
        BY <2>2
      <4> QED
        BY <1>5, <4>1, <4>2 DEF Work, StoreNext
    <3> QED
      BY <1>2, <3>1 DEF ReserveFails, FlushFails, Halt, SegmentWriteFails
  <2>3. CASE ~exited /\ ~Late /\ ~exited'
    BY <1>4, <1>5, <2>3 DEF Work
  <2> QED
    BY <2>1, <2>2, <2>3
<1>6. ASSUME NEW s \in Segs, PrepareSb1(s) \/ PrepareJournal(s)
      PROVE  \A t \in Segs : Kept(t)
  <2>1. StoreNext /\ ~exited /\ ~exited' /\ ~Late /\ (~Early => UNCHANGED sb_ofs)
    BY <1>6, ReserveTypes DEF PrepareSb1, PrepareJournal, Reserve, Late, Early
  <2> QED
    BY <1>4, <2>1
<1>7. ASSUME NEW s \in Segs, MtdSb2(s) PROVE \A t \in Segs : Kept(t)
  BY <1>3, <1>7 DEF MtdSb2, TailEntry
<1>8. CASE BdevSb2
  BY <1>3, <1>8 DEF BdevSb2
<1>9. CASE MtdSb2Fails \/ MakeJournal \/ MakeJournalFails \/ MakeSuper1 \/ MakeSuper2
  BY <1>2, <1>9 DEF MtdSb2Fails, MakeJournal, MakeJournalFails, MakeSuper1, MakeSuper2,
                    WriteSuper
<1> QED
  BY <1>5, <1>6, <1>7, <1>8, <1>9, MkfsSteps

\* Before the journal is written the store keeps to its room, on any device.
LEMMA RoomUntilLate ==
    ASSUME MkfsInv, MkfsInv', PlaceInv, ~Late => RoomInv, [MkfsNext]_vars, ~Late'
    PROVE  RoomInv'
<1>1. ~(MakeJournal \/ MakeSuper1 \/ MakeSuper2)
  BY DEF MakeJournal, MakeSuper1, MakeSuper2, Late
<1>2. ~Late
  BY <1>1, MkfsSteps DEF Work, PrepareSb1, PrepareJournal, MtdSb2, BdevSb2, MtdSb2Fails,
     MakeJournalFails, mkfsVars, Late
<1>3. ASSUME MakeJournalFails PROVE RoomInv'
  <2>1. exited' /\ ~Early' /\ ~Late'
    BY <1>3 DEF MakeJournalFails, mkfsVars, Early, Late
  <2> QED
    BY <2>1 DEF RoomInv
<1> QED
  BY <1>1, <1>2, <1>3, MkfsSteps, WorkRoom, ReserveRoom, Sb2Room

\* A segment set aside for a superblock or the journal stays so until get_segment
\* comes to the second superblock, whatever erases fail meanwhile: on a device of
\* any size, as the offsets of objects do not matter for it.
THEOREM ReservedStays == MkfsSpec => ReservedKeptWithRoom
<1>1. PlacedInv /\ (~Late => RoomInv) /\ [MkfsNext]_vars
          => [Roomy' => \A s \in Segs : Kept(s)]_vars
  BY KeptSteps DEF PlacedInv
<1>2. PlacedInv /\ PlacedInv' /\ (~Late => RoomInv) /\ [MkfsNext]_vars => (~Late => RoomInv)'
  BY RoomUntilLate DEF PlacedInv
<1>3. MkfsInit => RoomInv
  BY RoomInitial
<1> QED
  BY <1>1, <1>2, <1>3, PlacedAlways, PTL DEF MkfsSpec, ReservedKeptWithRoom
=============================================================================
