------------------------------ MODULE MkfsTree ------------------------------
(***************************************************************************)
(* What a mount finds of the files that mkfs() writes.                     *)
(*                                                                         *)
(* mkfs() is the client of the files as well as of the store: the segment  *)
(* file is kept block by block as in FilesIntact, its inode is written     *)
(* when the flush has ended, and the areas go to the device one by one.    *)
(* When the journal is written all of them are there, and the superblocks  *)
(* overwrite none of it.                                                   *)
(***************************************************************************)
EXTENDS MkfsProofs, FilesIntact

\* The segment file does not end one block behind what a height can reach, where
\* grow_inode stops too early.
Reachable == \A h \in 1 .. MaxLevels : Max(SegfileBlocks) # Factor ^ h

Writing == pc \in {"segfile", "segflush", "rootdir", "flush"}

\* The areas that flush_segments has passed are on the device, with their buffers.
AreasFlushed ==
    \A l \in Areas : area[l].open /\ l < flush_i =>
        medium[area[l].segno] = Ostore(l, area[l].buf)

\* The inode of the segment file, as it was written, is the one in memory.
InodeWritten ==
    /\ SEGFILE \in DOMAIN latest[MASTER]
    /\ content[latest[MASTER][SEGFILE]] = Inode(SEGFILE)

\* How far mkfs() is with the segment file and the inodes.
SegfileBegun ==
    /\ flushing = None /\ flushed = {} /\ LeadInv
    /\ DOMAIN latest[SEGFILE] = 0 .. blk - 1 /\ DOMAIN latest[SEGFILE] \subseteq SegfileBlocks

SegfileWritten == DOMAIN latest[SEGFILE] = SegfileBlocks

SegfileFlushing ==
    /\ SegfileWritten /\ LeadInv
    /\ \/ flushing = SEGFILE /\ flushed = {}
       \/ flushing = None /\ flushed = {SEGFILE}

SegfileStored ==
    /\ SegfileWritten /\ InodeWritten
    /\ flushing = None /\ flushed = {SEGFILE}

Phase ==
    /\ pc # "flush" => flush_i = 0
    /\ pc = "segfile" => SegfileBegun
    /\ pc = "segflush" => SegfileFlushing
    /\ pc \in {"rootdir", "flush"} => SegfileStored
    /\ pc = "flush" => ROOT \in DOMAIN latest[MASTER]

FilesKept ==
    /\ ContentHeld
    /\ FileKept(SEGFILE, "block") /\ FileKept(MASTER, "inode")

WriteInv ==
    /\ Preparing => FileInit /\ blk = 0 /\ flush_i = 0
    /\ Writing /\ ~exited /\ Roomy => FilesKept /\ AreasFlushed /\ Phase

\* What a mount finds, with the journal, the content and the device there are.
Tree ==
    /\ \A ino \in {ROOT, SEGFILE} :
          OnMedium(journal.anchor.ptr[ino], "inode", MASTER, ino, MaxLevels)
    /\ LET di == ReadInode(SEGFILE)
       IN  \A b \in SegfileBlocks :
              /\ OnMedium(Lookup(di, b), "block", SEGFILE, b, 0)
              /\ b >= I0 => \A l \in 1 .. di.height :
                    OnMedium(Path(di, b)[l], "block", SEGFILE, ParentBix(b, l), l)

TreeInv == Late /\ Roomy => Tree

----------------------------------------------------------------------------
(* Before the segment file is written                                      *)

LEMMA TreeConstants ==
    /\ MASTER \in Inos /\ ROOT \in Inos /\ SEGFILE \in Inos
    /\ SEGFILE # MASTER /\ ROOT # MASTER /\ ROOT # SEGFILE
    /\ ROOT \in 0 .. I0 - 1 /\ SEGFILE \in 0 .. I0 - 1 /\ I0 \in Nat
    /\ "block" \in Types /\ "inode" \in Types /\ 0 \in Levels
    /\ IsFiniteSet(Inos)
  BY MkfsAssumption, Constants DEF Types

\* Until prepare_journal is done nothing is written to a file.
LEMMA StillFresh ==
    ASSUME WriteInv, [MkfsNext]_vars, Preparing'
    PROVE  FileInit' /\ blk' = 0 /\ flush_i' = 0
<1>1. Preparing /\ UNCHANGED <<fileVars, blk, flush_i>>
  <2>1. ASSUME NEW s \in Segs, PrepareSb1(s) \/ MtdSb2(s) \/ PrepareJournal(s)
        PROVE  Preparing /\ UNCHANGED <<fileVars, blk, flush_i>>
    BY <2>1 DEF PrepareSb1, MtdSb2, PrepareJournal, Reserve, Preparing
  <2>2. ASSUME NEW s \in Segs, WriteSegfile(s) \/ FlushStep(s) \/ WriteSegfileInode(s)
                               \/ WriteRootdir(s)
        PROVE  FALSE
    BY <2>2 DEF WriteSegfile, FlushStep, WriteSegfileInode, WriteRootdir, SegfileDone,
                Preparing, mkfsVars
  <2>3. ASSUME BdevSb2 \/ MtdSb2Fails \/ ReserveSegmentFails
        PROVE  Preparing /\ UNCHANGED <<fileVars, blk, flush_i>>
    BY <2>3 DEF BdevSb2, MtdSb2Fails, ReserveSegmentFails, ReserveFails, Preparing, mkfsVars
  <2>4. ASSUME FlushSegfile \/ FileWriteError \/ FlushSegments \/ FlushSegmentsFails
        PROVE  FALSE
    BY <2>4 DEF FlushSegfile, FileWriteError, FlushSegments, FlushSegmentsFails,
                Preparing, mkfsVars
  <2>5. ASSUME MakeJournal \/ MakeJournalFails \/ JournalBug \/ ScratchOverrun
               \/ MakeSuper1 \/ MakeSuper2
        PROVE  FALSE
    BY <2>5 DEF MakeJournal, MakeJournalFails, JournalBug, ScratchOverrun, MakeSuper1,
                MakeSuper2, Preparing, mkfsVars
  <2>6. ASSUME MkfsHalt \/ UNCHANGED vars
        PROVE  Preparing /\ UNCHANGED <<fileVars, blk, flush_i>>
    BY <2>6 DEF MkfsHalt, Halt, Preparing, mkfsVars, segVars, vars
  <2> QED
    BY <2>1, <2>2, <2>3, <2>4, <2>5, <2>6 DEF MkfsNext
<1>2. FileInit /\ blk = 0 /\ flush_i = 0
  BY <1>1 DEF WriteInv
<1> QED
  BY <1>1, <1>2 DEF FileInit, fileVars

Unwritten ==
    /\ FilesKept /\ LeadInv
    /\ flushing = None /\ flushed = {} /\ DOMAIN latest[SEGFILE] = {}

LEMMA FreshFiles == FileInit => Unwritten
<1> SUFFICES ASSUME FileInit PROVE Unwritten
  OBVIOUS
<1>1. /\ flushing = None /\ flushed = {} /\ content = EmptyMap
      /\ \A ino \in Inos : /\ latest[ino] = EmptyMap
                           /\ inode[ino].tree = [l \in TreeLevels |-> EmptyMap]
                           /\ inode[ino].di_data = [i \in 0..I0 |-> Hole]
  BY DEF FileInit
<1>2. DOMAIN EmptyMap = {}
  BY EmptyMapFacts
<1> HIDE DEF EmptyMap
<1>3. \A ino \in Inos : /\ \A l \in TreeLevels : DOMAIN inode[ino].tree[l] = {}
                        /\ \A bix \in 0 .. I0 - 1 : inode[ino].di_data[bix] = Hole
  BY <1>1, <1>2, Constants
<1>4. ASSUME NEW ino \in Inos, NEW type PROVE FileKept(ino, type)
  BY <1>1, <1>2, <1>3 DEF FileKept, Grounded
<1>5. FilesKept
  BY <1>1, <1>2, <1>4, TreeConstants DEF FilesKept, ContentHeld
<1>6. LeadInv
  BY <1>3 DEF LeadInv, AlignedTrees, AlignedTree, NodeLeads, DirectLead, TreeLeads, Leads
<1> QED
  BY <1>1, <1>2, <1>5, <1>6, TreeConstants DEF Unwritten

\* Then the segment file is begun.
LEMMA BeginWrites ==
    ASSUME MkfsInv, PlaceInv, WriteInv, NEW s \in Segs, PrepareJournal(s), Writing'
    PROVE  FilesKept' /\ AreasFlushed' /\ Phase'
<1>1. /\ Preparing /\ pc' = "segfile" /\ UNCHANGED <<fileVars, blk, flush_i>>
  BY DEF PrepareJournal, Reserve, Preparing, Writing
<1>2. FileInit /\ blk = 0 /\ flush_i = 0
  BY <1>1 DEF WriteInv
<1>3. FileInit' /\ blk' = 0 /\ flush_i' = 0
  BY <1>1, <1>2 DEF FileInit, fileVars
<1>4. Unwritten'
  BY <1>3, FreshFiles, PTL
<1>5. AreasFlushed'
  BY <1>3 DEF AreasFlushed, Areas
<1>6. SegfileBegun'
  BY <1>3, <1>4 DEF SegfileBegun, Unwritten
<1> QED
  BY <1>1, <1>3, <1>4, <1>5, <1>6 DEF Phase, Unwritten

----------------------------------------------------------------------------
(* The segment file and the inodes are written                             *)

\* A step that writes meets a store that has kept its promises.
LEMMA RoomToWrite ==
    ASSUME MkfsInv, PlaceInv, RoomInv, WriteInv, Work, Writing, ~exited, Roomy'
    PROVE  /\ Roomy /\ FilesKept /\ AreasFlushed /\ Phase
           /\ \E n \in Nat : StoreBelow(n) /\ lastseg' <= n
<1>1. PICK n \in Nat : n = SbSegment(2) /\ SbSegment(2)' = n
  BY DEF PlaceInv, Sb2Placed, Segs, SbSegment, Writing, Early, Work
<1>2. AreaMoves
  BY AreasMove DEF MkfsInv, FileInv, Work
<1>3. lastseg' <= n /\ lastseg \in Nat /\ lastseg' \in Nat /\ lastseg <= lastseg'
  BY <1>1, <1>2 DEF Roomy, AreaMoves, MkfsInv, FileInv, TypeOK
<1>4. Roomy
  BY <1>1, <1>3 DEF Roomy
<1>5. StoreBelow(n)
  BY <1>1, <1>4 DEF RoomInv, Writing, Early, Late
<1> QED
  BY <1>3, <1>4, <1>5 DEF WriteInv

\* One block more is in file ino, with its data, and the others are as they were.
Adds(ino, bix, data) ==
    /\ DOMAIN latest'[ino] = DOMAIN latest[ino] \cup {bix}
    /\ content'[latest'[ino][bix]] = data
    /\ \A b \in DOMAIN latest[ino] : b # bix => latest'[ino][b] = latest[ino][b]
    /\ \A i \in Inos : i # ino => /\ inode'[i] = inode[i] /\ latest'[i] = latest[i]
                                  /\ di_used_bytes'[i] = di_used_bytes[i]
    /\ UNCHANGED <<flushing, flushed, flush_i>>

LEMMA WriteAdds ==
    ASSUME FileInv, NEW type \in Types, NEW ino \in Inos, NEW bix \in Nat, NEW data,
           NEW s \in Segs, FileWrite(type, ino, bix, data, s)
    PROVE  Adds(ino, bix, data)
<1> DEFINE p == Place(AreaOf(ino, 0), s)
<1>1. /\ SegmentWrite(type, ino, bix, 0, s) /\ StoreAt(AreaOf(ino, 0), s, data)
      /\ latest' = [latest EXCEPT ![ino] = Put(latest[ino], bix, p)]
      /\ \A i \in Inos : i # ino => inode'[i] = inode[i]
      /\ UNCHANGED <<flushing, flushed>>
  BY DEF FileWrite, FileInv, NodesOK
<1>2. latest \in [Inos -> Maps(Nat)] /\ di_used_bytes \in [Inos -> Nat]
  BY DEF FileInv, HistoryOK, TypeOK
<1>3. content'[p] = data
  BY <1>1 DEF StoreAt, Put
<1> HIDE DEF p
<1>4. /\ DOMAIN latest'[ino] = DOMAIN latest[ino] \cup {bix} /\ latest'[ino][bix] = p
      /\ \A b \in DOMAIN latest[ino] : b # bix => latest'[ino][b] = latest[ino][b]
  BY <1>1, <1>2 DEF Put
<1>5. UNCHANGED flush_i /\ \A i \in Inos : i # ino => di_used_bytes'[i] = di_used_bytes[i]
  BY <1>1, <1>2 DEF SegmentWrite, GrowInode
<1>6. \A i \in Inos : i # ino => latest'[i] = latest[i]
  BY <1>1, <1>2
<1> QED
  BY <1>1, <1>3, <1>4, <1>5, <1>6 DEF Adds

Stores(ino, bix, data) == FilesKept' /\ Carries /\ Adds(ino, bix, data)

\* Blocks are written to the segment file, inodes to the inode file.
OfKind(ino, type) == <<ino, type>> \in {<<SEGFILE, "block">>, <<MASTER, "inode">>}

LEMMA WriteKeepsFiles ==
    ASSUME OffsetsFit', FileInv,
           NEW n \in Nat, StoreBelow(n), lastseg' <= n, FilesKept,
           NEW type \in Types, NEW ino \in Inos, NEW bix \in Nat,
           bix <= Factor ^ MaskLevels, NEW data, NEW s \in Segs,
           FileWrite(type, ino, bix, data, s), ino \notin flushed, flushing = None,
           OfKind(ino, type)
    PROVE  Stores(ino, bix, data)
<1>1. ContentHeld /\ FileKept(SEGFILE, "block") /\ FileKept(MASTER, "inode")
  BY DEF FilesKept
<1>2. Adds(ino, bix, data)
  BY WriteAdds
<1>3. /\ SegmentWrite(type, ino, bix, 0, s) /\ StoreAt(AreaOf(ino, 0), s, data)
      /\ HistoryOK /\ NodesOK
  BY DEF FileWrite, FileInv
<1>4. Carries /\ ContentHeld'
  BY <1>1, <1>3, TreeConstants, WriteCarries
<1>5. FileKept(ino, type)'
  <2>1. FileKept(ino, type)
    BY <1>1 DEF OfKind
  <2> QED
    BY <1>1, <2>1, FileWriteKeeps
<1>6. ASSUME NEW i \in Inos, NEW t, i # ino, FileKept(i, t)
      PROVE  FileKept(i, t)'
  BY <1>2, <1>3, <1>4, <1>6, OtherKept DEF Adds
<1> QED
  BY <1>1, <1>2, <1>4, <1>5, <1>6, TreeConstants DEF FilesKept, Stores, OfKind

\* What was written of the inode of the segment file stays when other inodes follow.
LEMMA InodeStays ==
    ASSUME FileInv, InodeWritten, Carries, NEW ino \in Inos, ino # SEGFILE,
           NEW data, Adds(MASTER, ino, data)
    PROVE  InodeWritten'
<1>1. /\ SEGFILE \in DOMAIN latest[MASTER]
      /\ latest'[MASTER][SEGFILE] = latest[MASTER][SEGFILE]
      /\ SEGFILE \in DOMAIN latest'[MASTER]
  BY DEF InodeWritten, Adds
<1>2. latest[MASTER][SEGFILE] \in DOMAIN content
  BY <1>1, TreeConstants DEF FileInv, HistoryOK
<1>3. content'[latest'[MASTER][SEGFILE]] = content[latest[MASTER][SEGFILE]]
  BY <1>1, <1>2 DEF Carries
<1>4. inode'[SEGFILE] = inode[SEGFILE] /\ di_used_bytes'[SEGFILE] = di_used_bytes[SEGFILE]
  BY TreeConstants DEF Adds
<1> QED
  BY <1>1, <1>3, <1>4 DEF InodeWritten, Inode

\* The blocks of the segment file are written from the first one on.
LEMMA SegfileWrites ==
    ASSUME Fits', MkfsInv, PlaceInv, RoomInv, WriteInv, ~exited, Roomy',
           NEW s \in Segs, WriteSegfile(s)
    PROVE  FilesKept' /\ AreasFlushed' /\ Phase'
<1>1. Writing /\ Work /\ FileInv /\ blk \in Nat /\ pc = "segfile" /\ pc' = "segfile"
  BY WriteWorks DEF WriteSegfile, Writing, MkfsInv
<1>2. FilesKept /\ SegfileBegun /\ flush_i = 0
  BY <1>1, RoomToWrite DEF Phase
<1>3. PICK n \in Nat : StoreBelow(n) /\ lastseg' <= n
  BY <1>1, RoomToWrite
<1>4. PICK b \in Nat : b = blk
  BY <1>1
<1>5. /\ FileWrite("block", SEGFILE, b, Payload, s) /\ blk' = b + 1 /\ b \in SegfileBlocks
  BY <1>4 DEF WriteSegfile
<1>6. b <= Factor ^ MaskLevels
  BY <1>5, SegfileBlocksFit DEF SegfileBlocks
<1>7. OffsetsFit' /\ flushing = None /\ flushed = {}
  BY <1>2 DEF Fits, SegfileBegun
<1>8. FilesKept' /\ Carries /\ Adds(SEGFILE, b, Payload)
  <2>1. OfKind(SEGFILE, "block") /\ SEGFILE \notin flushed
    BY <1>7 DEF OfKind
  <2>2. Stores(SEGFILE, b, Payload)
    BY <1>1, <1>2, <1>3, <1>5, <1>6, <1>7, <2>1, TreeConstants, WriteKeepsFiles
  <2> QED
    BY <2>2 DEF Stores
<1>9. LeadInv'
  BY <1>1, <1>2, <1>3, <1>5, <1>6, <1>7, TreeConstants, FileWriteLeads DEF SegfileBegun
<1>10. DOMAIN latest'[SEGFILE] = 0 .. blk' - 1 /\ DOMAIN latest'[SEGFILE] \subseteq SegfileBlocks
  <2>1. DOMAIN latest'[SEGFILE] = (0 .. b - 1) \cup {b}
    BY <1>2, <1>4, <1>8 DEF Adds, SegfileBegun
  <2>2. (0 .. b - 1) \cup {b} = 0 .. (b + 1) - 1
    OBVIOUS
  <2> QED
    BY <1>2, <1>4, <1>5, <2>1, <2>2 DEF SegfileBegun
<1>11. flushing' = None /\ flushed' = {} /\ flush_i' = 0
  BY <1>2, <1>7, <1>8 DEF Adds
<1>12. SegfileBegun'
  BY <1>9, <1>10, <1>11 DEF SegfileBegun
<1>13. AreasFlushed'
  BY <1>11 DEF AreasFlushed, Areas
<1> QED
  BY <1>1, <1>8, <1>11, <1>12, <1>13 DEF Phase

\* The loop ends behind the last block of the file.
LEMMA SegfileEnds ==
    ASSUME NEW b \in 0 .. NoSegs, b \notin SegfileBlocks, 0 .. b - 1 \subseteq SegfileBlocks
    PROVE  0 .. b - 1 = SegfileBlocks
<1>1. NoSegs \in Nat /\ Factor \in Nat
  BY MkfsConstants, Constants
<1>2. ~(b * Factor < NoSegs)
  BY DEF SegfileBlocks
<1>3. ASSUME NEW c \in SegfileBlocks PROVE c < b
  <2>1. c \in Nat /\ c * Factor < NoSegs
    BY DEF SegfileBlocks
  <2>2. ASSUME ~(c < b) PROVE FALSE
    <3>1. b \in Nat /\ c - b \in Nat
      BY <1>1, <2>1, <2>2
    <3>2. (c - b) * Factor \in Nat /\ b * Factor \in Nat
      BY <1>1, <3>1
    <3>3. c * Factor = b * Factor + (c - b) * Factor
      BY <1>1, <2>1, <3>1
    <3> QED
      BY <1>1, <1>2, <2>1, <3>2, <3>3
  <2> QED
    BY <2>2
<1>4. \A c \in SegfileBlocks : c \in 0 .. b - 1
  BY <1>1, <1>3 DEF SegfileBlocks
<1> QED
  BY <1>4

\* The call of logfs_file_flush, which ends at once for a small segment file.
LEMMA FlushBegins ==
    ASSUME MkfsInv, PlaceInv, RoomInv, WriteInv, ~exited, Roomy', FlushSegfile
    PROVE  FilesKept' /\ AreasFlushed' /\ Phase'
<1>1. Writing /\ Work /\ FileInv /\ pc = "segfile" /\ pc' = "segflush"
  BY FlushWorks DEF FlushSegfile, Writing, MkfsInv
<1>2. FilesKept /\ SegfileBegun /\ flush_i = 0
  BY <1>1, RoomToWrite DEF Phase
<1>3. /\ UNCHANGED <<medium, area, flush_i, exited, inode, content, latest>>
      /\ \/ inode[SEGFILE].di_height = 0 /\ flushed' = flushed \cup {SEGFILE} /\ UNCHANGED flushing
         \/ flushing' = SEGFILE /\ UNCHANGED flushed
      /\ blk \in 0 .. NoSegs /\ blk \notin SegfileBlocks
  BY DEF FlushSegfile, StartFlush, segVars, MkfsInv
<1>4. NodesOK /\ HistoryOK /\ flushing = None /\ flushed = {}
  BY <1>1, <1>2 DEF FileInv, SegfileBegun
<1>5. Carries /\ ContentHeld'
  BY <1>2, <1>3, IdleCarries DEF FilesKept
<1>6. FileKept(MASTER, "inode")'
  <2>1. MASTER \in flushed' <=> MASTER \in flushed
    BY <1>3, TreeConstants
  <2> QED
    BY <1>2, <1>3, <1>4, <1>5, <2>1, TreeConstants, OtherKept DEF FilesKept
<1>7. FileKept(SEGFILE, "block")'
  <2>1. CASE inode[SEGFILE].di_height = 0
    BY <1>2, <1>3, <1>4, <1>5, <2>1, TreeConstants, EmptyFlushKeeps DEF FilesKept
  <2>2. CASE inode[SEGFILE].di_height # 0
    <3>1. SEGFILE \in flushed' <=> SEGFILE \in flushed
      BY <1>3, <2>2
    <3> QED
      BY <1>2, <1>3, <1>4, <1>5, <3>1, TreeConstants, OtherKept DEF FilesKept
  <2> QED
    BY <2>1, <2>2
<1>8. LeadInv'
  <2>1. UNCHANGED Live
    BY <1>3 DEF Live
  <2> QED
    BY <1>2, <1>3, <2>1, IdleLeads DEF SegfileBegun
<1>9. SegfileWritten'
  BY <1>2, <1>3, SegfileEnds DEF SegfileBegun, SegfileWritten
<1>10. SegfileFlushing'
  BY <1>3, <1>4, <1>8, <1>9 DEF SegfileFlushing
<1>11. AreasFlushed'
  BY <1>2, <1>3 DEF AreasFlushed, Areas
<1> QED
  BY <1>1, <1>2, <1>3, <1>5, <1>6, <1>7, <1>10, <1>11 DEF FilesKept, Phase

\* A turn of the flush.
LEMMA FlushTurns ==
    ASSUME Fits', MkfsInv, PlaceInv, RoomInv, WriteInv, ~exited, Roomy',
           NEW s \in Segs, FlushStep(s)
    PROVE  FilesKept' /\ AreasFlushed' /\ Phase'
<1>1. /\ Writing /\ Work /\ FileInv /\ pc = "segflush" /\ pc' = "segflush"
      /\ FlushBlock(s) \/ FlushRoot(s)
  BY FlushWorks DEF FlushStep, Writing, MkfsInv, mkfsVars
<1>2. FilesKept /\ SegfileFlushing /\ flush_i = 0
  BY <1>1, RoomToWrite DEF Phase
<1>3. PICK n \in Nat : StoreBelow(n) /\ lastseg' <= n
  BY <1>1, RoomToWrite
<1>4. /\ flushing = SEGFILE /\ flushed = {} /\ flushing # None
      /\ UNCHANGED <<flush_i, latest>>
  BY <1>1, <1>2 DEF FlushBlock, FlushRoot, SegfileFlushing, SegmentWrite
<1>5. LeadInv /\ ContentHeld /\ FileKept(SEGFILE, "block") /\ FileKept(MASTER, "inode")
      /\ OffsetsFit' /\ NodesOK /\ HistoryOK
  BY <1>1, <1>2 DEF FilesKept, SegfileFlushing, Fits, FileInv
<1>6. PICK ino \in Inos, level \in TreeLevels, top \in Nat, p \in Nat :
         /\ Flushes(ino, level, top, p)
         /\ FlushesUp(ino, level, top, p) \/ FlushesInto(ino, level, top, p)
  BY <1>1, <1>3, <1>5, FlushTurn
<1>7. /\ ino = SEGFILE /\ ino \notin flushed /\ Carries /\ ContentHeld'
  BY <1>4, <1>6 DEF Flushes
<1>8. FileKept(SEGFILE, "block")'
  BY <1>5, <1>6, <1>7, FlushUpKeeps, FlushIntoKeeps
<1>9. /\ inode'[MASTER] = inode[MASTER]
      /\ \/ flushing' = SEGFILE /\ flushed' = {}
         \/ flushing' = None /\ flushed' = {SEGFILE}
  BY <1>4, <1>5, <1>6, <1>7, TreeConstants DEF FlushesUp, FlushesInto, NodesOK
<1>10. FileKept(MASTER, "inode")'
  <2>1. MASTER \in flushed' <=> MASTER \in flushed
    BY <1>4, <1>9, TreeConstants
  <2>2. latest'[MASTER] = latest[MASTER] /\ flushing # MASTER
    BY <1>4, TreeConstants
  <2> QED
    BY <1>5, <1>7, <1>9, <2>1, <2>2, TreeConstants, OtherKept
<1>11. LeadInv'
  BY <1>1, <1>3, <1>5, FlushLeads
<1>12. SegfileFlushing'
  BY <1>2, <1>4, <1>9, <1>11 DEF SegfileFlushing, SegfileWritten
<1>13. AreasFlushed'
  BY <1>2, <1>4 DEF AreasFlushed, Areas
<1> QED
  BY <1>1, <1>2, <1>4, <1>7, <1>8, <1>10, <1>12, <1>13 DEF FilesKept, Phase

\* An inode is written when the segment file has been flushed.
LEMMA InodeWrites ==
    ASSUME Fits', MkfsInv, PlaceInv, RoomInv, WriteInv, ~exited, Roomy',
           NEW s \in Segs, WriteSegfileInode(s) \/ WriteRootdir(s)
    PROVE  FilesKept' /\ AreasFlushed' /\ Phase'
<1>1. Writing /\ Work /\ FileInv /\ pc \in {"segflush", "rootdir"}
  BY WriteWorks DEF WriteSegfileInode, SegfileDone, WriteRootdir, Writing, MkfsInv
<1>2. FilesKept /\ Phase /\ flush_i = 0
  BY <1>1, RoomToWrite DEF Phase
<1>3. PICK n \in Nat : StoreBelow(n) /\ lastseg' <= n
  BY <1>1, RoomToWrite
<1>4. SegfileWritten /\ flushing = None /\ flushed = {SEGFILE}
  <2>1. SEGFILE # None
    BY TreeConstants DEF None
  <2>2. CASE WriteSegfileInode(s)
    <3>1. pc = "segflush" /\ flushing = None
      BY <2>2 DEF WriteSegfileInode, SegfileDone
    <3> QED
      BY <1>2, <2>1, <3>1 DEF Phase, SegfileFlushing
  <2>3. CASE WriteRootdir(s)
    <3>1. pc = "rootdir"
      BY <2>3 DEF WriteRootdir
    <3> QED
      BY <1>2, <3>1 DEF Phase, SegfileStored
  <2> QED
    BY <2>2, <2>3
<1>5. ASSUME NEW ino \in {ROOT, SEGFILE}, WriteInode(ino, s)
      PROVE  FilesKept' /\ Carries /\ Adds(MASTER, ino, Inode(ino))
  <2>1. PICK data : data = Inode(ino)
    OBVIOUS
  <2>2. FileWrite("inode", MASTER, ino, data, s) /\ ino \in Nat
        /\ ino <= Factor ^ MaskLevels /\ OffsetsFit'
    BY <1>5, <2>1, MkfsConstants DEF WriteInode, Fits
  <2>3. OfKind(MASTER, "inode") /\ MASTER \notin flushed
    BY <1>4, TreeConstants DEF OfKind
  <2>4. Stores(MASTER, ino, data)
    BY <1>1, <1>2, <1>3, <1>4, <2>2, <2>3, TreeConstants, WriteKeepsFiles
  <2> QED
    BY <2>1, <2>4 DEF Stores
<1>6. ASSUME NEW ino, NEW data, Adds(MASTER, ino, data)
      PROVE  /\ flushing' = None /\ flushed' = {SEGFILE} /\ flush_i' = 0
             /\ SegfileWritten' /\ AreasFlushed'
  <2>1. flushing' = None /\ flushed' = {SEGFILE} /\ flush_i' = 0
    BY <1>2, <1>4, <1>6 DEF Adds
  <2>2. latest'[SEGFILE] = latest[SEGFILE]
    BY <1>6, TreeConstants DEF Adds
  <2> QED
    BY <1>4, <2>1, <2>2 DEF SegfileWritten, AreasFlushed, Areas
<1>7. CASE WriteSegfileInode(s)
  <2>1. WriteInode(SEGFILE, s) /\ pc' = "rootdir"
    BY <1>7 DEF WriteSegfileInode
  <2>2. FilesKept' /\ Adds(MASTER, SEGFILE, Inode(SEGFILE))
    BY <1>5, <2>1
  <2>3. InodeWritten'
    BY <2>2, TreeConstants DEF Adds, InodeWritten, Inode
  <2> QED
    BY <1>6, <2>1, <2>2, <2>3 DEF Phase, SegfileStored
<1>8. CASE WriteRootdir(s)
  <2>1. WriteInode(ROOT, s) /\ pc' = "flush" /\ pc = "rootdir"
    BY <1>8 DEF WriteRootdir
  <2>2. FilesKept' /\ Carries /\ Adds(MASTER, ROOT, Inode(ROOT))
    BY <1>5, <2>1
  <2>3. InodeWritten'
    BY <1>1, <1>2, <2>1, <2>2, TreeConstants, InodeStays DEF Phase, SegfileStored
  <2>4. ROOT \in DOMAIN latest'[MASTER]
    BY <2>2 DEF Adds
  <2> QED
    BY <1>6, <2>1, <2>2, <2>3, <2>4 DEF Phase, SegfileStored
<1> QED
  BY <1>7, <1>8

----------------------------------------------------------------------------
(* The areas go to the device                                              *)

\* flush_segments: one area more is on the device, and the others are still there.
LEMMA AreaFlushes ==
    ASSUME TypeOK, NEW n, OwnedBelow(n), AreasFlushed, FlushArea
    PROVE  AreasFlushed'
<1>1. /\ flush_i \in Areas /\ flush_i' = flush_i + 1 /\ UNCHANGED area /\ ~exited
      /\ area[flush_i].open => medium' = MediumAfterFinish(flush_i)
      /\ ~area[flush_i].open => UNCHANGED medium
  BY DEF FlushArea
<1> SUFFICES ASSUME NEW l \in Areas, area[l].open, l < flush_i + 1
             PROVE  medium'[area[l].segno] = Ostore(l, area[l].buf)
  BY <1>1 DEF AreasFlushed
<1>2. area[l].segno \in Segs /\ medium \in [Segs -> SegmentType]
  BY DEF TypeOK
<1>3. l \in Int /\ flush_i \in Int
  BY <1>1 DEF Areas
<1>4. CASE l = flush_i
  BY <1>1, <1>2, <1>4 DEF MediumAfterFinish
<1>5. CASE l < flush_i
  <2>1. medium[area[l].segno] = Ostore(l, area[l].buf)
    BY <1>5 DEF AreasFlushed
  <2>2. area[flush_i].open => area[l].segno # area[flush_i].segno
    BY <1>1, <1>3, <1>5 DEF OwnedBelow
  <2> QED
    BY <1>1, <1>2, <2>1, <2>2 DEF MediumAfterFinish
<1> QED
  BY <1>3, <1>4, <1>5

LEMMA AreaFlushStep ==
    ASSUME MkfsInv, PlaceInv, RoomInv, WriteInv, ~exited, Roomy', FlushSegments
    PROVE  FilesKept' /\ AreasFlushed' /\ Phase'
<1>1. Writing /\ Work /\ FileInv /\ pc = "flush" /\ pc' = "flush"
      /\ FlushArea /\ UNCHANGED <<fileVars, di_used_bytes>>
  BY OtherWorks DEF FlushSegments, Writing, MkfsInv, mkfsVars, FlushArea
<1>2. FilesKept /\ AreasFlushed /\ SegfileStored /\ ROOT \in DOMAIN latest[MASTER]
  BY <1>1, RoomToWrite DEF Phase
<1>3. PICK n \in Nat : StoreBelow(n) /\ lastseg' <= n
  BY <1>1, RoomToWrite
<1>4. /\ [StoreNext]_segVars /\ ~exited' /\ TypeOK /\ OwnedBelow(n)
      /\ UNCHANGED <<inode, flushing, flushed, content, latest>>
  BY <1>1, <1>3 DEF StoreNext, FlushArea, StoreBelow, fileVars
<1>5. Carries /\ ContentHeld'
  <2>1. \A p, type, ino, bix : \A m \in Areas :
           Held(p, m, type, ino, bix) => Held(p, m, type, ino, bix)'
    BY <1>3, <1>4, StoreHeld
  <2>2. \A m \in Areas, t \in Segs, o \in Object : Holds(m, t, o) => Holds(m, t, o)'
    BY <1>3, <1>4, StoreHolds
  <2> QED
    BY <1>2, <1>4, <2>1, <2>2 DEF Carries, FilesKept, ContentHeld
<1>6. \A i \in Inos : \A type : FileKept(i, type) => FileKept(i, type)'
  BY <1>1, <1>4, <1>5, OtherKept DEF FileInv
<1>7. FilesKept'
  BY <1>2, <1>5, <1>6, TreeConstants DEF FilesKept
<1>8. SegfileStored'
  BY <1>1, <1>2, <1>4 DEF SegfileStored, SegfileWritten, InodeWritten, Inode
<1>9. AreasFlushed'
  BY <1>1, <1>2, <1>4, AreaFlushes
<1> QED
  BY <1>1, <1>2, <1>4, <1>7, <1>8, <1>9 DEF Phase

----------------------------------------------------------------------------
(* The invariant while the files are written                               *)

LEMMA WriteIdle ==
    ASSUME MkfsInv, WriteInv, Writing, ~exited, Roomy, UNCHANGED vars
    PROVE  FilesKept' /\ AreasFlushed' /\ Phase'
<1>1. /\ UNCHANGED <<medium, area, flush_i, exited, di_used_bytes, blk, pc>>
      /\ UNCHANGED <<content, inode, latest, flushing, flushed>>
  BY DEF vars, segVars, fileVars, mkfsVars
<1>2. FilesKept /\ AreasFlushed /\ Phase /\ NodesOK
  BY DEF WriteInv, MkfsInv, FileInv
<1>3. Carries /\ ContentHeld'
  BY <1>1, <1>2, IdleCarries DEF FilesKept
<1>4. FilesKept'
  BY <1>1, <1>2, <1>3, OtherKept, TreeConstants DEF FilesKept
<1>5. AreasFlushed'
  BY <1>1, <1>2 DEF AreasFlushed
<1>6. LeadInv => LeadInv'
  <2>1. UNCHANGED Live
    BY <1>1 DEF Live
  <2> QED
    BY <1>1, <2>1, IdleLeads
<1>7. Phase'
  BY <1>1, <1>2, <1>6 DEF Phase, SegfileBegun, SegfileFlushing, SegfileStored, SegfileWritten,
                          InodeWritten, Inode
<1> QED
  BY <1>4, <1>5, <1>7

LEMMA WriteInvStep ==
    ASSUME Fits', MkfsInv, PlaceInv, RoomInv, WriteInv, [MkfsNext]_vars
    PROVE  WriteInv'
<1> SUFFICES ASSUME Writing', ~exited', Roomy'
             PROVE  FilesKept' /\ AreasFlushed' /\ Phase'
  BY StillFresh DEF WriteInv
<1> DEFINE Goal == FilesKept' /\ AreasFlushed' /\ Phase'
<1>1. ASSUME NEW s \in Segs, PrepareSb1(s) \/ MtdSb2(s) PROVE FALSE
  BY <1>1 DEF PrepareSb1, MtdSb2, Writing
<1>2. ASSUME NEW s \in Segs, PrepareJournal(s) PROVE Goal
  BY <1>2, BeginWrites
<1>3. ASSUME NEW s \in Segs, WriteSegfile(s) PROVE Goal
  <2>1. ~exited
    BY <1>3 DEF WriteSegfile, FileWrite, SegmentWrite
  <2> QED
    BY <1>3, <2>1, SegfileWrites
<1>4. ASSUME NEW s \in Segs, FlushStep(s) PROVE Goal
  <2>1. ~exited
    BY <1>4 DEF FlushStep, FlushBlock, FlushRoot, SegmentWrite
  <2> QED
    BY <1>4, <2>1, FlushTurns
<1>5. ASSUME NEW s \in Segs, WriteSegfileInode(s) \/ WriteRootdir(s) PROVE Goal
  <2>1. ~exited
    BY <1>5 DEF WriteSegfileInode, WriteRootdir, WriteInode, FileWrite, SegmentWrite
  <2> QED
    BY <1>5, <2>1, InodeWrites
<1>6. ASSUME FlushSegfile PROVE Goal
  <2>1. ~exited
    BY <1>6 DEF FlushSegfile, StartFlush
  <2> QED
    BY <1>6, <2>1, FlushBegins
<1>7. ASSUME FlushSegments PROVE Goal
  <2>1. ~exited
    BY <1>7 DEF FlushSegments, FlushArea
  <2> QED
    BY <1>7, <2>1, AreaFlushStep
<1>8. ASSUME BdevSb2 \/ MtdSb2Fails \/ ReserveSegmentFails PROVE FALSE
  BY <1>8 DEF BdevSb2, MtdSb2Fails, ReserveSegmentFails, ReserveFails, NoSegmentLeft, Writing
<1>9. ASSUME FileWriteError \/ FlushSegmentsFails PROVE FALSE
  BY <1>9 DEF FileWriteError, FlushSegmentsFails, FileWriteFails, FileFlushFails,
              SegmentWriteFails, FlushFails, WriteError, NoSegmentLeft
<1>10. ASSUME MakeJournal \/ MakeJournalFails \/ JournalBug \/ ScratchOverrun
              \/ MakeSuper1 \/ MakeSuper2 \/ MkfsHalt
       PROVE  FALSE
  BY <1>10 DEF MakeJournal, MakeJournalFails, JournalBug, ScratchOverrun, MakeSuper1,
               MakeSuper2, MkfsHalt, Halt, Writing
<1>11. ASSUME UNCHANGED vars PROVE Goal
  <2>1. Writing /\ ~exited /\ Roomy
    BY <1>11 DEF vars, segVars, mkfsVars, Writing, Roomy, SbSegment
  <2> QED
    BY <1>11, <2>1, WriteIdle
<1> HIDE DEF Goal
<1>12. ASSUME NEW s \in Segs,
              \/ PrepareSb1(s) \/ MtdSb2(s) \/ PrepareJournal(s)
              \/ WriteSegfile(s) \/ FlushStep(s)
              \/ WriteSegfileInode(s) \/ WriteRootdir(s)
       PROVE  Goal
  BY <1>1, <1>2, <1>3, <1>4, <1>5, <1>12
<1>13. ASSUME \/ BdevSb2 \/ MtdSb2Fails \/ ReserveSegmentFails
              \/ FlushSegfile \/ FileWriteError
              \/ FlushSegments \/ FlushSegmentsFails
       PROVE  Goal
  BY <1>6, <1>7, <1>8, <1>9, <1>13
<1>14. Goal
  BY <1>10, <1>11, <1>12, <1>13 DEF MkfsNext
<1> QED
  BY <1>14 DEF Goal

----------------------------------------------------------------------------
(* What a mount finds                                                      *)

\* The files as they are kept when mkfs() comes to the journal.
HeldTree ==
    /\ \A ino \in {ROOT, SEGFILE} :
          Held(inode[MASTER].di_data[ino], MaxLevels, "inode", MASTER, ino)
    /\ content[inode[MASTER].di_data[SEGFILE]] = Inode(SEGFILE)
    /\ \A b \in SegfileBlocks :
          /\ Held(Lookup(Inode(SEGFILE), b), 0, "block", SEGFILE, b)
          /\ b >= I0 => \A l \in 1 .. inode[SEGFILE].di_height :
                Held(Path(Inode(SEGFILE), b)[l], l, "block", SEGFILE, ParentBix(b, l))

\* A block with indirect blocks above it, on the reader's way down.
LEMMA WayHeld ==
    ASSUME FileInv, NEW bix \in Nat, Rooted(SEGFILE, "block", bix),
           NEW di, di.height = inode[SEGFILE].di_height, di.ptr = inode[SEGFILE].di_data
    PROVE  /\ Held(Path(di, bix)[0], 0, "block", SEGFILE, bix)
           /\ \A l \in 1 .. inode[SEGFILE].di_height :
                 Held(Path(di, bix)[l], l, "block", SEGFILE, ParentBix(bix, l))
<1>1. PICK H \in 0 .. MaskLevels : H = inode[SEGFILE].di_height
  BY TreeConstants, NodeFacts DEF FileInv, NodesOK
<1>2. PICK f \in [Nat -> Nat] : Chain(SEGFILE, "block", bix, H, f) /\ f[H] = di.ptr[I0]
  BY <1>1 DEF Rooted
<1>3. Meets(di, bix, H, f)
  BY <1>1, <1>2, ReaderFollows
<1>4. H \in Nat /\ MaxLevels \in Nat /\ 0 \in 0 .. H
  BY <1>1, Constants
<1>5. \A l : AreaOf(SEGFILE, l) = l
  BY TreeConstants DEF AreaOf
<1>6. Held(Path(di, bix)[0], 0, "block", SEGFILE, bix)
  <2>1. Path(di, bix)[0] = f[0]
    BY <1>3, <1>4 DEF Meets
  <2> QED
    BY <1>2, <1>5, <2>1 DEF Chain
<1>7. ASSUME NEW l \in 1 .. H
      PROVE  Held(Path(di, bix)[l], l, "block", SEGFILE, ParentBix(bix, l))
  <2>1. l \in 0 .. H /\ l - 1 \in 0 .. H - 1 /\ l - 1 + 1 = l
    BY <1>4
  <2>2. Path(di, bix)[l] = f[l]
    BY <1>3, <2>1 DEF Meets
  <2>3. Link(f[l - 1 + 1], SEGFILE, bix, l - 1, f[l - 1])
    BY <1>2, <2>1 DEF Chain
  <2> QED
    BY <1>5, <2>1, <2>2, <2>3 DEF Link
<1> QED
  BY <1>1, <1>6, <1>7

LEMMA InodesHeld ==
    ASSUME FilesKept, SegfileStored, ROOT \in DOMAIN latest[MASTER]
    PROVE  /\ \A ino \in {ROOT, SEGFILE} :
                 Held(inode[MASTER].di_data[ino], MaxLevels, "inode", MASTER, ino)
           /\ content[inode[MASTER].di_data[SEGFILE]] = Inode(SEGFILE)
<1>1. ASSUME NEW ino \in {ROOT, SEGFILE}
      PROVE  /\ inode[MASTER].di_data[ino] = latest[MASTER][ino]
             /\ Held(inode[MASTER].di_data[ino], MaxLevels, "inode", MASTER, ino)
  <2>1. ino \in DOMAIN latest[MASTER] /\ ino < I0
    BY TreeConstants DEF SegfileStored, InodeWritten
  <2>2. Direct(MASTER, "inode", ino)
    BY <2>1 DEF FilesKept, FileKept, BlockKept
  <2>3. AreaOf(MASTER, 0) = MaxLevels
    BY Constants DEF AreaOf
  <2> QED
    BY <2>2, <2>3 DEF Direct
<1>2. content[inode[MASTER].di_data[SEGFILE]] = Inode(SEGFILE)
  BY <1>1 DEF SegfileStored, InodeWritten
<1> QED
  BY <1>1, <1>2

LEMMA TreeIsHeld ==
    ASSUME Reachable, FileInv, FilesKept, SegfileStored, ROOT \in DOMAIN latest[MASTER]
    PROVE  HeldTree
<1>1. PICK di : di = Inode(SEGFILE)
  OBVIOUS
<1>2. di.height = inode[SEGFILE].di_height /\ di.ptr = inode[SEGFILE].di_data
  BY <1>1 DEF Inode
<1>3. ASSUME NEW b \in SegfileBlocks
      PROVE  /\ Held(Lookup(di, b), 0, "block", SEGFILE, b)
             /\ b >= I0 => \A l \in 1 .. inode[SEGFILE].di_height :
                   Held(Path(di, b)[l], l, "block", SEGFILE, ParentBix(b, l))
  <2>1. b \in Nat /\ I0 \in Nat /\ b \in DOMAIN latest[SEGFILE]
    BY TreeConstants DEF SegfileBlocks, SegfileStored, SegfileWritten
  <2>2. BlockKept(SEGFILE, "block", b)
    BY <2>1 DEF FilesKept, FileKept
  <2>3. CASE b < I0
    <3>1. Direct(SEGFILE, "block", b) /\ AreaOf(SEGFILE, 0) = 0 /\ ~(b >= I0)
      BY <2>1, <2>2, <2>3, TreeConstants DEF BlockKept, AreaOf
    <3> QED
      BY <1>2, <2>3, <3>1 DEF Direct, Lookup
  <2>4. CASE b >= I0
    <3>1. ~Boundary(SEGFILE)
      BY DEF Boundary, Reachable, SegfileStored, SegfileWritten
    <3>2. Rooted(SEGFILE, "block", b)
      BY <2>2, <2>4, <3>1 DEF BlockKept, SegfileStored
    <3>3. ~(b < I0)
      BY <2>1, <2>4
    <3> QED
      BY <1>2, <2>1, <3>2, <3>3, WayHeld DEF Lookup
  <2> QED
    BY <2>1, <2>3, <2>4
<1> QED
  BY <1>1, <1>3, InodesHeld DEF HeldTree

\* flush_segments has come to its end: no area is left to write.
AllOut ==
    \A l \in Areas : area[l].open => medium[area[l].segno] = Ostore(l, area[l].buf)

\* The store is finite, so is a segment of it.
LEMMA ObjectsFinite ==
    ASSUME TypeOK, IsFiniteSet(Live), NEW t \in Segs
    PROVE  medium[t].objs \in SUBSET Object /\ IsFiniteSet(medium[t].objs)
<1>1. PICK objs : objs = medium[t].objs
  OBVIOUS
<1>2. objs \in SUBSET Object
  BY <1>1 DEF TypeOK, SegmentType
<1> DEFINE f == [o \in objs |-> <<t, o>>]
<1>3. \A o \in objs : <<t, o>> \in Live
  BY <1>1, <1>2, LiveIs DEF LiveShape, In
<1>4. f \in Injection(objs, Live)
  BY <1>3 DEF Injection, IsInjective
<1>5. IsFiniteSet(objs)
  BY <1>4, FS_Injection
<1> QED
  BY <1>1, <1>2, <1>5

\* The journal goes to a segment without objects.
LEMMA JournalKeepsStore ==
    ASSUME Fits, MkfsInv, PlaceInv, RoomInv, Roomy, MakeJournal, NEW t \in Segs
    PROVE  /\ t = JournalSegment => medium[t].kind # "ostore" /\ medium'[t] = Journal
           /\ t # JournalSegment => medium'[t] = medium[t]
<1>1. /\ ~Early /\ ~Late /\ ~exited /\ ~Preparing
      /\ medium' = [medium EXCEPT ![JournalSegment] = Journal]
  BY DEF MakeJournal, Early, Late, Preparing
<1>2. TypeOK /\ ValidExact /\ LiveInv /\ JournalReserved
  BY <1>1 DEF RoomInv, StoreBelow
<1>3. JournalSegment \in Segs /\ JournalSegment = journal_seg[1]
  BY <1>1, JournalSegmentIs DEF Fits
<1>4. segment_entry[JournalSegment] = ReservedEntry
  <2>1. Len(journal_seg) \in Nat /\ Len(journal_seg) > 0
    BY <1>1 DEF PlaceInv, MkfsInv
  <2> QED
    BY <1>2, <1>3, <2>1 DEF JournalReserved
<1>5. medium[JournalSegment].kind # "ostore"
  <2> SUFFICES ASSUME medium[JournalSegment].kind = "ostore" PROVE FALSE
    OBVIOUS
  <2>1. segment_entry[JournalSegment].valid = BytesOf(medium[JournalSegment].objs)
    BY <1>1, <1>2, <1>3 DEF ValidExact
  <2>2. PICK objs : objs = medium[JournalSegment].objs
    OBVIOUS
  <2>3. objs \in SUBSET Object
    BY <1>2, <1>3, <2>2 DEF TypeOK, SegmentType
  <2>4. IsFiniteSet(objs)
    BY <1>1, <1>2, <1>3, <2>2, ObjectsFinite DEF LiveInv
  <2>5. BytesOf(objs) \in Nat
    BY <2>3, <2>4, BytesOfNat
  <2> QED
    BY <1>4, <2>1, <2>2, <2>5 DEF ReservedEntry, RESERVED
<1> QED
  BY <1>1, <1>2, <1>3, <1>5 DEF TypeOK

----------------------------------------------------------------------------
(* When the journal is written                                             *)

\* What is held when the areas are out is on the device, and the journal leaves it.
LEMMA HeldIsOnMedium ==
    ASSUME Fits, MkfsInv, PlaceInv, RoomInv, Roomy, MakeJournal, AllOut,
           NEW l \in Areas, NEW p, NEW type, NEW ino, NEW bix, Held(p, l, type, ino, bix)
    PROVE  OnMedium(p, type, ino, bix, l)'
<1>1. PICK t \in Segs, o \in Object :
         /\ Holds(l, t, o) /\ p = t * SegSize + o.pos
         /\ o.type = type /\ o.ino = ino /\ o.bix = bix
  BY DEF Held
<1>2. medium[t].kind = "ostore" /\ medium[t].level = l /\ o \in medium[t].objs
  <2>1. CASE medium[t].kind = "ostore" /\ medium[t].level = l /\ o \in medium[t].objs
    BY <2>1
  <2>2. CASE area[l].open /\ area[l].segno = t /\ o \in area[l].buf
    <3>1. medium[t] = Ostore(l, area[l].buf)
      BY <2>2 DEF AllOut
    <3> QED
      BY <2>2, <3>1 DEF Ostore
  <2> QED
    BY <1>1, <2>1, <2>2 DEF Holds
<1>3. medium'[t] = medium[t]
  BY <1>2, JournalKeepsStore
<1> QED
  BY <1>1, <1>2, <1>3 DEF OnMedium

LEMMA SameWay ==
    ASSUME content' = content, NEW di, NEW bix
    PROVE  Path(di, bix)' = Path(di, bix) /\ Lookup(di, bix)' = Lookup(di, bix)
  BY DEF Path, Lookup, Deref

\* The state in which the journal is written.
LEMMA AllIsOut ==
    ASSUME MkfsInv, WriteInv, Roomy, MakeJournal
    PROVE  /\ FilesKept /\ SegfileStored /\ ROOT \in DOMAIN latest[MASTER] /\ AllOut
           /\ FileInv /\ ~exited /\ UNCHANGED <<inode, content>>
           /\ journal'.anchor.ptr = inode[MASTER].di_data
           /\ journal'.anchor.used = di_used_bytes[MASTER] /\ journal'.dynsb.used = used_bytes
<1>1. /\ Writing /\ ~exited /\ pc = "flush" /\ flush_i = NoAreas
      /\ UNCHANGED <<inode, content>>
      /\ journal'.anchor.ptr = inode[MASTER].di_data
      /\ journal'.anchor.used = di_used_bytes[MASTER] /\ journal'.dynsb.used = used_bytes
  BY DEF MakeJournal, Writing, fileVars
<1>2. FilesKept /\ AreasFlushed /\ SegfileStored /\ ROOT \in DOMAIN latest[MASTER] /\ FileInv
  BY <1>1 DEF WriteInv, Phase, MkfsInv
<1>3. \A l \in Areas : l < flush_i
  BY <1>1, Constants DEF Areas, NoAreas
<1>4. AllOut
  BY <1>2, <1>3 DEF AreasFlushed, AllOut
<1> QED
  BY <1>1, <1>2, <1>4

LEMMA MakeJournalTree ==
    ASSUME Fits, Reachable, MkfsInv, PlaceInv, RoomInv, WriteInv, Roomy, MakeJournal
    PROVE  Tree'
<1>1. UNCHANGED <<inode, content>> /\ journal'.anchor.ptr = inode[MASTER].di_data
  BY AllIsOut
<1>2. FilesKept /\ SegfileStored /\ ROOT \in DOMAIN latest[MASTER] /\ FileInv /\ AllOut
  BY AllIsOut
<1>3. HeldTree
  BY <1>2, TreeIsHeld
<1>4. \A l \in Areas : \A p, type, ino, bix :
         Held(p, l, type, ino, bix) => OnMedium(p, type, ino, bix, l)'
  BY <1>2, HeldIsOnMedium
<1>5. MaxLevels \in Areas /\ 0 \in Areas
  BY Constants DEF Areas, NoAreas
<1>6. PICK di : di = Inode(SEGFILE)
  OBVIOUS
<1>7. ReadInode(SEGFILE)' = di /\ di.height = inode[SEGFILE].di_height
  BY <1>1, <1>3, <1>6 DEF ReadInode, HeldTree, Inode
<1>8. ASSUME NEW ino \in {ROOT, SEGFILE}
      PROVE  OnMedium(journal.anchor.ptr[ino], "inode", MASTER, ino, MaxLevels)'
  <2>1. PICK p : p = inode[MASTER].di_data[ino]
    OBVIOUS
  <2>2. OnMedium(p, "inode", MASTER, ino, MaxLevels)'
    BY <1>3, <1>4, <1>5, <2>1 DEF HeldTree
  <2> QED
    BY <1>1, <2>1, <2>2
<1>9. ASSUME NEW b \in SegfileBlocks
       PROVE  /\ OnMedium(Lookup(di, b), "block", SEGFILE, b, 0)'
              /\ b >= I0 => \A l \in 1 .. di.height :
                    OnMedium(Path(di, b)[l], "block", SEGFILE, ParentBix(b, l), l)'
  <2>1. PICK p, w : p = Lookup(di, b) /\ w = Path(di, b)
    OBVIOUS
  <2>2. p = Lookup(di, b)' /\ w = Path(di, b)'
    BY <1>1, <2>1, SameWay
  <2>3. OnMedium(p, "block", SEGFILE, b, 0)'
    BY <1>3, <1>4, <1>5, <1>6, <2>1 DEF HeldTree
  <2>4. ASSUME b >= I0, NEW l \in 1 .. di.height
        PROVE  OnMedium(w[l], "block", SEGFILE, ParentBix(b, l), l)'
    <3>1. l \in Areas
      <4>1. inode[SEGFILE].di_height \in 0 .. MaskLevels
        BY <1>2, TreeConstants, NodeFacts DEF FileInv, NodesOK
      <4> QED
        BY <1>7, <4>1, Constants DEF Areas, NoAreas
    <3>2. Held(w[l], l, "block", SEGFILE, ParentBix(b, l))
      BY <1>3, <1>6, <1>7, <2>1, <2>4 DEF HeldTree
    <3> QED
      BY <1>4, <3>1, <3>2
  <2> QED
    BY <2>2, <2>3, <2>4
<1> QED
  BY <1>7, <1>8, <1>9 DEF Tree

\* What a mount finds stays as long as the journal and the object segments do.
LEMMA TreeStays ==
    ASSUME Tree, journal' = journal, content' = content,
           \A t \in Segs : medium[t].kind = "ostore" => medium'[t] = medium[t]
    PROVE  Tree'
<1>1. \A p, type, ino, bix, l :
         OnMedium(p, type, ino, bix, l) => OnMedium(p, type, ino, bix, l)'
  BY DEF OnMedium
<1>2. PICK di : di = ReadInode(SEGFILE)
  OBVIOUS
<1>3. di = ReadInode(SEGFILE)'
  BY <1>2 DEF ReadInode
<1>4. ASSUME NEW ino \in {ROOT, SEGFILE}
      PROVE  OnMedium(journal.anchor.ptr[ino], "inode", MASTER, ino, MaxLevels)'
  <2>1. PICK p : p = journal.anchor.ptr[ino]
    OBVIOUS
  <2> QED
    BY <1>1, <2>1 DEF Tree
<1>5. ASSUME NEW b \in SegfileBlocks
      PROVE  /\ OnMedium(Lookup(di, b), "block", SEGFILE, b, 0)'
             /\ b >= I0 => \A l \in 1 .. di.height :
                   OnMedium(Path(di, b)[l], "block", SEGFILE, ParentBix(b, l), l)'
  <2>1. PICK p, w : p = Lookup(di, b) /\ w = Path(di, b)
    OBVIOUS
  <2>2. p = Lookup(di, b)' /\ w = Path(di, b)'
    BY <2>1, SameWay
  <2>3. /\ OnMedium(p, "block", SEGFILE, b, 0)
        /\ b >= I0 => \A l \in 1 .. di.height :
              OnMedium(w[l], "block", SEGFILE, ParentBix(b, l), l)
    BY <1>2, <2>1 DEF Tree
  <2> QED
    BY <1>1, <2>2, <2>3
<1> QED
  BY <1>3, <1>4, <1>5 DEF Tree

\* The superblocks leave the journal and the objects as they are.
LEMMA MakeSuperTree ==
    ASSUME Fits, MkfsInv, PlaceInv, MediumInv, JournalInv, RoomInv, Roomy, Tree,
           MakeSuper1 \/ MakeSuper2
    PROVE  Tree'
<1>1. PICK n \in 1..2 : WriteSuper(n)
  BY DEF MakeSuper1, MakeSuper2
<1>2. Late /\ JournalWritten
  BY DEF MakeSuper1, MakeSuper2, Late, JournalInv
<1>3. journal' = journal /\ content' = content
  BY <1>1, <1>2, JournalSpared DEF WriteSuper, fileVars
<1> QED
  BY <1>3, SuperKeepsStore, TreeStays

\* From the journal on, mkfs() writes the superblocks and nothing else.
LEMMA LateSteps ==
    ASSUME [MkfsNext]_vars, Late'
    PROVE  \/ MakeJournal \/ MakeSuper1 \/ MakeSuper2
           \/ Late /\ UNCHANGED <<medium, content, journal, lastseg, sb_ofs>>
<1>1. ASSUME NEW s \in Segs, PrepareSb1(s) \/ MtdSb2(s) \/ PrepareJournal(s)
      PROVE  FALSE
  BY <1>1 DEF PrepareSb1, MtdSb2, PrepareJournal, Late
<1>2. ASSUME NEW s \in Segs, WriteSegfile(s) \/ FlushStep(s) \/ WriteSegfileInode(s)
                             \/ WriteRootdir(s)
      PROVE  FALSE
  BY <1>2 DEF WriteSegfile, FlushStep, WriteSegfileInode, WriteRootdir, mkfsVars, Late
<1>3. ASSUME \/ BdevSb2 \/ MtdSb2Fails \/ ReserveSegmentFails
             \/ FlushSegfile \/ FileWriteError \/ FlushSegments \/ FlushSegmentsFails
             \/ MakeJournalFails \/ JournalBug \/ ScratchOverrun
      PROVE  FALSE
  BY <1>3 DEF BdevSb2, MtdSb2Fails, ReserveSegmentFails, FlushSegfile, FileWriteError,
              FlushSegments, FlushSegmentsFails, MakeJournalFails, JournalBug,
              ScratchOverrun, mkfsVars, Late
<1>4. ASSUME MkfsHalt \/ UNCHANGED vars
      PROVE  Late /\ UNCHANGED <<medium, content, journal, lastseg, sb_ofs>>
  BY <1>4 DEF MkfsHalt, Halt, vars, segVars, fileVars, mkfsVars, Late
<1> QED
  BY <1>1, <1>2, <1>3, <1>4 DEF MkfsNext

LEMMA LateRoomy ==
    ASSUME [MkfsNext]_vars, Late'
    PROVE  Roomy' <=> Roomy
<1>1. UNCHANGED <<lastseg, sb_ofs>>
  BY LateSteps DEF MakeJournal, MakeSuper1, MakeSuper2, WriteSuper
<1> QED
  BY <1>1 DEF Roomy, SbSegment

LEMMA TreeStep ==
    ASSUME Fits, Reachable, MkfsInv, PlaceInv, MediumInv, JournalInv, RoomInv, WriteInv,
           TreeInv, [MkfsNext]_vars
    PROVE  TreeInv'
<1> SUFFICES ASSUME Late', Roomy' PROVE Tree'
  BY DEF TreeInv
<1>1. Roomy
  BY LateRoomy
<1>2. CASE MakeJournal
  BY <1>1, <1>2, MakeJournalTree
<1>3. CASE MakeSuper1 \/ MakeSuper2
  <2>1. Tree
    BY <1>1, <1>3 DEF MakeSuper1, MakeSuper2, Late, TreeInv
  <2> QED
    BY <1>1, <1>3, <2>1, MakeSuperTree
<1>4. CASE Late /\ UNCHANGED <<medium, content, journal, lastseg, sb_ofs>>
  <2>1. Tree
    BY <1>1, <1>4 DEF TreeInv
  <2> QED
    BY <1>4, <2>1, TreeStays
<1> QED
  BY <1>2, <1>3, <1>4, LateSteps

LEMMA WriteInitial == MkfsInit => WriteInv /\ TreeInv
<1> SUFFICES ASSUME MkfsInit PROVE WriteInv /\ TreeInv
  OBVIOUS
<1>1. FileInit /\ blk = 0 /\ flush_i = 0 /\ pc = "sb1"
  BY DEF MkfsInit, Init, SegInit
<1> QED
  BY <1>1 DEF WriteInv, Writing, TreeInv, Late

\* The invariant of the whole run, as long as the offsets do not wrap.
WrittenInv == PublishedInv /\ RoomInv /\ WriteInv

LEMMA WrittenAlways == MkfsSpec => [](Fits => WrittenInv)
<1>1. /\ PlacedInv /\ PlacedInv' /\ [MkfsNext]_vars
      /\ (Fits => PublishedInv /\ RoomInv) /\ (Fits => WriteInv)
      => (Fits => WriteInv)'
  BY WriteInvStep, FitsSoFar DEF PlacedInv
<1>2. MkfsInit => WriteInv
  BY WriteInitial
<1>3. MkfsSpec => [](Fits => WriteInv)
  BY <1>1, <1>2, PlacedAlways, RoomAlways, PTL DEF MkfsSpec
<1> QED
  BY <1>3, RoomAlways, PTL DEF WrittenInv

\* Whoever finds a superblock finds the files: the inodes where the anchor
\* points, and through them every block of the segment file and every indirect
\* block on the way, each in a segment of its level and with the header of that
\* very block, although they went to the device in the order of the levels, long
\* after the pointers to them were taken.  It is so for a segment file of every
\* height bixmask() has masks for, three levels in the program, which is more
\* than the segment file of the largest device needs; for every size of it that
\* is Reachable, which the one with a last block of Factor ^ h is not; and as
\* long as the segments handed out lie where an offset of 32 bits reaches.
THEOREM TreeFound ==
    ASSUME Reachable
    PROVE  MkfsSpec => [](Fits => TreeOnMedium)
<1>1. /\ PlacedInv /\ PlacedInv' /\ [MkfsNext]_vars
      /\ (Fits => WrittenInv) /\ (Fits => TreeInv)
      => (Fits => TreeInv)'
  BY TreeStep, FitsSoFar DEF WrittenInv, PublishedInv, PreparedInv, PlacedInv
<1>2. MkfsInit => TreeInv
  BY WriteInitial
<1>3. WrittenInv /\ TreeInv => TreeOnMedium
  <2>1. WrittenInv /\ Visible => Late
    BY VisibleIsLate DEF WrittenInv, PublishedInv
  <2> QED
    BY <2>1 DEF TreeInv, Tree, TreeOnMedium
<1>4. MkfsSpec => [](Fits => TreeInv)
  BY <1>1, <1>2, PlacedAlways, WrittenAlways, PTL DEF MkfsSpec
<1> QED
  BY <1>3, <1>4, WrittenAlways, PTL

----------------------------------------------------------------------------
(* The bytes on the device                                                 *)

\* Every object on the device, with its segment.
Out == UNION {{<<s, o>> : o \in medium[s].objs} : s \in Segs}
OutOf(ino) == {so \in Out : so[2].ino = ino}

\* What a mount finds of the byte counts.
BytesFound ==
    /\ IsFiniteSet(Out)
    /\ journal.anchor.used = LiveBytes(OutOf(MASTER))
    /\ ReadInode(SEGFILE).used = LiveBytes(OutOf(SEGFILE))
    /\ journal.dynsb.used = LiveBytes(Out)

LEMMA OutIs ==
    ASSUME TypeOK
    PROVE  /\ \A so \in Out : \E t \in Segs, o \in Object :
                 so = <<t, o>> /\ o \in medium[t].objs
           /\ \A t \in Segs, o \in Object : o \in medium[t].objs => <<t, o>> \in Out
<1>1. \A t \in Segs : medium[t].objs \subseteq Object
  BY DEF TypeOK, SegmentType
<1> QED
  BY <1>1 DEF Out

LEMMA PairSizesType ==
    ASSUME TypeOK, NEW U \in SUBSET Out
    PROVE  PairSizes(U) \in [U -> Nat]
<1>1. \A so \in U : PairBytes(so) \in Nat
  BY OutIs, SizeAssumption DEF PairBytes, Bytes, Object
<1> QED
  BY <1>1 DEF PairSizes

\* The objects of a segment, with the segment, have the same bytes.
LEMMA SegmentBytes ==
    ASSUME NEW t, NEW objs \in SUBSET Object, IsFiniteSet(objs),
           NEW U, {<<t, o>> : o \in objs} \in SUBSET U,
           NEW g, Additive(g, U, PairSizes(U))
    PROVE  BytesOf(objs) = g[{<<t, o>> : o \in objs}]
<1> DEFINE Pairs(s) == {<<t, o>> : o \in s}
           h == [s \in SUBSET objs |-> g[Pairs(s)]]
<1>1. \A s \in SUBSET objs : Pairs(s) \in SUBSET U /\ h[s] = g[Pairs(s)]
  OBVIOUS
<1>2. h \in [SUBSET objs -> Nat]
  BY <1>1 DEF Additive
<1>3. h[{}] = 0
  <2>1. Pairs({}) = {}
    OBVIOUS
  <2>2. {} \in SUBSET objs
    OBVIOUS
  <2> QED
    BY <1>1, <2>1, <2>2 DEF Additive
<1>4. ASSUME NEW s \in SUBSET objs, NEW o \in s
      PROVE  h[s] = Sizes(objs)[o] + h[s \ {o}]
  <2>1. Pairs(s \ {o}) = Pairs(s) \ {<<t, o>>} /\ <<t, o>> \in Pairs(s)
    OBVIOUS
  <2>2. <<t, o>> \in U /\ PairSizes(U)[<<t, o>>] = Sizes(objs)[o]
    BY <1>1, <2>1 DEF PairSizes, PairBytes, Sizes
  <2>3. g[Pairs(s)] = PairSizes(U)[<<t, o>>] + g[Pairs(s) \ {<<t, o>>}]
    BY <1>1, <2>1 DEF Additive
  <2>4. s \ {o} \in SUBSET objs
    OBVIOUS
  <2> HIDE DEF Pairs, h
  <2> QED
    BY <1>1, <2>1, <2>2, <2>3, <2>4
<1> HIDE DEF h
<1>5. Additive(h, objs, Sizes(objs))
  BY <1>2, <1>3, <1>4 DEF Additive
<1>6. objs \in SUBSET objs
  OBVIOUS
<1>7. BytesOf(objs) = h[objs]
  BY <1>5, <1>6, BytesOfSum
<1> QED
  BY <1>1, <1>6, <1>7

FileBytes(ino, t) == BytesOf({o \in medium[t].objs : o.ino = ino})

\* The sums of MediumBytes and of the dynsb, in terms of those above.
LEMMA MediumSum ==
    ASSUME NEW ino, NEW b, b = [t \in Segs |-> FileBytes(ino, t)],
           NEW g, Additive(g, Segs, b)
    PROVE  MediumBytes(ino) = g[Segs]
<1> DEFINE F(it) == [s \in SUBSET Segs |->
                       IF s = {} THEN 0
                       ELSE FileBytes(ino, CHOOSE x \in s : TRUE)
                              + it[s \ {CHOOSE x \in s : TRUE}]]
           it == CHOOSE i : i = F(i)
<1>1. MediumBytes(ino) = it[Segs]
  BY Zenon DEF MediumBytes, MapThenSumSet, MapThenFoldSet, FileBytes
<1>2. \A i : Iterates(i, Segs, b) <=> i = F(i)
  <2> SUFFICES ASSUME NEW i PROVE Iterates(i, Segs, b) <=> i = F(i)
    OBVIOUS
  <2>1. ASSUME NEW s \in SUBSET Segs, s # {}
        PROVE  b[CHOOSE x \in s : TRUE] = FileBytes(ino, CHOOSE x \in s : TRUE)
    <3>1. PICK x : x = CHOOSE y \in s : TRUE
      OBVIOUS
    <3>2. x \in Segs
      BY <2>1, <3>1
    <3>3. b[x] = FileBytes(ino, x)
      BY <3>2
    <3> QED
      BY <3>1, <3>3
  <2> QED
    BY <2>1 DEF Iterates
<1>3. g = F(g)
  BY <1>2, AdditiveIterates
<1>4. it = F(it)
  <2> HIDE DEF F
  <2> QED
    BY <1>3
<1>5. Iterates(it, Segs, b)
  <2> HIDE DEF F, it
  <2> QED
    BY <1>2, <1>4
<1>6. IsFiniteSet(Segs)
  BY FS_Interval, MkfsConstants DEF Segs
<1> HIDE DEF F, it
<1>7. it[Segs] = g[Segs]
  BY <1>5, <1>6, IterateUnique
<1> QED
  BY <1>1, <1>7

LEMMA InodesSum ==
    ASSUME NEW b, b = [ino \in Inos |-> MediumBytes(ino)],
           NEW g, Additive(g, Inos, b)
    PROVE  MapThenSumSet(MediumBytes, Inos) = g[Inos]
<1> DEFINE F(it) == [s \in SUBSET Inos |->
                       IF s = {} THEN 0
                       ELSE MediumBytes(CHOOSE x \in s : TRUE)
                              + it[s \ {CHOOSE x \in s : TRUE}]]
           it == CHOOSE i : i = F(i)
<1>1. MapThenSumSet(MediumBytes, Inos) = it[Inos]
  BY Zenon DEF MapThenSumSet, MapThenFoldSet
<1>2. \A i : Iterates(i, Inos, b) <=> i = F(i)
  <2> SUFFICES ASSUME NEW i PROVE Iterates(i, Inos, b) <=> i = F(i)
    OBVIOUS
  <2>1. ASSUME NEW s \in SUBSET Inos, s # {}
        PROVE  b[CHOOSE x \in s : TRUE] = MediumBytes(CHOOSE x \in s : TRUE)
    <3>1. PICK x : x = CHOOSE y \in s : TRUE
      OBVIOUS
    <3>2. x \in Inos
      BY <2>1, <3>1
    <3>3. b[x] = MediumBytes(x)
      BY <3>2
    <3> QED
      BY <3>1, <3>3
  <2> QED
    BY <2>1 DEF Iterates
<1>3. g = F(g)
  BY <1>2, AdditiveIterates
<1>4. it = F(it)
  <2> HIDE DEF F
  <2> QED
    BY <1>3
<1>5. Iterates(it, Inos, b)
  <2> HIDE DEF F, it
  <2> QED
    BY <1>2, <1>4
<1> HIDE DEF F, it
<1>6. it[Inos] = g[Inos]
  BY <1>5, IterateUnique, TreeConstants
<1> QED
  BY <1>1, <1>6

\* The objects of a file on the device, segment by segment.
LEMMA MediumBytesAre ==
    ASSUME TypeOK, IsFiniteSet(Out), NEW ino
    PROVE  MediumBytes(ino) = LiveBytes(OutOf(ino))
<1>1. PICK U : U = OutOf(ino)
  OBVIOUS
<1>2. U \in SUBSET Out /\ IsFiniteSet(U) /\ U \in SUBSET U
  BY <1>1, FS_Subset DEF OutOf
<1>3. PairSizes(U) \in [U -> Nat]
  BY <1>2, PairSizesType
<1>4. PICK g : Additive(g, U, PairSizes(U))
  BY <1>2, <1>3, AdditiveExists
<1>5. PICK k : k = [so \in U |-> so[1]]
  OBVIOUS
<1>6. k \in [U -> Segs]
  <2>1. \A so \in U : so[1] \in Segs
    BY <1>2, OutIs
  <2> QED
    BY <1>5, <2>1
<1>7. PICK b : b = [t \in Segs |-> FileBytes(ino, t)]
  OBVIOUS
<1>8. ASSUME NEW t \in Segs
      PROVE  b[t] = g[PartOf(U, k, t)] /\ b[t] \in Nat
  <2>1. PICK objs : objs = {o \in medium[t].objs : o.ino = ino}
    OBVIOUS
  <2>2. PartOf(U, k, t) = {<<t, o>> : o \in objs}
    <3>1. ASSUME NEW so \in PartOf(U, k, t) PROVE so \in {<<t, o>> : o \in objs}
      <4>1. so \in Out /\ so[1] = t /\ so[2].ino = ino
        BY <1>1, <1>5 DEF PartOf, OutOf
      <4> QED
        BY <2>1, <4>1, OutIs
    <3>2. ASSUME NEW o \in objs PROVE <<t, o>> \in PartOf(U, k, t)
      <4>1. o \in Object /\ o \in medium[t].objs /\ o.ino = ino
        BY <2>1 DEF TypeOK, SegmentType
      <4>2. <<t, o>> \in U
        BY <1>1, <4>1, OutIs DEF OutOf
      <4> QED
        BY <1>5, <4>2 DEF PartOf
    <3> QED
      BY <3>1, <3>2
  <2>3. PartOf(U, k, t) \in SUBSET U
    BY DEF PartOf
  <2>4. objs \in SUBSET Object
    BY <2>1 DEF TypeOK, SegmentType
  <2>5. IsFiniteSet(objs)
    <3> DEFINE f == [o \in objs |-> <<t, o>>]
    <3>1. f \in Injection(objs, U)
      BY <2>2, <2>3 DEF Injection, IsInjective
    <3> HIDE DEF f
    <3> QED
      BY <1>2, <3>1, FS_Injection
  <2>6. BytesOf(objs) = g[PartOf(U, k, t)]
    BY <1>4, <2>2, <2>3, <2>4, <2>5, SegmentBytes
  <2>7. g[PartOf(U, k, t)] \in Nat
    BY <1>4, <2>3 DEF Additive
  <2> QED
    BY <1>7, <2>1, <2>6, <2>7 DEF FileBytes
<1>9. b \in [Segs -> Nat]
  BY <1>7, <1>8
<1>10. IsFiniteSet(Segs)
  BY FS_Interval, MkfsConstants DEF Segs
<1>11. PICK h : Additive(h, Segs, b)
  BY <1>9, <1>10, AdditiveExists
<1>12. MediumBytes(ino) = h[Segs]
  BY <1>7, <1>11, MediumSum
<1>13. h[Segs] = g[U]
  BY <1>2, <1>3, <1>4, <1>6, <1>8, <1>9, <1>10, <1>11, PartsSum
<1>14. LiveBytes(U) = g[U]
  BY <1>2, <1>4, LiveBytesSum
<1> QED
  BY <1>1, <1>12, <1>13, <1>14

\* And the objects of all the files.
LEMMA AllBytesAre ==
    ASSUME TypeOK, IsFiniteSet(Out)
    PROVE  MapThenSumSet(MediumBytes, Inos) = LiveBytes(Out)
<1>1. PICK U : U = Out
  OBVIOUS
<1>2. U \in SUBSET Out /\ IsFiniteSet(U) /\ U \in SUBSET U
  BY <1>1
<1>3. PairSizes(U) \in [U -> Nat]
  BY <1>2, PairSizesType
<1>4. PICK g : Additive(g, U, PairSizes(U))
  BY <1>2, <1>3, AdditiveExists
<1>5. PICK k : k = [so \in U |-> so[2].ino]
  OBVIOUS
<1>6. k \in [U -> Inos]
  <2>1. \A so \in U : so[2].ino \in Inos
    BY <1>2, OutIs DEF Object
  <2> QED
    BY <1>5, <2>1
<1>7. PICK b : b = [ino \in Inos |-> MediumBytes(ino)]
  OBVIOUS
<1>8. ASSUME NEW ino \in Inos
      PROVE  b[ino] = g[PartOf(U, k, ino)] /\ b[ino] \in Nat
  <2>1. PICK S : S = OutOf(ino)
    OBVIOUS
  <2>2. S = PartOf(U, k, ino) /\ S \in SUBSET U
    BY <1>1, <1>5, <2>1 DEF PartOf, OutOf
  <2>3. IsFiniteSet(S)
    BY <1>2, <2>2, FS_Subset
  <2>4. LiveBytes(S) = g[S]
    BY <1>4, <2>2, <2>3, LiveBytesSum
  <2>5. g[S] \in Nat
    BY <1>4, <2>2 DEF Additive
  <2>6. MediumBytes(ino) = LiveBytes(S)
    BY <2>1, MediumBytesAre
  <2> QED
    BY <1>7, <2>2, <2>4, <2>5, <2>6
<1>9. b \in [Inos -> Nat]
  BY <1>7, <1>8
<1>10. IsFiniteSet(Inos)
  BY TreeConstants
<1>11. PICK h : Additive(h, Inos, b)
  BY <1>9, <1>10, AdditiveExists
<1>12. MapThenSumSet(MediumBytes, Inos) = h[Inos]
  BY <1>7, <1>11, InodesSum
<1>13. h[Inos] = g[U]
  BY <1>2, <1>3, <1>4, <1>6, <1>8, <1>9, <1>10, <1>11, PartsSum
<1>14. LiveBytes(U) = g[U]
  BY <1>2, <1>4, LiveBytesSum
<1> QED
  BY <1>1, <1>12, <1>13, <1>14

\* Objects are in object segments only.
CleanSeg(m) == m.kind # "ostore" => m.objs = {}
Clean == \A t \in Segs : CleanSeg(medium[t])

LEMMA CleanValues ==
    /\ CleanSeg(Unknown) /\ CleanSeg(Erased) /\ CleanSeg(Journal)
    /\ \A l, objs : CleanSeg(Ostore(l, objs))
  BY DEF CleanSeg, Unknown, Erased, Journal, Ostore

LEMMA CleanStore ==
    ASSUME TypeOK, Clean, [StoreNext]_segVars
    PROVE  Clean'
<1>1. medium \in [Segs -> SegmentType]
  BY DEF TypeOK
<1>2. ASSUME NEW m, \A t \in Segs : CleanSeg(m[t]),
             NoSegmentLeft(m) \/ \E s \in Segs : \E entry : GetSegment(s, entry, m)
      PROVE  Clean'
  <2>1. \A t \in Segs : medium'[t] \in {Erased, Unknown, m[t]}
    BY <1>2 DEF NoSegmentLeft, GetSegment
  <2> QED
    BY <1>2, <2>1, CleanValues DEF Clean
<1>3. ASSUME NEW l PROVE \A t \in Segs : CleanSeg(MediumAfterFinish(l)[t])
  <2>1. \A t \in Segs : MediumAfterFinish(l)[t] \in {medium[t], Ostore(l, area[l].buf)}
    BY <1>1 DEF MediumAfterFinish
  <2> QED
    BY <2>1, CleanValues DEF Clean
<1>4. ASSUME NEW l, WriteError(l) PROVE Clean'
  <2>1. \A t \in Segs : medium'[t] \in {medium[t], Unknown}
    BY <1>1, <1>4 DEF WriteError
  <2> QED
    BY <2>1, CleanValues DEF Clean
<1>5. ASSUME UNCHANGED medium PROVE Clean'
  BY <1>5 DEF Clean
<1>6. ASSUME NEW s \in Segs, Reserve(s) PROVE Clean'
  BY <1>2, <1>6 DEF Reserve, Clean
<1>7. ASSUME ReserveFails PROVE Clean'
  BY <1>2, <1>7 DEF ReserveFails, Clean
<1>8. ASSUME NEW type \in Types, NEW ino \in Inos, NEW bix \in Nat, NEW level \in Levels,
             NEW s \in Segs, SegmentWrite(type, ino, bix, level, s)
      PROVE  Clean'
  <2>1. PICK l : \/ UNCHANGED medium
                 \/ GetSegment(s, segment_entry, medium)
                 \/ GetSegment(s, EntryAfterFinish(l), MediumAfterFinish(l))
    BY <1>8 DEF SegmentWrite
  <2>2. ASSUME GetSegment(s, segment_entry, medium) PROVE Clean'
    BY <1>2, <2>2 DEF Clean
  <2>3. ASSUME GetSegment(s, EntryAfterFinish(l), MediumAfterFinish(l)) PROVE Clean'
    BY <1>2, <1>3, <2>3
  <2> QED
    BY <1>5, <2>1, <2>2, <2>3
<1>9. ASSUME NEW ino \in Inos, NEW level \in Levels, SegmentWriteFails(ino, level)
      PROVE  Clean'
  <2>1. PICK l : WriteError(l) \/ NoSegmentLeft(MediumAfterFinish(l)) \/ NoSegmentLeft(medium)
    BY <1>9 DEF SegmentWriteFails
  <2>2. ASSUME NoSegmentLeft(MediumAfterFinish(l)) PROVE Clean'
    BY <1>2, <1>3, <2>2
  <2>3. ASSUME NoSegmentLeft(medium) PROVE Clean'
    BY <1>2, <2>3 DEF Clean
  <2> QED
    BY <1>4, <2>1, <2>2, <2>3
<1>10. ASSUME FlushArea PROVE Clean'
  <2>1. UNCHANGED medium \/ medium' = MediumAfterFinish(flush_i)
    BY <1>10 DEF FlushArea
  <2> QED
    BY <1>3, <1>5, <2>1 DEF Clean
<1>11. ASSUME FlushFails PROVE Clean'
  BY <1>4, <1>11 DEF FlushFails
<1>12. ASSUME Halt \/ UNCHANGED segVars PROVE Clean'
  BY <1>5, <1>12 DEF Halt, segVars
<1> QED
  BY <1>6, <1>7, <1>8, <1>9, <1>10, <1>11, <1>12 DEF StoreNext

LEMMA CleanStep ==
    ASSUME MkfsInv, Clean, [MkfsNext]_vars
    PROVE  Clean'
<1>1. TypeOK /\ medium \in [Segs -> SegmentType]
  BY DEF MkfsInv, FileInv, TypeOK
<1>2. ASSUME \A t \in Segs : medium'[t] \in {medium[t], Erased, Unknown, Journal}
      PROVE  Clean'
  BY <1>2, CleanValues DEF Clean
<1>3. CASE Work
  BY <1>1, <1>3, CleanStore DEF Work
<1>4. ASSUME NEW s \in Segs, PrepareSb1(s) \/ PrepareJournal(s) PROVE Clean'
  BY <1>1, <1>4, ReserveTypes, CleanStore DEF PrepareSb1, PrepareJournal
<1>5. ASSUME NEW s \in Segs, MtdSb2(s) PROVE Clean'
  BY <1>2, <1>5 DEF MtdSb2, TailErased
<1>6. CASE BdevSb2 \/ MtdSb2Fails
  BY <1>2, <1>6 DEF BdevSb2, MtdSb2Fails
<1>7. CASE MakeJournal \/ MakeJournalFails
  BY <1>1, <1>2, <1>7 DEF MakeJournal, MakeJournalFails
<1>8. CASE MakeSuper1 \/ MakeSuper2
  <2>1. PICK n : \A t \in Segs : medium'[t] = [medium[t] EXCEPT !.objs = Spared(n, t, @)]
    BY <1>8 DEF MakeSuper1, MakeSuper2, WriteSuper
  <2>2. ASSUME NEW t \in Segs PROVE CleanSeg(medium'[t])
    <3>1. medium[t] \in SegmentType
      BY <1>1
    <3>2. Spared(n, t, medium[t].objs) \subseteq medium[t].objs
      BY DEF Spared
    <3>3. medium'[t].kind = medium[t].kind /\ medium'[t].objs \subseteq medium[t].objs
      BY <2>1, <3>1, <3>2 DEF SegmentType
    <3> QED
      BY <3>3 DEF Clean, CleanSeg
  <2> QED
    BY <2>2 DEF Clean
<1> QED
  BY <1>3, <1>4, <1>5, <1>6, <1>7, <1>8, MkfsSteps

\* When the areas are out, the store is what is on the device.
LEMMA OutIsLive ==
    ASSUME TypeOK, AllOut
    PROVE  Out = Live
<1>1. ASSUME NEW so \in Live PROVE so \in Out
  <2>1. PICK t \in Segs, o \in Object : so = <<t, o>> /\ In(t, o)
    BY LiveIs DEF LiveShape
  <2>2. CASE o \in medium[t].objs
    BY <2>1, <2>2, OutIs
  <2>3. ASSUME NEW l \in Areas, area[l].open, area[l].segno = t, o \in area[l].buf
        PROVE  so \in Out
    <3>1. medium[t] = Ostore(l, area[l].buf)
      BY <2>3 DEF AllOut
    <3>2. o \in medium[t].objs
      BY <2>3, <3>1 DEF Ostore
    <3> QED
      BY <2>1, <3>2, OutIs
  <2> QED
    BY <2>1, <2>2, <2>3 DEF In
<1>2. ASSUME NEW so \in Out PROVE so \in Live
  <2>1. PICK t \in Segs, o \in Object : so = <<t, o>> /\ o \in medium[t].objs
    BY <1>2, OutIs
  <2> QED
    BY <2>1, LiveIs DEF LiveShape, In
<1> QED
  BY <1>1, <1>2

\* The objects on the device are counted as long as no segment loses one.
LEMMA OutStays ==
    ASSUME \A t \in Segs : medium'[t].objs = medium[t].objs
    PROVE  Out' = Out /\ \A ino : OutOf(ino)' = OutOf(ino)
<1>1. Out' = Out
  BY DEF Out
<1> QED
  BY <1>1 DEF OutOf

LEMMA MakeJournalBytes ==
    ASSUME Fits, MkfsInv, PlaceInv, RoomInv, WriteInv, Clean, Roomy, MakeJournal
    PROVE  BytesFound'
<1>1. /\ FilesKept /\ SegfileStored /\ ROOT \in DOMAIN latest[MASTER] /\ AllOut
      /\ FileInv /\ ~exited /\ UNCHANGED <<inode, content>>
      /\ journal'.anchor.ptr = inode[MASTER].di_data
      /\ journal'.anchor.used = di_used_bytes[MASTER] /\ journal'.dynsb.used = used_bytes
  BY AllIsOut
<1>2. TypeOK /\ LiveInv
  BY <1>1 DEF MakeJournal, RoomInv, StoreBelow, Early, Late
<1>3. Out = Live
  BY <1>1, <1>2, OutIsLive
<1>4. \A t \in Segs : medium'[t].objs = medium[t].objs
  <2> SUFFICES ASSUME NEW t \in Segs PROVE medium'[t].objs = medium[t].objs
    OBVIOUS
  <2>1. CASE t = JournalSegment
    <3>1. medium[t].objs = {}
      BY <2>1, JournalKeepsStore DEF Clean, CleanSeg
    <3>2. medium'[t] = Journal
      BY <2>1, JournalKeepsStore
    <3> QED
      BY <3>1, <3>2 DEF Journal
  <2>2. CASE t # JournalSegment
    BY <2>2, JournalKeepsStore
  <2> QED
    BY <2>1, <2>2
<1>5. Out' = Out /\ \A ino : OutOf(ino)' = OutOf(ino)
  BY <1>4, OutStays
<1>6. \A ino \in Inos : di_used_bytes[ino] = LiveBytes(OutOf(ino))
  BY <1>1, <1>2, <1>3 DEF LiveInv, UsedBytesExact, OutOf
<1>7. used_bytes = LiveBytes(Out) /\ IsFiniteSet(Out)
  BY <1>1, <1>2, <1>3 DEF LiveInv, UsedBytesExact
<1>8. ReadInode(SEGFILE)'.used = di_used_bytes[SEGFILE]
  BY <1>1, InodesHeld DEF ReadInode, Inode
<1>9. journal'.anchor.used = LiveBytes(OutOf(MASTER)')
  BY <1>1, <1>5, <1>6, TreeConstants
<1>10. ReadInode(SEGFILE)'.used = LiveBytes(OutOf(SEGFILE)')
  BY <1>5, <1>6, <1>8, TreeConstants
<1>11. journal'.dynsb.used = LiveBytes(Out') /\ IsFiniteSet(Out')
  BY <1>1, <1>5, <1>7
<1> QED
  BY <1>9, <1>10, <1>11 DEF BytesFound

LEMMA BytesStay ==
    ASSUME BytesFound, journal' = journal, content' = content,
           \A t \in Segs : medium'[t].objs = medium[t].objs
    PROVE  BytesFound'
<1>1. Out' = Out /\ \A ino : OutOf(ino)' = OutOf(ino)
  BY OutStays
<1>2. ReadInode(SEGFILE)' = ReadInode(SEGFILE)
  BY DEF ReadInode
<1> QED
  BY <1>1, <1>2 DEF BytesFound

LEMMA MakeSuperBytes ==
    ASSUME Fits, MkfsInv, PlaceInv, MediumInv, JournalInv, RoomInv, Clean, Clean', Roomy,
           BytesFound, MakeSuper1 \/ MakeSuper2
    PROVE  BytesFound'
<1>1. PICK n \in 1..2 : WriteSuper(n)
  BY DEF MakeSuper1, MakeSuper2
<1>2. Late /\ JournalWritten
  BY DEF MakeSuper1, MakeSuper2, Late, JournalInv
<1>3. journal' = journal /\ content' = content
  BY <1>1, <1>2, JournalSpared DEF WriteSuper, fileVars
<1>4. \A t \in Segs : medium'[t].objs = medium[t].objs
  <2> SUFFICES ASSUME NEW t \in Segs PROVE medium'[t].objs = medium[t].objs
    OBVIOUS
  <2>1. /\ medium'[t].kind = medium[t].kind
        /\ medium[t].kind = "ostore" => medium'[t] = medium[t]
    BY SuperKeepsStore
  <2> QED
    BY <2>1 DEF Clean, CleanSeg
<1> QED
  BY <1>3, <1>4, BytesStay

BytesInv == Clean /\ (Late /\ Roomy => BytesFound)

LEMMA BytesStep ==
    ASSUME Fits, MkfsInv, PlaceInv, MediumInv, JournalInv, RoomInv, WriteInv,
           BytesInv, [MkfsNext]_vars
    PROVE  BytesInv'
<1>1. Clean /\ Clean'
  BY CleanStep DEF BytesInv
<1> SUFFICES ASSUME Late', Roomy' PROVE BytesFound'
  BY <1>1 DEF BytesInv
<1>2. Roomy
  BY LateRoomy
<1>3. CASE MakeJournal
  BY <1>1, <1>2, <1>3, MakeJournalBytes
<1>4. CASE MakeSuper1 \/ MakeSuper2
  <2>1. BytesFound
    BY <1>2, <1>4 DEF MakeSuper1, MakeSuper2, Late, BytesInv
  <2> QED
    BY <1>1, <1>2, <1>4, <2>1, MakeSuperBytes
<1>5. CASE Late /\ UNCHANGED <<medium, content, journal, lastseg, sb_ofs>>
  <2>1. BytesFound
    BY <1>2, <1>5 DEF BytesInv
  <2> QED
    BY <1>5, <2>1, BytesStay
<1> QED
  BY <1>3, <1>4, <1>5, LateSteps

LEMMA BytesInitial == MkfsInit => BytesInv
<1> SUFFICES ASSUME MkfsInit PROVE BytesInv
  OBVIOUS
<1>1. medium = [t \in Segs |-> Unknown] /\ pc = "sb1"
  BY DEF MkfsInit, Init, SegInit
<1> QED
  BY <1>1, CleanValues DEF BytesInv, Clean, Late

\* On a device with room, and offsets that do not wrap, the byte counts a mount reads - of the
\* inode file in the anchor, of the segment file in its inode and of the whole
\* filesystem in the dynsb - are the bytes of the objects on the device: nothing
\* is written between the moments they are taken that one of them misses, every
\* buffer that is counted reaches the device, and the superblocks overwrite none.
THEOREM UsedBytesFound == MkfsSpec => [](Fits => UsedBytesOnMedium)
<1>1. /\ PlacedInv /\ PlacedInv' /\ [MkfsNext]_vars
      /\ (Fits => WrittenInv) /\ (Fits => BytesInv)
      => (Fits => BytesInv)'
  BY BytesStep, FitsSoFar DEF WrittenInv, PublishedInv, PreparedInv, PlacedInv
<1>2. MkfsInit => BytesInv
  BY BytesInitial
<1>3. WrittenInv /\ BytesInv => UsedBytesOnMedium
  <2> SUFFICES ASSUME WrittenInv, BytesInv, Visible, Roomy
               PROVE  /\ journal.anchor.used = MediumBytes(MASTER)
                      /\ ReadInode(SEGFILE).used = MediumBytes(SEGFILE)
                      /\ journal.dynsb.used = MapThenSumSet(MediumBytes, Inos)
    BY DEF UsedBytesOnMedium
  <2>1. BytesFound
    BY VisibleIsLate DEF WrittenInv, PublishedInv, BytesInv
  <2>2. TypeOK
    BY DEF WrittenInv, PublishedInv, PreparedInv, PlacedInv, MkfsInv, FileInv
  <2>3. \A ino : MediumBytes(ino) = LiveBytes(OutOf(ino))
    BY <2>1, <2>2, MediumBytesAre DEF BytesFound
  <2>4. MapThenSumSet(MediumBytes, Inos) = LiveBytes(Out)
    BY <2>1, <2>2, AllBytesAre DEF BytesFound
  <2> QED
    BY <2>1, <2>3, <2>4 DEF BytesFound
<1>4. MkfsSpec => [](Fits => BytesInv)
  BY <1>1, <1>2, PlacedAlways, WrittenAlways, PTL DEF MkfsSpec
<1> QED
  BY <1>3, <1>4, WrittenAlways, PTL
=============================================================================
