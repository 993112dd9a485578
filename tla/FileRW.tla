------------------------------- MODULE FileRW -------------------------------
(***************************************************************************)
(* readwrite.c: files on top of the object store of Segment.               *)
(*                                                                         *)
(* A file is an inode with I0 direct pointers and one indirect pointer.    *)
(* Indirect blocks are kept in memory, one tree per level, until           *)
(* logfs_file_flush writes them bottom up and hangs the last one into the  *)
(* inode.  The trees (btree.c) are maps from a block index to a block.     *)
(* The program has I0 = 16, Factor = 512 and MaskLevels = 3.               *)
(***************************************************************************)
EXTENDS Segment

CONSTANTS
    I0,            \* I0_BLOCKS: direct pointers of an inode
    Factor,        \* LOGFS_BLOCK_FACTOR: pointers in an indirect block
    MaskLevels,    \* the levels whose bixmask fits the int it is computed in
    UndefinedSpan, \* what the build makes of bixmask + 1 in the levels above
    FileBixes,     \* the block indices explored (a bound on the inputs)
    MaxObjects     \* objects written by clients at most (a bound)

\* 1 < 16 < 512, and the block indices in use stay below 2^27, where bixmask is
\* defined: mklogfs writes the blocks of the segment file, at most 2^23, and those
\* of the inode file.
ASSUME FileAssumption ==
    /\ Factor \in Nat
    /\ I0 \in 2 .. Factor - 1
    /\ MaskLevels \in 1 .. MaxLevels - 1
    /\ UndefinedSpan \in Nat \ {0}
    /\ FileBixes \subseteq 0 .. Factor ^ MaskLevels - 1
    /\ MaxObjects \in Nat

\* The powers in use are what powers are: arithmetic the provers do not have.
ASSUME PowerAssumption ==
    /\ Factor ^ 0 = 1
    /\ \A n \in 0 .. MaxLevels : /\ Factor ^ n \in Nat \ {0}
                                /\ Factor ^ (n + 1) = Factor * (Factor ^ n)

VARIABLES
    inode,      \* per inode: di_height, di_data and the block_tree of each level
    flushing,   \* the inode whose logfs_file_flush runs, or None
    flushed,    \* history: the inodes that have been flushed
    content,    \* what the objects hold, by the place they really have
    latest      \* history: per inode, the place of the last write of each block

fileVars == <<inode, flushing, flushed, content, latest>>
allVars == <<segVars, fileVars>>

None == -1
Hole == 0
EmptyMap == << >>
TreeLevels == 1 .. MaxLevels - 1

\* What an object holds: file data is not distinguished; an indirect block is
\* its pointers; an inode is its height, used bytes and pointers.
Payload          == [height |-> 0, used |-> 0, ptr |-> EmptyMap]
Pointers(iblock) == [height |-> 0, used |-> 0, ptr |-> iblock]
Inode(ino)       == [height |-> inode[ino].di_height, used |-> di_used_bytes[ino],
                     ptr |-> inode[ino].di_data]

Put(f, k, v) == [x \in DOMAIN f \cup {k} |-> IF x = k THEN v ELSE f[x]]
MutDrop(f, k) == f
Drop(f, k)   == [x \in DOMAIN f \ {k} |-> f[x]]

----------------------------------------------------------------------------
(* Block indices                                                           *)

MutGetBits(bix, level) == bix % Factor
\* get_bits: the slot of block bix of a level in its parent.
GetBits(bix, level) == (bix \div Factor ^ level) % Factor

\* bixmask(level) + 1, the blocks below a block of that level: 1 << (9 * level)
\* in int, undefined behaviour above MaskLevels.
BlockSpan(level) == IF level <= MaskLevels THEN Factor ^ level ELSE UndefinedSpan

\* bix | bixmask(level): the largest block index below a block of that level.
ParentBix(bix, level) ==
    (bix \div BlockSpan(level)) * BlockSpan(level) + BlockSpan(level) - 1

MutMaxbix(height) == Factor ^ height \div Factor
maxbix(height) == Factor ^ height

\* grow_inode: more levels until maxbix reaches bix.
GrownHeight(height, bix) ==
    Min({h \in height .. MaxLevels : bix <= maxbix(h)})

----------------------------------------------------------------------------
(* Writing                                                                 *)

ZeroBlock == [i \in 0 .. Factor - 1 |-> Hole]

\* find_or_create_block
BlockAt(tree, bix) == IF bix \in DOMAIN tree THEN tree[bix] ELSE ZeroBlock

WriteDirect(node, bix, ofs) == [node EXCEPT !.di_data[bix] = ofs]

MutWriteLoop(node, bix, level, ofs) ==
    LET parent == ParentBix(bix, level + 1)
    IN  [node EXCEPT !.tree[level + 1] =
            Put(@, parent, [ZeroBlock EXCEPT ![GetBits(bix, level)] = ofs])]

\* write_loop: the parent block, created when missing, points to the object.
WriteLoop(node, bix, level, ofs) ==
    LET parent == ParentBix(bix, level + 1)
        iblock == BlockAt(node.tree[level + 1], parent)
    IN  [node EXCEPT !.tree[level + 1] =
            Put(@, parent, [iblock EXCEPT ![GetBits(bix, level)] = ofs])]

\* The place on the device of an object of area l that lands in segment s.
Place(l, s) == s * SegSize + NextPos(l)
StoreAt(l, s, data) == content' = Put(content, Place(l, s), data)

\* logfs_file_write of a block of the file itself (level 0).
FileWrite(type, ino, bix, data, s) ==
    LET l    == AreaOf(ino, 0)
        node == inode[ino]
        ofs  == WriteOfs(l, s)
    IN  /\ SegmentWrite(type, ino, bix, 0, s)
        /\ StoreAt(l, s, data)
        /\ inode' = [inode EXCEPT ![ino] =
              IF bix < I0
              THEN WriteDirect(node, bix, ofs)
              ELSE WriteLoop(
                      [node EXCEPT !.di_height = GrownHeight(@, bix)],
                      bix, 0, ofs)]
        /\ latest' = [latest EXCEPT ![ino] = Put(@, bix, Place(l, s))]
        /\ UNCHANGED <<flushing, flushed>>

FileWriteFails(ino) ==
    SegmentWriteFails(ino, 0) /\ UNCHANGED fileVars

----------------------------------------------------------------------------
(* logfs_file_flush                                                        *)

\* btree_last: trees are sorted in descending order and the last is the largest.
TreeLast(tree) == Max(DOMAIN tree)

\* The level the loop over the levels is at: lower trees are empty by then.
FlushLevel(ino) ==
    Min({l \in TreeLevels : \/ l = inode[ino].di_height
                            \/ /\ l < inode[ino].di_height
                               /\ DOMAIN inode[ino].tree[l] # {}})

\* The call, which returns at once for a file without indirect blocks.
StartFlush(ino) ==
    /\ ~exited
    /\ flushing = None
    /\ IF inode[ino].di_height = 0
       THEN flushed' = flushed \cup {ino} /\ UNCHANGED flushing
       ELSE flushing' = ino /\ UNCHANGED flushed
    /\ UNCHANGED <<segVars, inode, content, latest>>

\* A block of a level below the height is written and entered in its parent.
FlushBlock(s) ==
    LET ino   == flushing
        level == FlushLevel(ino)
        node  == inode[ino]
        bix   == TreeLast(node.tree[level])
        l     == AreaOf(ino, level)
    IN  /\ flushing # None
        /\ level < node.di_height
        /\ SegmentWrite("block", ino, bix, level, s)
        /\ StoreAt(l, s, Pointers(node.tree[level][bix]))
        /\ inode' = [inode EXCEPT ![ino] =
              WriteLoop([node EXCEPT !.tree[level] = Drop(@, bix)],
                        bix, level, WriteOfs(l, s))]
        /\ UNCHANGED <<flushing, flushed, latest>>

\* The last block of the highest level goes into the inode.
FlushRoot(s) ==
    LET ino   == flushing
        level == FlushLevel(ino)
        node  == inode[ino]
        bix   == TreeLast(node.tree[level])
        l     == AreaOf(ino, level)
    IN  /\ flushing # None
        /\ level = node.di_height
        /\ DOMAIN node.tree[level] # {}     \* BUG_ON(!iblock)
        /\ SegmentWrite("block", ino, bix, level, s)
        /\ StoreAt(l, s, Pointers(node.tree[level][bix]))
        /\ inode' = [inode EXCEPT
              ![ino].tree[level] = Drop(@, bix),
              ![ino].di_data[I0] = WriteOfs(l, s)]
        /\ flushing' = None
        /\ flushed' = flushed \cup {ino}
        /\ UNCHANGED latest

FileFlushFails ==
    /\ flushing # None
    /\ SegmentWriteFails(flushing, FlushLevel(flushing))
    /\ UNCHANGED fileVars

----------------------------------------------------------------------------
(* Files, driven by a client that writes blocks in any order, flushes each *)
(* file once and writes no more to it (as write_segment_file does).        *)

FileInit ==
    /\ inode = [ino \in Inos |->
                  [di_height |-> 0, di_data |-> [i \in 0..I0 |-> Hole],
                   tree |-> [l \in TreeLevels |-> EmptyMap]]]
    /\ flushing = None
    /\ flushed = {}
    /\ content = EmptyMap
    /\ latest = [ino \in Inos |-> EmptyMap]

Init == SegInit /\ FileInit

ClientWrite(ino, bix, s) ==
    /\ flushing = None
    /\ ino \notin flushed
    /\ Cardinality(DOMAIN content) < MaxObjects
    /\ FileWrite("block", ino, bix, Payload, s)

ClientFlush(ino) == ino \notin flushed /\ StartFlush(ino)

Next ==
    \/ \E ino \in Inos, bix \in FileBixes, s \in Segs : ClientWrite(ino, bix, s)
    \/ \E ino \in Inos : flushing = None /\ FileWriteFails(ino)
    \/ \E ino \in Inos : ClientFlush(ino)
    \/ \E s \in Segs : FlushBlock(s) \/ FlushRoot(s)
    \/ FileFlushFails

Spec == Init /\ [][Next]_allVars

----------------------------------------------------------------------------
(* Properties                                                              *)

\* Every variable has its type: a file grows to levels that bixmask is right for
\* (and there are areas for), an indirect block keeps its number of pointers, and
\* no level above the height of a file has blocks.
FileTypeOK ==
    /\ TypeOK
    /\ \A ino \in Inos :
          LET node == inode[ino]
          IN  /\ node.di_height \in 0 .. MaskLevels
              /\ node.di_data \in [0..I0 -> Nat]
              /\ \A l \in TreeLevels : \A bix \in DOMAIN node.tree[l] :
                    /\ bix \in Nat /\ l <= node.di_height
                    /\ node.tree[l][bix] \in [0 .. Factor - 1 -> Nat]
    /\ flushing \in Inos \cup {None}
    /\ flushed \subseteq Inos
    /\ DOMAIN content \subseteq Nat
    /\ \A ino \in Inos : \A bix \in DOMAIN latest[ino] :
          bix \in Nat /\ latest[ino][bix] \in DOMAIN content

\* What a reader of the filesystem gets for a pointer: the object at that
\* offset of the device, if there is one.
Deref(ofs) == IF ofs \in DOMAIN content THEN content[ofs].ptr ELSE EmptyMap

\* The offsets a reader meets, by level, on the way from the indirect pointer
\* down to a block of the file.
Path(di, bix) ==
    LET ofs[l \in 0 .. di.height] ==
            IF l = di.height THEN di.ptr[I0]
            ELSE LET up   == Deref(ofs[l + 1])
                     slot == GetBits(bix, l)
                 IN  IF slot \in DOMAIN up THEN up[slot] ELSE Hole
    IN  ofs

\* The offset of a block of a file: a direct pointer, else the end of that way.
Lookup(di, bix) == IF bix < I0 THEN di.ptr[bix] ELSE Path(di, bix)[0]

\* Every block of a file that was flushed is found, at its last version.
Found(ino) == \A bix \in DOMAIN latest[ino] : Lookup(Inode(ino), bix) = latest[ino][bix]

\* The file ends exactly one block behind what a height can reach.
\* Its highest level then has two indirect blocks, and logfs_file_flush makes the
\* last one the root: the blocks below the other are lost.
Boundary(ino) ==
    \E h \in 1 .. MaxLevels : DOMAIN latest[ino] # {} /\ Max(DOMAIN latest[ino]) = Factor ^ h

\* After logfs_file_flush every block of the file is found through the inode,
\* whatever the order the blocks were written in, however often, and whichever
\* segments the levels moved through meanwhile.
FileIntact == \A ino \in flushed : ~exited /\ ~Boundary(ino) => Found(ino)

\* "Data at a position smaller than LOGFS_I0_SIZE is accessed through the direct
\* pointers, else through the 1x indirect pointer and so forth": no exception.
EveryFileIntact == \A ino \in flushed : ~exited => Found(ino)

\* The block index of the child in a slot of the block parent of a level.
ChildBix(parent, level, slot) ==
    LET first == parent - (Factor ^ level - 1)
    IN  IF level = 1 THEN first + slot ELSE first + (slot + 1) * Factor ^ (level - 1) - 1

\* The object at an offset is that block of that inode.
LeadsTo(ofs, ino, bix) ==
    ofs # Hole => \E so \in Live : /\ so[1] * SegSize + so[2].pos = ofs
                                  /\ so[2].ino = ino /\ so[2].bix = bix

\* A pointer never dangles: whatever is entered in an indirect block in memory,
\* on its way up through the levels, is an object that exists and whose header
\* names the very file and block the slot stands for.
PointersLead ==
    ~exited => \A ino \in Inos :
        /\ \A bix \in 0 .. I0 - 1 : LeadsTo(inode[ino].di_data[bix], ino, bix)
        /\ \A l \in TreeLevels : \A bix \in DOMAIN inode[ino].tree[l] :
              \A slot \in 0 .. Factor - 1 :
                 LeadsTo(inode[ino].tree[l][bix][slot], ino, ChildBix(bix, l, slot))
=============================================================================
