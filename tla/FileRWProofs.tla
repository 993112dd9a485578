---------------------------- MODULE FileRWProofs ----------------------------
(***************************************************************************)
(* Theorems about the files of FileRW on the object store of Segment, for   *)
(* every number of direct pointers and of pointers in a block, every device *)
(* and every order of writes.                                              *)
(***************************************************************************)
EXTENDS FileRW, SegmentSums

(* Maps                                                                    *)

\* The trees of btree.c as FileRW sees them: maps from block indices.
Maps(V) == UNION {[S -> V] : S \in SUBSET Nat}

LEMMA MapFacts ==
    ASSUME NEW V, NEW f \in Maps(V)
    PROVE  /\ DOMAIN f \subseteq Nat
           /\ \A x \in DOMAIN f : f[x] \in V
<1>1. PICK S \in SUBSET Nat : f \in [S -> V]
  BY DEF Maps
<1> QED
  BY <1>1

\* An insertion.
LEMMA PutFacts ==
    ASSUME NEW V, NEW f \in Maps(V), NEW k \in Nat, NEW v \in V
    PROVE  /\ Put(f, k, v) \in Maps(V)
           /\ DOMAIN Put(f, k, v) = DOMAIN f \cup {k}
           /\ Put(f, k, v)[k] = v
           /\ \A x \in DOMAIN f : x # k => Put(f, k, v)[x] = f[x]
<1> DEFINE D == DOMAIN f \cup {k}
<1>1. D \in SUBSET Nat /\ \A x \in DOMAIN f : f[x] \in V
  BY MapFacts
<1>2. Put(f, k, v) = [x \in D |-> IF x = k THEN v ELSE f[x]]
  BY DEF Put
<1>3. \A x \in D : (IF x = k THEN v ELSE f[x]) \in V
  BY <1>1
<1>4. Put(f, k, v) \in [D -> V]
  BY <1>2, <1>3
<1>5. Put(f, k, v) \in Maps(V)
  BY <1>1, <1>4 DEF Maps
<1> QED
  BY <1>2, <1>5

\* An insertion in a map to numbers.
LEMMA PutNumber ==
    ASSUME NEW f \in Maps(Nat), NEW k \in Nat, NEW v \in Nat
    PROVE  /\ Put(f, k, v) \in Maps(Nat)
           /\ DOMAIN Put(f, k, v) = DOMAIN f \cup {k}
           /\ Put(f, k, v)[k] = v
           /\ \A x \in DOMAIN f : x # k => Put(f, k, v)[x] = f[x]
<1> DEFINE D == DOMAIN f \cup {k}
<1>1. D \in SUBSET Nat /\ \A x \in DOMAIN f : f[x] \in Nat
  BY MapFacts
<1>2. Put(f, k, v) = [x \in D |-> IF x = k THEN v ELSE f[x]]
  BY DEF Put
<1>3. \A x \in D : (IF x = k THEN v ELSE f[x]) \in Nat
  BY <1>1
<1>4. Put(f, k, v) \in [D -> Nat]
  BY <1>2, <1>3
<1>5. Put(f, k, v) \in Maps(Nat)
  BY <1>1, <1>4 DEF Maps
<1> QED
  BY <1>2, <1>5

\* A removal.
LEMMA DropFacts ==
    ASSUME NEW V, NEW f \in Maps(V), NEW k
    PROVE  /\ Drop(f, k) \in Maps(V)
           /\ DOMAIN Drop(f, k) = DOMAIN f \ {k}
           /\ \A x \in DOMAIN f : x # k => Drop(f, k)[x] = f[x]
<1> DEFINE D == DOMAIN f \ {k}
<1>1. D \in SUBSET Nat /\ \A x \in DOMAIN f : f[x] \in V
  BY MapFacts
<1>2. Drop(f, k) = [x \in D |-> f[x]]
  BY DEF Drop
<1>3. Drop(f, k) \in [D -> V]
  BY <1>1, <1>2
<1>4. Drop(f, k) \in Maps(V)
  BY <1>1, <1>3 DEF Maps
<1> QED
  BY <1>2, <1>4

LEMMA EmptyMapFacts ==
    ASSUME NEW V
    PROVE  EmptyMap \in Maps(V) /\ DOMAIN EmptyMap = {}
<1>1. DOMAIN EmptyMap = {}
  BY DEF EmptyMap
<1>2. EmptyMap \in [{} -> V]
  BY DEF EmptyMap
<1> QED
  BY <1>1, <1>2 DEF Maps

\* A map with finitely many entries: what btree_last needs to find one.
Bounded(f) == \E n \in Nat : \A x \in DOMAIN f : x <= n

LEMMA PutBounded ==
    ASSUME NEW V, NEW f \in Maps(V), NEW k \in Nat, NEW v \in V, Bounded(f)
    PROVE  Bounded(Put(f, k, v))
<1>1. PICK n \in Nat : \A x \in DOMAIN f : x <= n
  BY DEF Bounded
<1>2. DOMAIN f \subseteq Nat
  BY MapFacts
<1>3. DOMAIN Put(f, k, v) = DOMAIN f \cup {k}
  BY PutFacts
<1>4. \A x \in DOMAIN Put(f, k, v) : x <= n + k
  BY <1>1, <1>2, <1>3
<1> QED
  BY <1>4 DEF Bounded

LEMMA DropBounded ==
    ASSUME NEW V, NEW f \in Maps(V), NEW k, Bounded(f)
    PROVE  Bounded(Drop(f, k))
<1>1. DOMAIN Drop(f, k) = DOMAIN f \ {k}
  BY DEF Drop
<1> QED
  BY <1>1 DEF Bounded

\* btree_last of a tree that is not empty is one of its keys.
LEMMA TreeLastFacts ==
    ASSUME NEW V, NEW f \in Maps(V), Bounded(f), DOMAIN f # {}
    PROVE  TreeLast(f) \in DOMAIN f
<1> DEFINE D == DOMAIN f
           Above == {n \in Nat : \A x \in D : x <= n}
<1>1. D \subseteq Nat
  BY MapFacts
<1>2. Above \subseteq Nat /\ Above # {}
  BY DEF Bounded
<1> HIDE DEF Above
<1>3. PICK m \in Above : \A k \in Above : m <= k
  BY <1>2, LeastElement
<1>4. m \in Nat /\ \A x \in D : x <= m
  BY <1>3 DEF Above
<1>5. m \in D
  <2> SUFFICES ASSUME m \notin D PROVE FALSE
    OBVIOUS
  <2>1. \A x \in D : x <= m - 1
    BY <1>1, <1>4
  <2>2. m - 1 \in Nat
    BY <1>1, <1>4, <2>1
  <2>3. m - 1 \in Above
    BY <2>1, <2>2 DEF Above
  <2> QED
    BY <1>3, <1>4, <2>3
<1>6. \E x \in D : \A y \in D : x >= y
  BY <1>1, <1>4, <1>5
<1> QED
  BY <1>6 DEF TreeLast, Max

----------------------------------------------------------------------------
(* Block indices                                                           *)

\* The powers of the block factor.
LEMMA Powers ==
    ASSUME NEW n \in 0 .. MaxLevels
    PROVE  Factor ^ n \in Nat /\ Factor ^ n > 0
  BY PowerAssumption

LEMMA Constants ==
    /\ Factor \in Nat /\ Factor > 2 /\ I0 \in Nat /\ I0 > 1 /\ I0 < Factor
    /\ MaxLevels \in Nat /\ MaxLevels > 1
    /\ TreeLevels \subseteq Levels /\ 0 \in Levels
    /\ \A l \in TreeLevels : l \in 0 .. MaxLevels
    /\ MaskLevels \in Nat /\ MaskLevels > 0 /\ MaskLevels < MaxLevels
  BY FileAssumption, DeviceAssumption DEF TreeLevels, Levels

\* Up to MaskLevels the mask is right.
LEMMA RightMask ==
    ASSUME NEW bix, NEW n \in 0 .. MaskLevels
    PROVE  /\ n \in 0 .. MaxLevels
           /\ ParentBix(bix, n) = (bix \div Factor ^ n) * Factor ^ n + Factor ^ n - 1
  BY Constants DEF ParentBix, BlockSpan

\* Parents are blocks, slots are slots.
LEMMA IndexTypes ==
    ASSUME NEW bix \in Nat, NEW n \in 0 .. MaskLevels
    PROVE  ParentBix(bix, n) \in Nat /\ GetBits(bix, n) \in 0 .. Factor - 1
<1> DEFINE P == Factor ^ n
           q == bix \div P
<1>1. P \in Nat /\ P > 0
  BY Powers, RightMask
<1>2. Factor \in Nat /\ Factor > 2
  BY Constants
<1> HIDE DEF P
<1>3. q \in Nat
  BY <1>1
<1> HIDE DEF q
<1>4. q * P \in Nat
  BY <1>1, <1>3
<1>5. q % Factor \in 0 .. Factor - 1
  BY <1>2, <1>3
<1> QED
  BY <1>1, <1>4, <1>5, RightMask DEF GetBits, P, q

\* grow_inode stops at a height there are areas for, above 0 for a block that
\* has no direct pointer.
LEMMA GrownHeightFacts ==
    ASSUME NEW height \in 0 .. MaskLevels, NEW bix \in Nat,
           bix <= Factor ^ MaskLevels
    PROVE  /\ GrownHeight(height, bix) \in height .. MaskLevels
           /\ bix >= I0 => GrownHeight(height, bix) > 0
<1> DEFINE H == {h \in height .. MaxLevels : bix <= maxbix(h)}
<1>1. MaskLevels \in H /\ H \subseteq Nat
  BY Constants DEF maxbix
<1>2. PICK m \in H : \A k \in H : m <= k
  BY <1>1, LeastElement
<1>3. GrownHeight(height, bix) \in H /\ \A k \in H : GrownHeight(height, bix) <= k
  <2>1. GrownHeight(height, bix) = CHOOSE x \in H : \A y \in H : x <= y
    BY DEF GrownHeight, Min
  <2> HIDE DEF H
  <2> QED
    BY <1>2, <2>1
<1>4. GrownHeight(height, bix) \in height .. MaskLevels
  BY <1>1, <1>3, Constants
<1>5. ASSUME bix >= I0, GrownHeight(height, bix) = 0 PROVE FALSE
  <2>1. bix <= Factor ^ 0
    BY <1>3, <1>5 DEF maxbix
  <2> QED
    BY <1>5, <2>1, PowerAssumption, Constants
<1> QED
  BY <1>4, <1>5

----------------------------------------------------------------------------
(* Inodes                                                                  *)

Blocks == [0 .. Factor - 1 -> Nat]
Trees  == Maps(Blocks)
Node   == [di_height : 0 .. MaskLevels, di_data : [0..I0 -> Nat],
           tree : [TreeLevels -> Trees]]

\* The trees of an inode are finite and end at its height.
WithinHeight(node) ==
    \A l \in TreeLevels : /\ Bounded(node.tree[l])
                          /\ DOMAIN node.tree[l] # {} => l <= node.di_height

LEMMA NodeFacts ==
    ASSUME NEW node \in Node
    PROVE  /\ node.di_height \in 0 .. MaskLevels
           /\ node.di_data \in [0..I0 -> Nat]
           /\ node.tree \in [TreeLevels -> Trees]
           /\ \A l \in TreeLevels : node.tree[l] \in Trees
  BY DEF Node

\* A direct pointer is entered.
LEMMA WriteDirectNode ==
    ASSUME NEW node \in Node, NEW bix \in 0 .. I0, NEW ofs \in Nat
    PROVE  LET new == WriteDirect(node, bix, ofs)
           IN  /\ new \in Node
               /\ new.di_height = node.di_height /\ new.tree = node.tree
               /\ new.di_data = [node.di_data EXCEPT ![bix] = ofs]
<1> DEFINE data == [node.di_data EXCEPT ![bix] = ofs]
<1>1. data \in [0..I0 -> Nat]
  BY NodeFacts
<1>2. WriteDirect(node, bix, ofs) = [node EXCEPT !.di_data = data]
  BY DEF WriteDirect, Node
<1> HIDE DEF data
<1>3. WriteDirect(node, bix, ofs)
        = [di_height |-> node.di_height, di_data |-> data, tree |-> node.tree]
  BY <1>2 DEF Node
<1>4. WriteDirect(node, bix, ofs) \in Node
  BY <1>1, <1>3, NodeFacts DEF Node
<1> QED
  BY <1>3, <1>4 DEF data

\* A file grows.
LEMMA GrowNode ==
    ASSUME NEW node \in Node, NEW h \in 0 .. MaskLevels
    PROVE  LET new == [node EXCEPT !.di_height = h]
           IN  /\ new \in Node
               /\ new.di_height = h /\ new.di_data = node.di_data
               /\ new.tree = node.tree
<1>1. [node EXCEPT !.di_height = h]
        = [di_height |-> h, di_data |-> node.di_data, tree |-> node.tree]
  BY DEF Node
<1>2. [node EXCEPT !.di_height = h] \in Node
  BY <1>1, NodeFacts DEF Node
<1> QED
  BY <1>1, <1>2

\* One tree of an inode is replaced.
LEMMA TreeNode ==
    ASSUME NEW node \in Node, NEW l \in TreeLevels, NEW tree \in Trees
    PROVE  LET new == [node EXCEPT !.tree[l] = tree]
           IN  /\ new \in Node
               /\ new.di_height = node.di_height /\ new.di_data = node.di_data
               /\ new.tree[l] = tree
               /\ \A m \in TreeLevels : m # l => new.tree[m] = node.tree[m]
<1> DEFINE trees == [node.tree EXCEPT ![l] = tree]
<1>1. trees \in [TreeLevels -> Trees] /\ trees[l] = tree
      /\ \A m \in TreeLevels : m # l => trees[m] = node.tree[m]
  BY NodeFacts
<1>2. [node EXCEPT !.tree[l] = tree] = [node EXCEPT !.tree = trees]
  BY DEF Node
<1> HIDE DEF trees
<1>3. [node EXCEPT !.tree[l] = tree]
        = [di_height |-> node.di_height, di_data |-> node.di_data, tree |-> trees]
  BY <1>2 DEF Node
<1>4. [node EXCEPT !.tree[l] = tree] \in Node
  BY <1>1, <1>3, NodeFacts DEF Node
<1> QED
  BY <1>1, <1>3, <1>4

\* The block write_loop enters a pointer in.
Entered(node, bix, level, ofs) ==
    [BlockAt(node.tree[level + 1], ParentBix(bix, level + 1))
        EXCEPT ![GetBits(bix, level)] = ofs]

LEMMA EnteredFacts ==
    ASSUME NEW node \in Node, NEW bix \in Nat, NEW level \in 0 .. MaskLevels - 1,
           NEW ofs \in Nat
    PROVE  LET parent == ParentBix(bix, level + 1)
               old    == BlockAt(node.tree[level + 1], parent)
               new    == Entered(node, bix, level, ofs)
           IN  /\ level + 1 \in TreeLevels /\ parent \in Nat
               /\ old \in Blocks /\ new \in Blocks
               /\ GetBits(bix, level) \in 0 .. Factor - 1
               /\ new[GetBits(bix, level)] = ofs
               /\ \A slot \in 0 .. Factor - 1 :
                     slot # GetBits(bix, level) => new[slot] = old[slot]
<1> DEFINE parent == ParentBix(bix, level + 1)
           old    == BlockAt(node.tree[level + 1], parent)
<1>1. level + 1 \in TreeLevels /\ level \in 0 .. MaskLevels /\ level + 1 \in 0 .. MaskLevels
  BY Constants DEF TreeLevels
<1>2. parent \in Nat /\ GetBits(bix, level) \in 0 .. Factor - 1
  BY <1>1, IndexTypes
<1>3. node.tree[level + 1] \in Maps(Blocks)
  BY <1>1, NodeFacts DEF Trees
<1>4. ZeroBlock \in Blocks
  BY DEF ZeroBlock, Blocks, Hole
<1>5. old \in Blocks
  <2> HIDE DEF parent
  <2> QED
    BY <1>3, <1>4, MapFacts DEF BlockAt
<1>6. Entered(node, bix, level, ofs) = [old EXCEPT ![GetBits(bix, level)] = ofs]
  BY DEF Entered
<1> HIDE DEF old
<1>7. /\ Entered(node, bix, level, ofs) \in Blocks
      /\ Entered(node, bix, level, ofs)[GetBits(bix, level)] = ofs
      /\ \A slot \in 0 .. Factor - 1 :
            slot # GetBits(bix, level) =>
                Entered(node, bix, level, ofs)[slot] = old[slot]
  BY <1>2, <1>5, <1>6 DEF Blocks
<1> QED
  BY <1>1, <1>2, <1>5, <1>7 DEF old

\* write_loop changes one tree, by one block.
LEMMA WriteLoopNode ==
    ASSUME NEW node \in Node, NEW bix \in Nat, NEW level \in 0 .. MaskLevels - 1,
           NEW ofs \in Nat
    PROVE  LET new == WriteLoop(node, bix, level, ofs)
           IN  /\ new \in Node
               /\ new.di_height = node.di_height /\ new.di_data = node.di_data
               /\ new.tree[level + 1] = Put(node.tree[level + 1],
                      ParentBix(bix, level + 1), Entered(node, bix, level, ofs))
               /\ \A m \in TreeLevels : m # level + 1 => new.tree[m] = node.tree[m]
<1> DEFINE tree == Put(node.tree[level + 1], ParentBix(bix, level + 1),
                       Entered(node, bix, level, ofs))
<1>1. /\ level + 1 \in TreeLevels /\ ParentBix(bix, level + 1) \in Nat
      /\ Entered(node, bix, level, ofs) \in Blocks
  BY EnteredFacts
<1>2. node.tree[level + 1] \in Maps(Blocks)
  BY <1>1, NodeFacts DEF Trees
<1>3. tree \in Trees
  BY <1>1, <1>2, PutFacts DEF Trees
<1>4. WriteLoop(node, bix, level, ofs) = [node EXCEPT !.tree[level + 1] = tree]
  BY DEF WriteLoop, Entered
<1> HIDE DEF tree
<1> QED
  BY <1>1, <1>3, <1>4, TreeNode DEF tree

\* A block that is entered below the height of a file keeps the trees below it.
LEMMA WriteLoopWithin ==
    ASSUME NEW node \in Node, NEW bix \in Nat, NEW level \in 0 .. MaskLevels - 1,
           NEW ofs \in Nat, WithinHeight(node), level + 1 <= node.di_height
    PROVE  WithinHeight(WriteLoop(node, bix, level, ofs))
<1> DEFINE new == WriteLoop(node, bix, level, ofs)
<1>1. /\ level + 1 \in TreeLevels /\ ParentBix(bix, level + 1) \in Nat
      /\ Entered(node, bix, level, ofs) \in Blocks
  BY EnteredFacts
<1>2. /\ new.di_height = node.di_height
      /\ new.tree[level + 1] = Put(node.tree[level + 1],
            ParentBix(bix, level + 1), Entered(node, bix, level, ofs))
      /\ \A m \in TreeLevels : m # level + 1 => new.tree[m] = node.tree[m]
  BY WriteLoopNode
<1>3. node.tree[level + 1] \in Maps(Blocks) /\ Bounded(node.tree[level + 1])
  BY <1>1, NodeFacts DEF Trees, WithinHeight
<1>4. Bounded(new.tree[level + 1])
  <2> HIDE DEF new
  <2> QED
    BY <1>1, <1>2, <1>3, PutBounded
<1> HIDE DEF new
<1>5. ASSUME NEW m \in TreeLevels
      PROVE  /\ Bounded(new.tree[m])
             /\ DOMAIN new.tree[m] # {} => m <= new.di_height
  BY <1>2, <1>4 DEF WithinHeight
<1> QED
  BY <1>5 DEF WithinHeight, new

\* A block leaves its tree.
LEMMA DropNode ==
    ASSUME NEW node \in Node, NEW l \in TreeLevels, NEW bix, WithinHeight(node)
    PROVE  LET new == [node EXCEPT !.tree[l] = Drop(@, bix)]
           IN  /\ new \in Node /\ WithinHeight(new)
               /\ new.di_height = node.di_height /\ new.di_data = node.di_data
               /\ new.tree[l] = Drop(node.tree[l], bix)
               /\ \A m \in TreeLevels : m # l => new.tree[m] = node.tree[m]
<1> DEFINE tree == Drop(node.tree[l], bix)
           new  == [node EXCEPT !.tree[l] = tree]
<1>1. node.tree[l] \in Maps(Blocks) /\ Bounded(node.tree[l])
  BY NodeFacts DEF Trees, WithinHeight
<1>2. tree \in Maps(Blocks) /\ DOMAIN tree = DOMAIN node.tree[l] \ {bix}
  BY <1>1, DropFacts
<1>3. Bounded(tree)
  BY <1>1, DropBounded
<1>4. tree \in Trees
  BY <1>2 DEF Trees
<1> HIDE DEF tree
<1>5. /\ new \in Node
      /\ new.di_height = node.di_height /\ new.di_data = node.di_data
      /\ new.tree[l] = tree
      /\ \A m \in TreeLevels : m # l => new.tree[m] = node.tree[m]
  BY <1>4, TreeNode
<1> HIDE DEF new
<1>6. ASSUME NEW m \in TreeLevels
      PROVE  /\ Bounded(new.tree[m])
             /\ DOMAIN new.tree[m] # {} => m <= new.di_height
  BY <1>2, <1>3, <1>5 DEF WithinHeight
<1> QED
  BY <1>5, <1>6 DEF WithinHeight, new, tree

\* What logfs_file_write makes of the inode.
Written(node, bix, ofs) ==
    IF bix < I0
    THEN WriteDirect(node, bix, ofs)
    ELSE WriteLoop([node EXCEPT !.di_height = GrownHeight(@, bix)], bix, 0, ofs)

LEMMA WrittenNode ==
    ASSUME NEW node \in Node, NEW bix \in Nat, NEW ofs \in Nat,
           bix <= Factor ^ MaskLevels, WithinHeight(node)
    PROVE  /\ Written(node, bix, ofs) \in Node
           /\ WithinHeight(Written(node, bix, ofs))
           /\ Written(node, bix, ofs).di_height >= node.di_height
<1>1. CASE bix < I0
  <2> DEFINE new == WriteDirect(node, bix, ofs)
  <2>1. bix \in 0 .. I0
    BY <1>1, Constants
  <2>2. /\ new \in Node
        /\ new.di_height = node.di_height /\ new.tree = node.tree
    BY <2>1, WriteDirectNode
  <2>3. Written(node, bix, ofs) = new
    BY <1>1 DEF Written
  <2> HIDE DEF new
  <2>4. node.di_height \in Nat
    BY NodeFacts
  <2> QED
    BY <2>2, <2>3, <2>4 DEF WithinHeight
<1>2. CASE bix >= I0
  <2> DEFINE h == GrownHeight(node.di_height, bix)
             tall == [node EXCEPT !.di_height = h]
  <2>1. node.di_height \in 0 .. MaskLevels
    BY NodeFacts
  <2>2. h \in node.di_height .. MaskLevels /\ h > 0
    BY <1>2, <2>1, GrownHeightFacts
  <2>3. h \in 0 .. MaskLevels /\ 0 \in 0 .. MaskLevels - 1 /\ 1 <= h /\ h >= node.di_height
    BY <2>1, <2>2, Constants
  <2>4. Written(node, bix, ofs) = WriteLoop(tall, bix, 0, ofs)
    BY <1>2, Constants DEF Written
  <2> HIDE DEF h
  <2>5. /\ tall \in Node /\ tall.di_height = h /\ tall.tree = node.tree
    BY <2>3, GrowNode
  <2> HIDE DEF tall
  <2>6. WithinHeight(tall)
    <3>1. \A l \in TreeLevels : l \in Nat
      BY DEF TreeLevels
    <3>2. ASSUME NEW l \in TreeLevels
          PROVE  /\ Bounded(tall.tree[l])
                 /\ DOMAIN tall.tree[l] # {} => l <= tall.di_height
      BY <2>1, <2>3, <2>5, <3>1 DEF WithinHeight
    <3> QED
      BY <3>2 DEF WithinHeight
  <2>7. 0 + 1 <= tall.di_height
    BY <2>3, <2>5
  <2>8. WithinHeight(WriteLoop(tall, bix, 0, ofs))
    BY <2>3, <2>5, <2>6, <2>7, WriteLoopWithin
  <2>9. /\ WriteLoop(tall, bix, 0, ofs) \in Node
        /\ WriteLoop(tall, bix, 0, ofs).di_height = tall.di_height
    BY <2>3, <2>5, WriteLoopNode
  <2> QED
    BY <2>3, <2>4, <2>5, <2>8, <2>9
<1> QED
  BY <1>1, <1>2, Constants

----------------------------------------------------------------------------
(* Type correctness                                                        *)

NodesOK ==
    /\ inode \in [Inos -> Node]
    /\ \A ino \in Inos : WithinHeight(inode[ino])

\* A flush is under way only for a file that has indirect blocks.
FlushOK ==
    /\ flushing \in Inos \cup {None}
    /\ flushing # None => inode[flushing].di_height > 0

HistoryOK ==
    /\ flushed \subseteq Inos
    /\ DOMAIN content \subseteq Nat
    /\ latest \in [Inos -> Maps(Nat)]
    /\ \A ino \in Inos : \A bix \in DOMAIN latest[ino] :
          latest[ino][bix] \in DOMAIN content

\* The inductive invariant.
FileInv == TypeOK /\ NodesOK /\ FlushOK /\ HistoryOK

\* Offsets and places are numbers.
LEMMA OffsetTypes ==
    ASSUME TypeOK, NEW l \in Areas, NEW s \in Segs
    PROVE  /\ NextPos(l) \in Nat
           /\ Place(l, s) \in Nat /\ WriteOfs(l, s) \in Nat
<1>1. NextPos(l) \in Nat
  BY SizeAssumption DEF NextPos, TypeOK, AreaType
<1>2. s \in Nat /\ SegSize \in Nat /\ OffsetMod \in Nat /\ OffsetMod > 0
  BY DeviceAssumption DEF Segs
<1>3. s * SegSize \in Nat
  BY <1>2
<1>4. s * SegSize + NextPos(l) \in Nat
  BY <1>1, <1>3
<1>5. (s * SegSize + NextPos(l)) % OffsetMod \in Nat
  <2> DEFINE n == s * SegSize + NextPos(l)
  <2>1. n \in Nat
    BY <1>4
  <2> HIDE DEF n
  <2>2. n % OffsetMod \in Nat
    BY <1>2, <2>1
  <2> QED
    BY <2>2 DEF n
<1> QED
  BY <1>1, <1>4, <1>5 DEF Place, WriteOfs

\* The loop over the levels is at a level of the file: one with blocks, or the top.
LEMMA FlushLevelFacts ==
    ASSUME FileInv, flushing # None
    PROVE  LET level == FlushLevel(flushing)
               node  == inode[flushing]
           IN  /\ flushing \in Inos /\ node \in Node /\ WithinHeight(node)
               /\ level \in TreeLevels /\ level <= node.di_height
               /\ level # node.di_height => DOMAIN node.tree[level] # {}
<1> DEFINE node == inode[flushing]
           H == {l \in TreeLevels : \/ l = node.di_height
                                    \/ l < node.di_height /\ DOMAIN node.tree[l] # {}}
<1>1. flushing \in Inos /\ node \in Node /\ WithinHeight(node) /\ node.di_height > 0
  BY DEF FileInv, NodesOK, FlushOK
<1>2. node.di_height \in TreeLevels
  BY <1>1, NodeFacts, Constants DEF TreeLevels
<1>3. H \subseteq Nat /\ node.di_height \in H
  BY <1>2 DEF TreeLevels
<1>4. FlushLevel(flushing) = CHOOSE x \in H : \A y \in H : x <= y
  BY DEF FlushLevel, Min
<1> HIDE DEF H
<1>5. \E x \in H : \A y \in H : x <= y
  BY <1>3, LeastElement
<1>6. FlushLevel(flushing) \in H
  BY <1>4, <1>5
<1>7. \A l \in H : /\ l \in TreeLevels /\ l <= node.di_height
                   /\ l # node.di_height => DOMAIN node.tree[l] # {}
  <2>1. node.di_height \in Nat
    BY <1>1, NodeFacts
  <2> QED
    BY <2>1 DEF H, TreeLevels
<1> QED
  BY <1>1, <1>6, <1>7

\* The place of an object joins the places there are.
LEMMA StoreAtFacts ==
    ASSUME TypeOK, HistoryOK, NEW l \in Areas, NEW s \in Segs, NEW data,
           StoreAt(l, s, data)
    PROVE  /\ DOMAIN content' = DOMAIN content \cup {Place(l, s)}
           /\ DOMAIN content' \subseteq Nat
           /\ \A p \in DOMAIN content : p # Place(l, s) => content'[p] = content[p]
           /\ content'[Place(l, s)] = data
<1>1. Place(l, s) \in Nat
  BY OffsetTypes
<1> HIDE DEF Place
<1>2. content' = [x \in DOMAIN content \cup {Place(l, s)} |->
                    IF x = Place(l, s) THEN data ELSE content[x]]
  BY DEF StoreAt, Put
<1> QED
  BY <1>1, <1>2 DEF HistoryOK

\* A write of a block of the file.
LEMMA FileWriteInv ==
    ASSUME FileInv, NEW type \in Types, NEW ino \in Inos, NEW bix \in Nat,
           bix <= Factor ^ MaskLevels, NEW data, NEW s \in Segs,
           FileWrite(type, ino, bix, data, s)
    PROVE  FileInv'
<1> DEFINE l == AreaOf(ino, 0)
           ofs == WriteOfs(l, s)
           place == Place(l, s)
<1>1. /\ SegmentWrite(type, ino, bix, 0, s)
      /\ StoreAt(l, s, data)
      /\ inode' = [inode EXCEPT ![ino] = Written(inode[ino], bix, ofs)]
      /\ latest' = [latest EXCEPT ![ino] = Put(@, bix, place)]
      /\ UNCHANGED <<flushing, flushed>>
  BY DEF FileWrite, Written
<1>2. TypeOK /\ NodesOK /\ FlushOK /\ HistoryOK
  BY DEF FileInv
<1>3. l \in Areas /\ 0 \in Levels
  BY AreaOfType, Constants
<1>4. TypeOK'
  BY <1>1, <1>2, <1>3, SegmentWriteType
<1>5. ofs \in Nat /\ place \in Nat
  BY <1>2, <1>3, OffsetTypes
<1>6. /\ DOMAIN content' = DOMAIN content \cup {place}
      /\ DOMAIN content' \subseteq Nat
  BY <1>1, <1>2, <1>3, StoreAtFacts
<1> HIDE DEF l, ofs, place
<1>7. inode[ino] \in Node /\ WithinHeight(inode[ino])
  BY <1>2 DEF NodesOK
<1>8. /\ Written(inode[ino], bix, ofs) \in Node
      /\ WithinHeight(Written(inode[ino], bix, ofs))
      /\ Written(inode[ino], bix, ofs).di_height >= inode[ino].di_height
  BY <1>5, <1>7, WrittenNode
<1>12. Written(inode[ino], bix, ofs).di_height \in Nat /\ inode[ino].di_height \in Nat
  BY <1>7, <1>8, NodeFacts
<1>9. NodesOK'
  BY <1>1, <1>2, <1>8 DEF NodesOK
<1>10. FlushOK'
  <2>1. CASE flushing = None
    BY <1>1, <1>2, <2>1 DEF FlushOK
  <2>2. CASE flushing # None
    <3>1. inode[flushing].di_height > 0 /\ flushing \in Inos
      BY <1>2, <2>2 DEF FlushOK
    <3>2. inode'[flushing].di_height > 0
      BY <1>1, <1>2, <1>8, <1>12, <3>1 DEF NodesOK
    <3> QED
      BY <1>1, <1>2, <3>1, <3>2 DEF FlushOK
  <2> QED
    BY <2>1, <2>2
<1>11. HistoryOK'
  <2> DEFINE new == Put(latest[ino], bix, place)
  <2>1. latest[ino] \in Maps(Nat)
    BY <1>2 DEF HistoryOK
  <2>6. new \in Maps(Nat)
    BY <1>5, <2>1, PutNumber
  <2>7. /\ DOMAIN new = DOMAIN latest[ino] \cup {bix}
        /\ new[bix] = place
        /\ \A x \in DOMAIN latest[ino] : x # bix => new[x] = latest[ino][x]
    BY DEF Put
  <2>2. /\ new \in Maps(Nat) /\ DOMAIN new = DOMAIN latest[ino] \cup {bix}
        /\ new[bix] = place
        /\ \A x \in DOMAIN latest[ino] : x # bix => new[x] = latest[ino][x]
    BY <2>6, <2>7
  <2>3. latest' = [latest EXCEPT ![ino] = new]
    BY <1>1
  <2> HIDE DEF new
  <2>4. latest' \in [Inos -> Maps(Nat)]
    BY <1>2, <2>2, <2>3 DEF HistoryOK
  <2>5. ASSUME NEW i \in Inos, NEW x \in DOMAIN latest'[i]
        PROVE  latest'[i][x] \in DOMAIN content'
    <3>1. CASE i = ino
      BY <1>2, <1>6, <2>2, <2>3, <3>1 DEF HistoryOK
    <3>2. CASE i # ino
      BY <1>2, <1>6, <2>3, <3>2 DEF HistoryOK
    <3> QED
      BY <3>1, <3>2
  <2> QED
    BY <1>1, <1>2, <1>6, <2>4, <2>5 DEF HistoryOK
<1> QED
  BY <1>4, <1>9, <1>10, <1>11 DEF FileInv

\* The block a flush writes next: a block of the tree of the level it is at.
LEMMA FlushedBlock ==
    ASSUME FileInv, flushing # None,
           DOMAIN inode[flushing].tree[FlushLevel(flushing)] # {}
    PROVE  LET level == FlushLevel(flushing)
               tree  == inode[flushing].tree[level]
               bix   == TreeLast(tree)
           IN  /\ tree \in Trees /\ bix \in DOMAIN tree /\ bix \in Nat
               /\ tree[bix] \in Blocks
               /\ AreaOf(flushing, level) \in Areas /\ level \in Levels
<1> DEFINE level == FlushLevel(flushing)
           tree == inode[flushing].tree[level]
<1>1. /\ flushing \in Inos /\ inode[flushing] \in Node /\ WithinHeight(inode[flushing])
      /\ level \in TreeLevels
  BY FlushLevelFacts
<1> HIDE DEF level
<1>2. tree \in Maps(Blocks) /\ Bounded(tree)
  BY <1>1, NodeFacts DEF Trees, WithinHeight
<1>3. DOMAIN tree # {}
  BY DEF level
<1> HIDE DEF tree
<1>4. TreeLast(tree) \in DOMAIN tree
  BY <1>2, <1>3, TreeLastFacts
<1>5. TreeLast(tree) \in Nat /\ tree[TreeLast(tree)] \in Blocks
  BY <1>2, <1>4, MapFacts
<1>6. level \in Levels
  BY <1>1, Constants
<1>7. AreaOf(flushing, level) \in Areas
  BY <1>1, <1>6, AreaOfType
<1> QED
  BY <1>2, <1>4, <1>5, <1>6, <1>7 DEF Trees, tree, level

\* A step that writes an object for a flush leaves the history in order.
LEMMA FlushHistory ==
    ASSUME TypeOK, HistoryOK, NEW l \in Areas, NEW s \in Segs, NEW data,
           StoreAt(l, s, data), UNCHANGED latest,
           flushed' \subseteq Inos
    PROVE  HistoryOK'
<1>1. /\ DOMAIN content' = DOMAIN content \cup {Place(l, s)}
      /\ DOMAIN content' \subseteq Nat
  BY StoreAtFacts
<1> QED
  BY <1>1 DEF HistoryOK

\* One turn of the loops of logfs_file_flush.
LEMMA FlushBlockInv ==
    ASSUME FileInv, NEW s \in Segs, FlushBlock(s)
    PROVE  FileInv'
<1> DEFINE ino == flushing
           level == FlushLevel(ino)
           node == inode[ino]
           bix == TreeLast(node.tree[level])
           l == AreaOf(ino, level)
           ofs == WriteOfs(l, s)
           less == [node EXCEPT !.tree[level] = Drop(@, bix)]
           new == WriteLoop(less, bix, level, ofs)
<1>1. /\ flushing # None /\ level < node.di_height
      /\ SegmentWrite("block", ino, bix, level, s)
      /\ StoreAt(l, s, Pointers(node.tree[level][bix]))
      /\ inode' = [inode EXCEPT ![ino] = new]
      /\ UNCHANGED <<flushing, flushed, latest>>
  BY DEF FlushBlock
<1>2. /\ ino \in Inos /\ node \in Node /\ WithinHeight(node)
      /\ level \in TreeLevels /\ level <= node.di_height
      /\ level # node.di_height => DOMAIN node.tree[level] # {}
  BY <1>1, FlushLevelFacts
<1>3. node.di_height \in 0 .. MaskLevels /\ level \in Nat
  BY <1>2, NodeFacts DEF TreeLevels
<1>4. DOMAIN node.tree[level] # {}
  BY <1>1, <1>2, <1>3
<1>5. bix \in Nat /\ l \in Areas /\ level \in Levels
  BY <1>1, <1>4, FlushedBlock
<1>6. TypeOK /\ NodesOK /\ FlushOK /\ HistoryOK
  BY DEF FileInv
<1>7. TypeOK'
  BY <1>1, <1>2, <1>5, <1>6, SegmentWriteType DEF Types
<1>8. ofs \in Nat
  BY <1>5, <1>6, OffsetTypes
<1> HIDE DEF ino, level, node, bix, l, ofs
<1>9. /\ less \in Node /\ WithinHeight(less) /\ less.di_height = node.di_height
  BY <1>2, DropNode
<1> HIDE DEF less
<1>16. MaskLevels \in Nat
  BY Constants
<1>10. level \in 0 .. MaskLevels - 1 /\ level + 1 <= less.di_height
  BY <1>1, <1>3, <1>9, <1>16
<1>11. new \in Node /\ new.di_height = node.di_height
  BY <1>5, <1>8, <1>9, <1>10, WriteLoopNode
<1>12. WithinHeight(new)
  BY <1>5, <1>8, <1>9, <1>10, WriteLoopWithin
<1> HIDE DEF new
<1>13. NodesOK'
  BY <1>1, <1>2, <1>6, <1>11, <1>12 DEF NodesOK
<1>14. FlushOK'
  <2>1. inode'[ino] = new
    BY <1>1, <1>2, <1>6 DEF NodesOK
  <2>2. node.di_height > 0 /\ ino \in Inos
    BY <1>1, <1>2, <1>6 DEF FlushOK, node, ino
  <2> QED
    BY <1>1, <1>11, <2>1, <2>2 DEF FlushOK, ino
<1>15. HistoryOK'
  BY <1>1, <1>5, <1>6, FlushHistory DEF HistoryOK
<1> QED
  BY <1>7, <1>13, <1>14, <1>15 DEF FileInv

\* The last block of the highest level goes into the inode.
LEMMA FlushRootInv ==
    ASSUME FileInv, NEW s \in Segs, FlushRoot(s)
    PROVE  FileInv'
<1> DEFINE ino == flushing
           level == FlushLevel(ino)
           node == inode[ino]
           bix == TreeLast(node.tree[level])
           l == AreaOf(ino, level)
           ofs == WriteOfs(l, s)
           less == [node EXCEPT !.tree[level] = Drop(@, bix)]
           new == WriteDirect(less, I0, ofs)
<1>1. /\ flushing # None /\ DOMAIN node.tree[level] # {}
      /\ SegmentWrite("block", ino, bix, level, s)
      /\ StoreAt(l, s, Pointers(node.tree[level][bix]))
      /\ flushing' = None /\ flushed' = flushed \cup {ino}
      /\ UNCHANGED latest
  BY DEF FlushRoot
<1>2. /\ ino \in Inos /\ node \in Node /\ WithinHeight(node)
      /\ level \in TreeLevels
  BY <1>1, FlushLevelFacts
<1>3. TypeOK /\ NodesOK /\ FlushOK /\ HistoryOK
  BY DEF FileInv
<1>4. inode' = [inode EXCEPT ![ino] = new]
  <2>1. inode' = [inode EXCEPT ![ino].tree[level] = Drop(@, bix), ![ino].di_data[I0] = ofs]
    BY DEF FlushRoot
  <2> HIDE DEF ino, level, bix, ofs
  <2>2. inode' = [inode EXCEPT ![ino] = [[node EXCEPT !.tree[level] = Drop(@, bix)]
                                          EXCEPT !.di_data[I0] = ofs]]
    BY <1>2, <1>3, <2>1 DEF NodesOK, Node
  <2> QED
    BY <2>2 DEF WriteDirect
<1>5. bix \in Nat /\ l \in Areas /\ level \in Levels
  BY <1>1, FlushedBlock
<1>7. TypeOK'
  BY <1>1, <1>2, <1>3, <1>5, SegmentWriteType DEF Types
<1>8. ofs \in Nat
  BY <1>3, <1>5, OffsetTypes
<1> HIDE DEF ino, level, node, bix, l, ofs
<1>9. less \in Node /\ WithinHeight(less)
  BY <1>2, DropNode
<1> HIDE DEF less
<1>10. new \in Node /\ new.tree = less.tree /\ new.di_height = less.di_height
  <2>1. I0 \in 0 .. I0
    BY Constants
  <2> QED
    BY <1>8, <1>9, <2>1, WriteDirectNode
<1>11. WithinHeight(new)
  BY <1>9, <1>10 DEF WithinHeight
<1> HIDE DEF new
<1>12. NodesOK'
  BY <1>2, <1>3, <1>4, <1>10, <1>11 DEF NodesOK
<1>13. FlushOK'
  BY <1>1 DEF FlushOK
<1>14. HistoryOK'
  <2>1. flushed' \subseteq Inos
    BY <1>1, <1>2, <1>3 DEF HistoryOK
  <2> QED
    BY <1>1, <1>3, <1>5, <2>1, FlushHistory
<1> QED
  BY <1>7, <1>12, <1>13, <1>14 DEF FileInv

\* The call of logfs_file_flush.
LEMMA StartFlushInv ==
    ASSUME FileInv, NEW ino \in Inos, StartFlush(ino)
    PROVE  FileInv'
<1>1. /\ UNCHANGED <<segVars, inode, content, latest>>
      /\ \/ flushed' = flushed \cup {ino} /\ UNCHANGED flushing
         \/ flushing' = ino /\ UNCHANGED flushed /\ inode[ino].di_height # 0
  BY DEF StartFlush
<1>2. TypeOK'
  BY <1>1 DEF FileInv, TypeOK, segVars
<1>3. NodesOK' /\ HistoryOK'
  BY <1>1 DEF FileInv, NodesOK, HistoryOK
<1>4. inode[ino].di_height \in Nat
  BY NodeFacts DEF FileInv, NodesOK
<1>5. FlushOK'
  BY <1>1, <1>4 DEF FileInv, FlushOK
<1> QED
  BY <1>2, <1>3, <1>5 DEF FileInv

\* A step of the store that leaves the files alone.
LEMMA StoreOnlyInv ==
    ASSUME FileInv, TypeOK', UNCHANGED fileVars
    PROVE  FileInv'
  BY DEF FileInv, NodesOK, FlushOK, HistoryOK, fileVars

LEMMA FilesInitial == Init => FileInv
<1> SUFFICES ASSUME Init PROVE FileInv
  OBVIOUS
<1>1. TypeOK
  BY TypeInit DEF Init
<1>2. /\ flushing = None /\ flushed = {} /\ content = EmptyMap
      /\ latest = [ino \in Inos |-> EmptyMap]
      /\ inode = [ino \in Inos |->
                  [di_height |-> 0, di_data |-> [i \in 0..I0 |-> Hole],
                   tree |-> [l \in TreeLevels |-> EmptyMap]]]
  BY DEF Init, FileInit
<1>3. EmptyMap \in Trees /\ EmptyMap \in Maps(Nat) /\ DOMAIN EmptyMap = {}
  BY EmptyMapFacts DEF Trees
<1> HIDE DEF EmptyMap
<1>4. [di_height |-> 0, di_data |-> [i \in 0..I0 |-> Hole],
       tree |-> [l \in TreeLevels |-> EmptyMap]] \in Node
  BY <1>3, Constants DEF Node, Hole
<1>5. NodesOK
  BY <1>2, <1>3, <1>4 DEF NodesOK, WithinHeight, Bounded
<1>6. FlushOK /\ HistoryOK
  BY <1>2, <1>3 DEF FlushOK, HistoryOK
<1> QED
  BY <1>1, <1>5, <1>6 DEF FileInv

\* A client writes blocks that a file can have.
LEMMA ClientBlocks ==
    ASSUME NEW bix \in FileBixes
    PROVE  bix \in Nat /\ bix <= Factor ^ MaskLevels
<1>1. Factor ^ MaskLevels \in Nat
  BY Powers, Constants
<1> QED
  BY <1>1, FileAssumption

\* Every step keeps the invariant.
LEMMA FileStep == FileInv /\ [Next]_allVars => FileInv'
<1> SUFFICES ASSUME FileInv, [Next]_allVars PROVE FileInv'
  OBVIOUS
<1>1. ASSUME NEW ino \in Inos, NEW bix \in FileBixes, NEW s \in Segs,
             ClientWrite(ino, bix, s)
      PROVE  FileInv'
  BY <1>1, ClientBlocks, FileWriteInv DEF ClientWrite, Types
<1>2. ASSUME NEW ino \in Inos, FileWriteFails(ino) PROVE FileInv'
  <2>1. TypeOK'
    BY <1>2, SegmentWriteFailsType, Constants DEF FileWriteFails, FileInv
  <2> QED
    BY <1>2, <2>1, StoreOnlyInv DEF FileWriteFails
<1>3. ASSUME NEW ino \in Inos, ClientFlush(ino) PROVE FileInv'
  BY <1>3, StartFlushInv DEF ClientFlush
<1>4. ASSUME NEW s \in Segs, FlushBlock(s) \/ FlushRoot(s) PROVE FileInv'
  BY <1>4, FlushBlockInv, FlushRootInv
<1>5. ASSUME FileFlushFails PROVE FileInv'
  <2>1. flushing \in Inos /\ FlushLevel(flushing) \in Levels
    BY <1>5, FlushLevelFacts, Constants DEF FileFlushFails
  <2>2. TypeOK'
    BY <1>5, <2>1, SegmentWriteFailsType DEF FileFlushFails, FileInv
  <2> QED
    BY <1>5, <2>2, StoreOnlyInv DEF FileFlushFails
<1>6. CASE UNCHANGED allVars
  <2>1. TypeOK'
    BY <1>6 DEF allVars, segVars, FileInv, TypeOK
  <2> QED
    BY <1>6, <2>1, StoreOnlyInv DEF allVars
<1> QED
  BY <1>1, <1>2, <1>3, <1>4, <1>5, <1>6 DEF Next

LEMMA FilesAlways == Spec => []FileInv
  BY FilesInitial, FileStep, PTL DEF Spec

LEMMA FileTypes == FileInv => FileTypeOK
<1> SUFFICES ASSUME FileInv PROVE FileTypeOK
  OBVIOUS
<1>1. ASSUME NEW ino \in Inos, NEW l \in TreeLevels,
             NEW bix \in DOMAIN inode[ino].tree[l]
      PROVE  /\ bix \in Nat /\ l <= inode[ino].di_height
             /\ inode[ino].tree[l][bix] \in [0 .. Factor - 1 -> Nat]
  <2>1. inode[ino] \in Node /\ WithinHeight(inode[ino])
    BY DEF FileInv, NodesOK
  <2>2. inode[ino].tree[l] \in Maps(Blocks)
    BY <2>1, NodeFacts DEF Trees
  <2>3. bix \in Nat /\ inode[ino].tree[l][bix] \in Blocks
    BY <2>2, MapFacts
  <2> QED
    BY <2>1, <2>3 DEF WithinHeight, Blocks
<1>2. ASSUME NEW ino \in Inos
      PROVE  /\ inode[ino].di_height \in 0 .. MaskLevels
             /\ inode[ino].di_data \in [0..I0 -> Nat]
  BY NodeFacts DEF FileInv, NodesOK
<1>3. ASSUME NEW ino \in Inos, NEW bix \in DOMAIN latest[ino]
      PROVE  bix \in Nat /\ latest[ino][bix] \in DOMAIN content
  <2>1. latest[ino] \in Maps(Nat)
    BY DEF FileInv, HistoryOK
  <2> QED
    BY <2>1, MapFacts DEF FileInv, HistoryOK
<1>4. /\ TypeOK /\ flushing \in Inos \cup {None} /\ flushed \subseteq Inos
      /\ DOMAIN content \subseteq Nat
  BY DEF FileInv, FlushOK, HistoryOK
<1> QED
  BY <1>1, <1>2, <1>3, <1>4 DEF FileTypeOK

\* In every run a file grows only to levels there are areas for, indirect blocks
\* keep their number of pointers, no level above the height of a file has
\* blocks, and logfs_file_flush always finds the block it is after.
THEOREM FileTyping == Spec => []FileTypeOK
  BY FileTypes, FilesAlways, PTL

----------------------------------------------------------------------------
(* The store below                                                         *)

\* For the store the operations of a file are calls like any other.
LEMMA FileWriteCalls ==
    ASSUME NEW type \in Types, NEW ino \in Inos, NEW bix \in Nat, NEW data,
           NEW s \in Segs, FileWrite(type, ino, bix, data, s)
    PROVE  StoreNext
<1>1. SegmentWrite(type, ino, bix, 0, s) /\ 0 \in Levels
  BY Constants DEF FileWrite
<1> QED
  BY <1>1 DEF StoreNext

LEMMA FileWriteFailsCalls ==
    ASSUME NEW ino \in Inos, FileWriteFails(ino)
    PROVE  StoreNext
<1>1. SegmentWriteFails(ino, 0) /\ 0 \in Levels
  BY Constants DEF FileWriteFails
<1> QED
  BY <1>1 DEF StoreNext

LEMMA FlushCalls ==
    ASSUME FileInv, NEW s \in Segs, FlushBlock(s) \/ FlushRoot(s)
    PROVE  StoreNext
<1> DEFINE level == FlushLevel(flushing)
           bix == TreeLast(inode[flushing].tree[level])
<1>1. /\ flushing # None /\ SegmentWrite("block", flushing, bix, level, s)
      /\ \/ level < inode[flushing].di_height
         \/ DOMAIN inode[flushing].tree[level] # {}
  BY DEF FlushBlock, FlushRoot
<1>2. /\ flushing \in Inos /\ level \in TreeLevels /\ inode[flushing] \in Node
      /\ level # inode[flushing].di_height => DOMAIN inode[flushing].tree[level] # {}
  BY <1>1, FlushLevelFacts
<1>3. inode[flushing].di_height \in Nat /\ level \in Nat
  BY <1>2, NodeFacts DEF TreeLevels
<1>4. DOMAIN inode[flushing].tree[level] # {}
  BY <1>1, <1>2, <1>3
<1>5. bix \in Nat /\ level \in Levels
  BY <1>1, <1>4, FlushedBlock
<1> HIDE DEF level, bix
<1> QED
  BY <1>1, <1>2, <1>5 DEF StoreNext, Types

LEMMA FileFlushFailsCalls ==
    ASSUME FileInv, FileFlushFails
    PROVE  StoreNext
<1>1. /\ flushing \in Inos /\ FlushLevel(flushing) \in Levels
      /\ SegmentWriteFails(flushing, FlushLevel(flushing))
  BY FlushLevelFacts, Constants DEF FileFlushFails
<1> QED
  BY <1>1 DEF StoreNext

LEMMA FilesAreClients == FileInv /\ [Next]_allVars => [StoreNext]_segVars
<1> SUFFICES ASSUME FileInv, [Next]_allVars PROVE [StoreNext]_segVars
  OBVIOUS
<1>1. ASSUME NEW ino \in Inos, NEW bix \in FileBixes, NEW s \in Segs,
             ClientWrite(ino, bix, s)
      PROVE  StoreNext
  BY <1>1, ClientBlocks, FileWriteCalls DEF ClientWrite, Types
<1>2. ASSUME NEW ino \in Inos, ClientFlush(ino) PROVE UNCHANGED segVars
  BY <1>2 DEF ClientFlush, StartFlush
<1>3. CASE UNCHANGED allVars
  BY <1>3 DEF allVars
<1> QED
  BY <1>1, <1>2, <1>3, FileWriteFailsCalls, FlushCalls, FileFlushFailsCalls DEF Next

LEMMA StoreAlways == Spec => []StoreInv
<1>1. Init => StoreInv
  BY StoreInitial DEF Init
<1>2. FileInv /\ StoreInv /\ [Next]_allVars => StoreInv'
  BY FilesAreClients, StoreStep
<1> QED
  BY <1>1, <1>2, FilesAlways, PTL DEF Spec

\* The properties of the store hold with files as its clients, however deep: for
\* them Segment stands for every caller of logfs_segment_write.
THEOREM StoreUnderFiles ==
    Spec => [](AreasExclusive /\ Packed /\ BadSegmentsShunned /\ ValidExact
               /\ UsedBytesExact)
<1>1. StoreInv => /\ AreasExclusive /\ Packed /\ BadSegmentsShunned /\ ValidExact
                  /\ UsedBytesExact
  BY DEF StoreInv, LiveInv, UsedBytesExact
<1> QED
  BY <1>1, StoreAlways, PTL

----------------------------------------------------------------------------
(* Where pointers are entered                                              *)

\* Division is what it is.
LEMMA DivisionFacts ==
    ASSUME NEW x \in Nat, NEW d \in Nat, d > 0
    PROVE  /\ x \div d \in Nat /\ x % d \in 0 .. d - 1
           /\ x = d * (x \div d) + (x % d)
  OBVIOUS

LEMMA DivisionUnique ==
    ASSUME NEW x \in Nat, NEW d \in Nat, d > 0, NEW q \in Nat,
           NEW r \in 0 .. d - 1, x = d * q + r
    PROVE  x \div d = q /\ x % d = r
  OBVIOUS

LEMMA DivisionTwice ==
    ASSUME NEW x \in Nat, NEW d \in Nat, d > 0, NEW e \in Nat, e > 0
    PROVE  x \div (e * d) = (x \div d) \div e
  OBVIOUS

\* The index of a block of a level: the largest index below it.
Aligned(bix, level) == bix = ParentBix(bix, level)

LEMMA ParentAligned ==
    ASSUME NEW bix \in Nat, NEW n \in 0 .. MaskLevels
    PROVE  Aligned(ParentBix(bix, n), n)
<1> DEFINE P == Factor ^ n
           q == bix \div P
<1>1. P \in Nat /\ P > 0
  BY Powers, RightMask
<1> HIDE DEF P
<1>2. q \in Nat
  BY <1>1
<1>3. ParentBix(bix, n) = q * P + P - 1
  BY RightMask DEF P
<1> HIDE DEF q
<1>4. q * P + P - 1 \in Nat /\ P - 1 \in 0 .. P - 1
      /\ q * P + P - 1 = P * q + (P - 1)
  BY <1>1, <1>2
<1>5. (q * P + P - 1) \div P = q
  BY <1>1, <1>2, <1>4, DivisionUnique
<1> QED
  BY <1>3, <1>5, <1>4, RightMask DEF Aligned, P

LEMMA LeafAligned ==
    ASSUME NEW bix \in Nat
    PROVE  Aligned(bix, 0)
<1>1. Factor ^ 0 = 1
  BY PowerAssumption
<1>2. (bix \div 1) * 1 + 1 - 1 = bix
  OBVIOUS
<1> QED
  BY <1>1, <1>2, RightMask, Constants DEF Aligned

\* The slot write_loop enters a block in stands for that very block.
LEMMA ChildOfParent ==
    ASSUME NEW bix \in Nat, NEW level \in 0 .. MaskLevels - 1, Aligned(bix, level)
    PROVE  ChildBix(ParentBix(bix, level + 1), level + 1, GetBits(bix, level)) = bix
<1> DEFINE P == Factor ^ level
           Q == Factor ^ (level + 1)
           a == bix \div P
           d == bix \div Q
           r == a % Factor
<1>1. Factor \in Nat /\ Factor > 0 /\ MaxLevels \in Nat /\ level \in 0 .. MaxLevels
      /\ level \in 0 .. MaskLevels /\ level + 1 \in 0 .. MaskLevels
  BY Constants
<1>2. P \in Nat /\ P > 0 /\ Q = Factor * P
  BY <1>1, Powers, PowerAssumption
<1>3. level + 1 - 1 = level
  OBVIOUS
<1>4. level = 0 => P = 1
  BY PowerAssumption
<1>5. GetBits(bix, level) = r
  BY DEF GetBits
<1>6. ParentBix(bix, level + 1) = d * Q + Q - 1
  BY <1>1, RightMask
<1>7. bix = a * P + P - 1
  BY <1>1, RightMask DEF Aligned
<1>8. ChildBix(ParentBix(bix, level + 1), level + 1, r)
        = IF level + 1 = 1 THEN ParentBix(bix, level + 1) - (Q - 1) + r
          ELSE ParentBix(bix, level + 1) - (Q - 1) + (r + 1) * P - 1
  BY <1>3 DEF ChildBix
<1> HIDE DEF P, Q
<1>9. a \in Nat
  BY <1>2
<1>10. d = a \div Factor
  BY <1>1, <1>2, DivisionTwice
<1> HIDE DEF a, d
<1>11. d \in Nat /\ r \in 0 .. Factor - 1 /\ a = Factor * d + r
  BY <1>1, <1>9, <1>10, DivisionFacts
<1> HIDE DEF r
<1>12. d * Q \in Int /\ d * Q = (Factor * d) * P
  BY <1>1, <1>2, <1>11
<1>13. ParentBix(bix, level + 1) - (Q - 1) = d * Q
  BY <1>1, <1>2, <1>6, <1>12
<1>14. a * P = (Factor * d) * P + r * P
  BY <1>2, <1>11, <1>1
<1>15. CASE level = 0
  <2>1. P = 1 /\ bix = a
    BY <1>4, <1>7, <1>9, <1>15
  <2>2. ChildBix(ParentBix(bix, level + 1), level + 1, r) = d * Q + r
    BY <1>8, <1>13, <1>15
  <2> QED
    BY <1>5, <1>11, <1>12, <1>1, <2>1, <2>2
<1>16. CASE level # 0
  <2>1. ChildBix(ParentBix(bix, level + 1), level + 1, r) = d * Q + (r + 1) * P - 1
    BY <1>8, <1>13, <1>16
  <2>2. (r + 1) * P = r * P + P /\ r * P \in Int
    BY <1>2, <1>11
  <2>3. d * Q + (r + 1) * P - 1 = a * P + P - 1
    BY <1>2, <1>12, <1>14, <2>2
  <2> QED
    BY <1>5, <1>7, <2>1, <2>3
<1> QED
  BY <1>15, <1>16

----------------------------------------------------------------------------
(* Pointers lead to objects                                                *)

\* LeadsTo, for the objects of L.
Leads(L, ofs, ino, bix) ==
    ofs # Hole => \E so \in L : /\ so[1] * SegSize + so[2].pos = ofs
                               /\ so[2].ino = ino /\ so[2].bix = bix

DirectLead(L, node, ino) == \A bix \in 0 .. I0 - 1 : Leads(L, node.di_data[bix], ino, bix)

\* The pointers of a tree of a level.
TreeLeads(L, tree, l, ino) ==
    \A bix \in DOMAIN tree : \A slot \in 0 .. Factor - 1 :
        Leads(L, tree[bix][slot], ino, ChildBix(bix, l, slot))

NodeLeads(L, node, ino) ==
    /\ DirectLead(L, node, ino)
    /\ \A l \in TreeLevels : TreeLeads(L, node.tree[l], l, ino)

AlignedTree(tree, l) == \A bix \in DOMAIN tree : Aligned(bix, l)
AlignedTrees(node) == \A l \in TreeLevels : AlignedTree(node.tree[l], l)

LEMMA MoreLeads ==
    ASSUME NEW L, NEW M, L \subseteq M, NEW node, NEW ino, NodeLeads(L, node, ino)
    PROVE  NodeLeads(M, node, ino)
<1>1. \A ofs, bix : Leads(L, ofs, ino, bix) => Leads(M, ofs, ino, bix)
  BY DEF Leads
<1> QED
  BY <1>1 DEF NodeLeads, DirectLead, TreeLeads

\* The pointer that write_loop enters leads where its slot says.
LEMMA WriteLoopLeads ==
    ASSUME NEW L, NEW node \in Node, NEW ino, NEW bix \in Nat,
           NEW level \in 0 .. MaskLevels - 1, NEW ofs \in Nat,
           NodeLeads(L, node, ino), AlignedTrees(node),
           Aligned(bix, level), Leads(L, ofs, ino, bix)
    PROVE  LET new == WriteLoop(node, bix, level, ofs)
           IN  NodeLeads(L, new, ino) /\ AlignedTrees(new)
<1> DEFINE new == WriteLoop(node, bix, level, ofs)
           parent == ParentBix(bix, level + 1)
           old == BlockAt(node.tree[level + 1], parent)
           block == Entered(node, bix, level, ofs)
           g == GetBits(bix, level)
           tree == node.tree[level + 1]
<1>1. /\ level + 1 \in TreeLevels /\ parent \in Nat /\ block \in Blocks
      /\ g \in 0 .. Factor - 1 /\ block[g] = ofs
      /\ \A slot \in 0 .. Factor - 1 : slot # g => block[slot] = old[slot]
  BY EnteredFacts
<1>2. /\ new.di_data = node.di_data
      /\ new.tree[level + 1] = Put(tree, parent, block)
      /\ \A m \in TreeLevels : m # level + 1 => new.tree[m] = node.tree[m]
  <2>1. new.di_data = node.di_data
    BY WriteLoopNode
  <2>2. new.tree[level + 1] = Put(tree, parent, block)
    BY WriteLoopNode
  <2>3. \A m \in TreeLevels : m # level + 1 => new.tree[m] = node.tree[m]
    BY WriteLoopNode
  <2> QED
    BY <2>1, <2>2, <2>3
<1>3. ChildBix(parent, level + 1, g) = bix
  BY ChildOfParent
<1>4. Aligned(parent, level + 1)
  <2>1. level + 1 \in 0 .. MaskLevels
    BY Constants
  <2> QED
    BY <2>1, ParentAligned
<1>5. tree \in Maps(Blocks)
  BY <1>1, NodeFacts DEF Trees
<1>6. \A slot \in 0 .. Factor - 1 :
         Leads(L, old[slot], ino, ChildBix(parent, level + 1, slot))
  <2>1. CASE parent \in DOMAIN tree
    BY <1>1, <2>1 DEF NodeLeads, TreeLeads, BlockAt
  <2>2. CASE parent \notin DOMAIN tree
    BY <2>2 DEF BlockAt, ZeroBlock, Leads, Hole
  <2> QED
    BY <2>1, <2>2
<1> HIDE DEF new, parent, old, block, g, tree
<1>7. \A slot \in 0 .. Factor - 1 :
         Leads(L, block[slot], ino, ChildBix(parent, level + 1, slot))
  BY <1>1, <1>3, <1>6
<1>8. /\ DOMAIN Put(tree, parent, block) = DOMAIN tree \cup {parent}
      /\ Put(tree, parent, block)[parent] = block
      /\ \A x \in DOMAIN tree : x # parent => Put(tree, parent, block)[x] = tree[x]
  BY DEF Put
<1>9. TreeLeads(L, tree, level + 1, ino) /\ AlignedTree(tree, level + 1)
  BY <1>1 DEF NodeLeads, AlignedTrees, tree
<1>10. TreeLeads(L, new.tree[level + 1], level + 1, ino)
  BY <1>2, <1>7, <1>8, <1>9 DEF TreeLeads
<1>11. AlignedTree(new.tree[level + 1], level + 1)
  BY <1>2, <1>4, <1>8, <1>9 DEF AlignedTree
<1>12. NodeLeads(L, new, ino)
  BY <1>2, <1>10 DEF NodeLeads, DirectLead
<1>13. AlignedTrees(new)
  BY <1>2, <1>11 DEF AlignedTrees
<1> QED
  BY <1>12, <1>13 DEF new

LEMMA DropLeads ==
    ASSUME NEW L, NEW node \in Node, NEW ino, NEW l \in TreeLevels, NEW bix,
           WithinHeight(node), NodeLeads(L, node, ino), AlignedTrees(node)
    PROVE  LET new == [node EXCEPT !.tree[l] = Drop(@, bix)]
           IN  NodeLeads(L, new, ino) /\ AlignedTrees(new)
<1> DEFINE new == [node EXCEPT !.tree[l] = Drop(@, bix)]
           tree == node.tree[l]
<1>0. new.di_data = node.di_data
  BY DropNode
<1>6. new.tree[l] = Drop(node.tree[l], bix)
  BY DropNode
<1>7. \A m \in TreeLevels : m # l => new.tree[m] = node.tree[m]
  BY DropNode
<1>1. /\ new.di_data = node.di_data
      /\ new.tree[l] = Drop(tree, bix)
      /\ \A m \in TreeLevels : m # l => new.tree[m] = node.tree[m]
  BY <1>0, <1>6, <1>7
<1>2. tree \in Maps(Blocks)
  BY NodeFacts DEF Trees
<1>3. TreeLeads(L, tree, l, ino) /\ AlignedTree(tree, l)
  BY DEF NodeLeads, AlignedTrees
<1> HIDE DEF new, tree
<1>4. /\ DOMAIN Drop(tree, bix) = DOMAIN tree \ {bix}
      /\ \A x \in DOMAIN tree : x # bix => Drop(tree, bix)[x] = tree[x]
  BY <1>2, DropFacts
<1>5. TreeLeads(L, new.tree[l], l, ino) /\ AlignedTree(new.tree[l], l)
  BY <1>1, <1>3, <1>4 DEF TreeLeads, AlignedTree
<1> QED
  BY <1>1, <1>5 DEF NodeLeads, DirectLead, AlignedTrees, new

\* A direct pointer, and the indirect one, which is none of them.
LEMMA WriteDirectLeads ==
    ASSUME NEW L, NEW node \in Node, NEW ino, NEW bix \in 0 .. I0, NEW ofs \in Nat,
           NodeLeads(L, node, ino), AlignedTrees(node),
           bix = I0 \/ Leads(L, ofs, ino, bix)
    PROVE  LET new == WriteDirect(node, bix, ofs)
           IN  NodeLeads(L, new, ino) /\ AlignedTrees(new)
<1> DEFINE new == WriteDirect(node, bix, ofs)
<1>1. new.tree = node.tree /\ new.di_data = [node.di_data EXCEPT ![bix] = ofs]
  BY WriteDirectNode
<1>2. node.di_data \in [0..I0 -> Nat] /\ I0 \in Nat
  BY NodeFacts, Constants
<1> HIDE DEF new
<1>3. DirectLead(L, new, ino)
  <2> SUFFICES ASSUME NEW i \in 0 .. I0 - 1 PROVE Leads(L, new.di_data[i], ino, i)
    BY DEF DirectLead
  <2>1. i \in 0 .. I0 /\ i # I0
    BY <1>2
  <2>2. Leads(L, node.di_data[i], ino, i)
    BY DEF NodeLeads, DirectLead
  <2>3. CASE i = bix
    BY <1>1, <1>2, <2>1, <2>3
  <2>4. CASE i # bix
    BY <1>1, <1>2, <2>1, <2>2, <2>4
  <2> QED
    BY <2>3, <2>4
<1> QED
  BY <1>1, <1>3 DEF NodeLeads, AlignedTrees, new

\* What logfs_file_write enters leads to what it wrote.
LEMMA WrittenLeads ==
    ASSUME NEW L, NEW node \in Node, NEW ino, NEW bix \in Nat, NEW ofs \in Nat,
           bix <= Factor ^ MaskLevels,
           NodeLeads(L, node, ino), AlignedTrees(node), Leads(L, ofs, ino, bix)
    PROVE  NodeLeads(L, Written(node, bix, ofs), ino) /\ AlignedTrees(Written(node, bix, ofs))
<1>1. CASE bix < I0
  <2>1. bix \in 0 .. I0
    BY <1>1, Constants
  <2> QED
    BY <1>1, <2>1, WriteDirectLeads DEF Written
<1>2. CASE bix >= I0
  <2> DEFINE h == GrownHeight(node.di_height, bix)
             tall == [node EXCEPT !.di_height = h]
  <2>1. node.di_height \in 0 .. MaskLevels /\ 0 \in 0 .. MaskLevels - 1
    BY NodeFacts, Constants
  <2>2. h \in node.di_height .. MaskLevels
    BY <2>1, GrownHeightFacts
  <2>3. h \in 0 .. MaskLevels
    BY <2>1, <2>2
  <2>4. Written(node, bix, ofs) = WriteLoop(tall, bix, 0, ofs)
    BY <1>2, Constants DEF Written
  <2> HIDE DEF h
  <2>5. tall \in Node /\ tall.di_data = node.di_data /\ tall.tree = node.tree
    BY <2>3, GrowNode
  <2> HIDE DEF tall
  <2>6. NodeLeads(L, tall, ino) /\ AlignedTrees(tall)
    BY <2>5 DEF NodeLeads, DirectLead, AlignedTrees
  <2>7. Aligned(bix, 0)
    BY LeafAligned
  <2> QED
    BY <2>1, <2>4, <2>5, <2>6, <2>7, WriteLoopLeads
<1> QED
  BY <1>1, <1>2, Constants

\* The segments that get_segment has returned so far lie where the 32 bits of an
\* offset reach, which logfs_segment_write does not check.
OffsetsFit == lastseg * SegSize <= OffsetMod

LEMMA SegmentFits ==
    ASSUME NEW s \in Nat, NEW t \in Nat, s < t, t * SegSize <= OffsetMod
    PROVE  s * SegSize \in Nat /\ s * SegSize + SegSize <= OffsetMod
<1>1. SegSize \in Nat /\ OffsetMod \in Nat
  BY DeviceAssumption
<1>2. PICK d \in Nat : t = s + 1 + d
  <2>1. t - s - 1 \in Nat /\ t = s + 1 + (t - s - 1)
    OBVIOUS
  <2> QED
    BY <2>1
<1>3. t * SegSize = s * SegSize + SegSize + d * SegSize
  BY <1>1, <1>2
<1>4. s * SegSize \in Nat /\ d * SegSize \in Nat
  BY <1>1, <1>2
<1> QED
  BY <1>1, <1>3, <1>4

\* get_segment only moves on, so what fits at the end fitted all the time.
LEMMA LastsegGrows ==
    ASSUME TypeOK, [StoreNext]_segVars
    PROVE  lastseg <= lastseg'
<1>1. lastseg \in Int
  BY DEF TypeOK
<1>2. ASSUME NEW s \in Segs, NEW e, NEW m, GetSegment(s, e, m) PROVE lastseg <= lastseg'
  <2>1. s \in Int /\ lastseg <= s /\ lastseg' = s + 1
    BY <1>2 DEF GetSegment, NextSeg, Segs
  <2> QED
    BY <1>1, <2>1
<1>3. ASSUME UNCHANGED lastseg PROVE lastseg <= lastseg'
  BY <1>1, <1>3
<1>4. ASSUME NEW type \in Types, NEW ino \in Inos, NEW bix \in Nat, NEW level \in Levels,
             NEW s \in Segs, SegmentWrite(type, ino, bix, level, s)
      PROVE  lastseg <= lastseg'
  BY <1>2, <1>3, <1>4 DEF SegmentWrite
<1> QED
  BY <1>2, <1>3, <1>4 DEF StoreNext, segVars, Reserve, ReserveFails, SegmentWriteFails,
     FlushArea, FlushFails, Halt

LEMMA FittedBefore ==
    ASSUME TypeOK, TypeOK', lastseg <= lastseg', OffsetsFit'
    PROVE  OffsetsFit
<1>1. lastseg \in Nat /\ lastseg' \in Nat /\ SegSize \in Nat /\ OffsetMod \in Nat
  BY DeviceAssumption DEF TypeOK
<1>2. CASE lastseg = lastseg'
  BY <1>2 DEF OffsetsFit
<1>3. CASE lastseg < lastseg'
  <2>1. lastseg' * SegSize <= OffsetMod
    BY DEF OffsetsFit
  <2>2. lastseg * SegSize \in Nat /\ lastseg * SegSize + SegSize <= OffsetMod
    BY <1>1, <1>3, <2>1, SegmentFits
  <2> QED
    BY <1>1, <2>2 DEF OffsetsFit
<1> QED
  BY <1>1, <1>2, <1>3

\* The offset of an object is its place, where 32 bits can address it.
LEMMA OffsetIsPlace ==
    ASSUME TypeOK, NEW l \in Areas, NEW s \in Segs, s * SegSize + SegSize <= OffsetMod
    PROVE  WriteOfs(l, s) = s * SegSize + NextPos(l)
<1> DEFINE n == s * SegSize + NextPos(l)
<1>1. /\ s \in Nat /\ SegSize \in Nat /\ OffsetMod \in Nat /\ OffsetMod > 0
  BY DeviceAssumption DEF Segs
<1>2. NextPos(l) \in Nat /\ NextPos(l) < SegSize
  <2>1. area[l].used_bytes \in Nat
    BY DEF TypeOK, AreaType
  <2> QED
    BY <1>1, <2>1, SizeAssumption DEF NextPos, HasRoom
<1>3. s * SegSize \in Nat
  BY <1>1
<1>4. n \in Nat /\ n < OffsetMod
  BY <1>1, <1>2, <1>3
<1> HIDE DEF n
<1>5. n % OffsetMod = n
  BY <1>1, <1>4
<1> QED
  BY <1>5 DEF WriteOfs, n

\* An object is written to a segment that get_segment has returned.
LEMMA WrittenWhereFits ==
    ASSUME NEW n \in Nat, StoreBelow(n), NEW type \in Types, NEW ino \in Inos,
           NEW bix \in Nat, NEW level \in Levels, NEW s \in Segs,
           SegmentWrite(type, ino, bix, level, s), OffsetsFit'
    PROVE  s * SegSize + SegSize <= OffsetMod
<1>1. AreaOf(ino, level) \in Areas /\ lastseg \in Nat /\ s \in Nat
  BY AreaOfType, DeviceAssumption DEF StoreBelow, TypeOK, Segs
<1>2. s < lastseg' /\ lastseg' \in Nat
  BY <1>1 DEF SegmentWrite, StoreBelow, OwnedBelow, GetSegment, NextSeg
<1> QED
  BY <1>1, <1>2, SegmentFits DEF OffsetsFit

\* logfs_segment_write adds the object its offset leads to, and keeps the others.
LEMMA WriteLeads ==
    ASSUME NEW n \in Nat, StoreBelow(n), lastseg' <= n, NEW type \in Types, NEW ino \in Inos, NEW bix \in Nat,
           NEW level \in Levels, NEW s \in Segs,
           SegmentWrite(type, ino, bix, level, s), OffsetsFit'
    PROVE  /\ Live \subseteq Live'
           /\ Leads(Live', WriteOfs(AreaOf(ino, level), s), ino, bix)
<1>1. TypeOK /\ OwnedBelow(n) /\ Packed /\ CountedAreas
  BY DEF StoreBelow
<1>2. TypeOK'
  BY <1>1, SegmentWriteType
<1>3. Joins(type, ino, bix, level, s)
  BY <1>1, <1>2, WriteLive
<1>4. PICK new \in Object :
         /\ new.ino = ino /\ new.bix = bix /\ new.pos = NextPos(AreaOf(ino, level))
         /\ Live' = Live \cup {<<s, new>>}
  BY <1>3 DEF Joins
<1>5. AreaOf(ino, level) \in Areas
  BY AreaOfType
<1>6. WriteOfs(AreaOf(ino, level), s) = s * SegSize + NextPos(AreaOf(ino, level))
  BY <1>1, <1>5, OffsetIsPlace, WrittenWhereFits
<1>7. <<s, new>> \in Live' /\ <<s, new>>[1] = s /\ <<s, new>>[2] = new
  BY <1>4
<1> QED
  BY <1>4, <1>6, <1>7 DEF Leads

\* The pointers in memory and the places they are at.
LeadInv ==
    /\ \A ino \in Inos : AlignedTrees(inode[ino])
    /\ ~exited => \A ino \in Inos : NodeLeads(Live, inode[ino], ino)

\* One inode is replaced by one whose pointers lead somewhere.
LEMMA ReplaceLeads ==
    ASSUME NodesOK, LeadInv, ~exited, NEW ino \in Inos, NEW new,
           inode' = [inode EXCEPT ![ino] = new], Live \subseteq Live',
           NodeLeads(Live', new, ino), AlignedTrees(new)
    PROVE  LeadInv'
<1>1. \A i \in Inos : inode'[i] = IF i = ino THEN new ELSE inode[i]
  BY DEF NodesOK
<1>2. \A i \in Inos : NodeLeads(Live', inode[i], i)
  BY MoreLeads DEF LeadInv
<1>3. \A i \in Inos : NodeLeads(Live', inode'[i], i) /\ AlignedTrees(inode'[i])
  BY <1>1, <1>2 DEF LeadInv
<1> QED
  BY <1>3 DEF LeadInv

LEMMA FileWriteLeads ==
    ASSUME FileInv, NEW n \in Nat, StoreBelow(n), lastseg' <= n, LeadInv,
           NEW type \in Types, NEW ino \in Inos,
           NEW bix \in Nat, bix <= Factor ^ MaskLevels, NEW data, NEW s \in Segs,
           FileWrite(type, ino, bix, data, s), OffsetsFit'
    PROVE  LeadInv'
<1> DEFINE l == AreaOf(ino, 0)
           ofs == WriteOfs(l, s)
           new == Written(inode[ino], bix, ofs)
<1>1. /\ SegmentWrite(type, ino, bix, 0, s) /\ ~exited
      /\ inode' = [inode EXCEPT ![ino] = new]
  BY DEF FileWrite, Written, SegmentWrite
<1>2. TypeOK /\ NodesOK /\ inode[ino] \in Node
  BY DEF FileInv, NodesOK
<1>3. l \in Areas /\ 0 \in Levels
  BY AreaOfType, Constants
<1>4. ofs \in Nat
  BY <1>2, <1>3, OffsetTypes
<1>5. Live \subseteq Live' /\ Leads(Live', ofs, ino, bix)
  BY <1>1, <1>3, WriteLeads
<1> HIDE DEF l, ofs
<1>6. NodeLeads(Live, inode[ino], ino) /\ AlignedTrees(inode[ino])
  BY <1>1 DEF LeadInv
<1>7. NodeLeads(Live', inode[ino], ino)
  BY <1>5, <1>6, MoreLeads
<1>8. NodeLeads(Live', new, ino) /\ AlignedTrees(new)
  BY <1>2, <1>4, <1>5, <1>6, <1>7, WrittenLeads
<1> HIDE DEF new
<1> QED
  BY <1>1, <1>2, <1>5, <1>8, ReplaceLeads

LEMMA FlushLeads ==
    ASSUME FileInv, NEW n \in Nat, StoreBelow(n), lastseg' <= n, LeadInv,
           NEW s \in Segs, FlushBlock(s) \/ FlushRoot(s),
           OffsetsFit'
    PROVE  LeadInv'
<1> DEFINE ino == flushing
           level == FlushLevel(ino)
           node == inode[ino]
           bix == TreeLast(node.tree[level])
           l == AreaOf(ino, level)
           ofs == WriteOfs(l, s)
           less == [node EXCEPT !.tree[level] = Drop(@, bix)]
<1>1. /\ flushing # None
      /\ SegmentWrite("block", ino, bix, level, s) /\ ~exited
      /\ level < node.di_height \/ DOMAIN node.tree[level] # {}
  BY DEF FlushBlock, FlushRoot, SegmentWrite
<1>2. /\ ino \in Inos /\ node \in Node /\ WithinHeight(node)
      /\ level \in TreeLevels /\ level <= node.di_height
      /\ level # node.di_height => DOMAIN node.tree[level] # {}
  BY <1>1, FlushLevelFacts
<1>3. node.di_height \in 0 .. MaskLevels /\ level \in Nat /\ MaskLevels \in Nat
  BY <1>2, NodeFacts, Constants DEF TreeLevels
<1>4. DOMAIN node.tree[level] # {}
  BY <1>1, <1>2, <1>3
<1>5. bix \in DOMAIN node.tree[level] /\ bix \in Nat /\ l \in Areas /\ level \in Levels
  BY <1>1, <1>4, FlushedBlock
<1>6. TypeOK /\ NodesOK
  BY DEF FileInv
<1>7. ofs \in Nat
  BY <1>5, <1>6, OffsetTypes
<1>8. Live \subseteq Live' /\ Leads(Live', ofs, ino, bix)
  BY <1>1, <1>2, <1>5, WriteLeads DEF Types
<1>9. /\ FlushBlock(s) => /\ level < node.di_height
                          /\ inode' = [inode EXCEPT ![ino] = WriteLoop(less, bix, level, ofs)]
  BY DEF FlushBlock
<1>10. FlushRoot(s) => inode' = [inode EXCEPT ![ino] = WriteDirect(less, I0, ofs)]
  <2> SUFFICES ASSUME FlushRoot(s)
               PROVE  inode' = [inode EXCEPT ![ino] = WriteDirect(less, I0, ofs)]
    OBVIOUS
  <2>1. inode' = [inode EXCEPT ![ino].tree[level] = Drop(@, bix), ![ino].di_data[I0] = ofs]
    BY DEF FlushRoot
  <2> HIDE DEF ino, level, bix, ofs
  <2>2. inode' = [inode EXCEPT ![ino] = [[node EXCEPT !.tree[level] = Drop(@, bix)]
                                          EXCEPT !.di_data[I0] = ofs]]
    BY <1>2, <1>6, <2>1 DEF NodesOK, Node
  <2> QED
    BY <2>2 DEF WriteDirect
<1> HIDE DEF ino, level, node, bix, l, ofs
<1>11. NodeLeads(Live, node, ino) /\ AlignedTrees(node)
  BY <1>1, <1>2 DEF LeadInv, node
<1>12. NodeLeads(Live', node, ino)
  BY <1>8, <1>11, MoreLeads
<1>13. Aligned(bix, level)
  BY <1>2, <1>5, <1>11 DEF AlignedTrees, AlignedTree
<1>14. less \in Node
  BY <1>2, DropNode
<1>15. NodeLeads(Live', less, ino) /\ AlignedTrees(less)
  BY <1>2, <1>11, <1>12, DropLeads
<1> HIDE DEF less
<1>16. CASE FlushBlock(s)
  <2>1. level \in 0 .. MaskLevels - 1
    BY <1>3, <1>9, <1>16
  <2>2. NodeLeads(Live', WriteLoop(less, bix, level, ofs), ino)
        /\ AlignedTrees(WriteLoop(less, bix, level, ofs))
    BY <1>5, <1>7, <1>8, <1>13, <1>14, <1>15, <2>1, WriteLoopLeads
  <2> QED
    BY <1>1, <1>2, <1>6, <1>8, <1>9, <1>16, <2>2, ReplaceLeads
<1>17. CASE FlushRoot(s)
  <2>1. I0 \in 0 .. I0
    BY Constants
  <2>2. NodeLeads(Live', WriteDirect(less, I0, ofs), ino)
        /\ AlignedTrees(WriteDirect(less, I0, ofs))
    BY <1>7, <1>14, <1>15, <2>1, WriteDirectLeads
  <2> QED
    BY <1>1, <1>2, <1>6, <1>8, <1>10, <1>17, <2>2, ReplaceLeads
<1> QED
  BY <1>16, <1>17

\* Steps that leave the inodes alone, and the objects unless the program is gone.
LEMMA IdleLeads ==
    ASSUME LeadInv, UNCHANGED inode, exited' \/ (UNCHANGED <<exited, Live>>)
    PROVE  LeadInv'
  BY DEF LeadInv

LEMMA LeadStep ==
    ASSUME OffsetsFit', FileInv, StoreInv, LeadInv, [Next]_allVars
    PROVE  LeadInv'
<1>0. StoreBelow(NoSegs) /\ NoSegs \in Nat /\ lastseg' <= NoSegs
  <2>1. StoreInv'
    BY FilesAreClients, StoreStep
  <2> QED
    BY <2>1, StoreIsBelow, DeviceAssumption DEF StoreInv, TypeOK
<1>1. ASSUME NEW ino \in Inos, NEW bix \in FileBixes, NEW s \in Segs,
             ClientWrite(ino, bix, s)
      PROVE  LeadInv'
  <2>1. FileWrite("block", ino, bix, Payload, s) /\ "block" \in Types
    BY <1>1 DEF ClientWrite, Types
  <2>2. bix \in Nat /\ bix <= Factor ^ MaskLevels
    BY ClientBlocks
  <2> QED
    BY <1>0, <2>1, <2>2, FileWriteLeads
<1>2. ASSUME NEW ino \in Inos, FileWriteFails(ino) PROVE LeadInv'
  <2>1. exited' /\ UNCHANGED inode
    BY <1>2 DEF FileWriteFails, SegmentWriteFails, WriteError, NoSegmentLeft, fileVars
  <2> QED
    BY <2>1, IdleLeads
<1>3. ASSUME NEW ino \in Inos, ClientFlush(ino) PROVE LeadInv'
  <2>1. UNCHANGED <<inode, exited, medium, area>>
    BY <1>3 DEF ClientFlush, StartFlush, segVars
  <2>2. UNCHANGED Live
    BY <2>1 DEF Live
  <2> QED
    BY <2>1, <2>2, IdleLeads
<1>4. ASSUME NEW s \in Segs, FlushBlock(s) \/ FlushRoot(s) PROVE LeadInv'
  BY <1>0, <1>4, FlushLeads
<1>5. ASSUME FileFlushFails PROVE LeadInv'
  <2>1. exited' /\ UNCHANGED inode
    BY <1>5 DEF FileFlushFails, SegmentWriteFails, WriteError, NoSegmentLeft, fileVars
  <2> QED
    BY <2>1, IdleLeads
<1>6. CASE UNCHANGED allVars
  <2>1. UNCHANGED <<inode, exited, medium, area>>
    BY <1>6 DEF allVars, fileVars, segVars
  <2>2. UNCHANGED Live
    BY <2>1 DEF Live
  <2> QED
    BY <2>1, <2>2, IdleLeads
<1> QED
  BY <1>1, <1>2, <1>3, <1>4, <1>5, <1>6 DEF Next

\* A step that ends where offsets reach began there.
LEMMA FitsBackward ==
    ASSUME FileInv, FileInv', [Next]_allVars, OffsetsFit'
    PROVE  OffsetsFit
<1>1. TypeOK /\ TypeOK' /\ [StoreNext]_segVars
  BY FilesAreClients DEF FileInv
<1> QED
  BY <1>1, LastsegGrows, FittedBefore

\* Pointers lead where they should from the beginning on.
LEMMA LeadAlways == Spec => [](OffsetsFit => LeadInv)
<1>1. Init => LeadInv
  <2> SUFFICES ASSUME Init, NEW ino \in Inos
               PROVE  AlignedTrees(inode[ino]) /\ NodeLeads(Live, inode[ino], ino)
    BY DEF LeadInv
  <2>1. inode[ino] = [di_height |-> 0, di_data |-> [i \in 0..I0 |-> Hole],
                      tree |-> [l \in TreeLevels |-> EmptyMap]]
    BY DEF Init, FileInit
  <2>2. DOMAIN EmptyMap = {}
    BY EmptyMapFacts
  <2> HIDE DEF EmptyMap
  <2>3. \A l \in TreeLevels : DOMAIN inode[ino].tree[l] = {}
    BY <2>1, <2>2
  <2>4. \A bix \in 0 .. I0 - 1 : inode[ino].di_data[bix] = Hole
    BY <2>1, Constants
  <2> QED
    BY <2>3, <2>4 DEF AlignedTrees, AlignedTree, NodeLeads, DirectLead, TreeLeads, Leads
<1>2. FileInv /\ FileInv' /\ StoreInv /\ (OffsetsFit => LeadInv) /\ [Next]_allVars
        => (OffsetsFit => LeadInv)'
  BY LeadStep, FitsBackward
<1> QED
  BY <1>1, <1>2, FilesAlways, StoreAlways, PTL DEF Spec

\* No pointer dangles, whatever the order of writes and flushes and however the
\* levels move through the segments: each one in memory, direct or in an indirect
\* block of any level, is the place of an object whose header names the file and
\* the block its slot stands for.  Files stay below Factor ^ MaskLevels blocks
\* (512 ^ 3, more than mklogfs ever writes), where bixmask is defined, and it holds
\* as long as the segments handed out lie in the first OffsetMod bytes (4 GiB):
\* FileRW_wrap shows a pointer that leads astray behind them.
THEOREM NoneDangles == Spec => [](OffsetsFit => PointersLead)
<1>1. LeadInv => PointersLead
  BY DEF LeadInv, PointersLead, NodeLeads, DirectLead, TreeLeads, Leads, LeadsTo
<1> QED
  BY <1>1, LeadAlways, PTL
=============================================================================
