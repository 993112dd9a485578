------------------------------- MODULE BTree -------------------------------
(***************************************************************************)
(* btree.c: the in-memory B+tree behind every map of mklogfs.              *)
(*                                                                         *)
(* A node is the sequence of its used slots, the largest key first.  Slots *)
(* of a leaf hold a pointer, slots of an inner node hold a node and a      *)
(* lower bound of its keys.  Unused slots are NUL in the program, so their *)
(* key compares as 0.  A node is named by the way to it, the sequence of   *)
(* slots from the root; every call starts at the root again, as in the     *)
(* code.  The program has NoPairs = 8 (64-bit keys) or 5 (128-bit keys).   *)
(*                                                                         *)
(* The functions of the code that change a tree are operators from a call  *)
(* in progress to a call in progress:                                      *)
(*   [height, node, mem, err, bug, ret]                                    *)
(* with the allocations that still succeed, whether one has failed,        *)
(* whether a BUG_ON was met, and the pointer to return.                    *)
(***************************************************************************)
EXTENDS Integers, FiniteSets, SequencesExt

CONSTANTS
    Heads,        \* the trees
    Keys,         \* the keys in use
    Vals,         \* what is stored: pointers, never NULL
    NoPairs,      \* slots of a node
    AbsentKeys,   \* keys a client may remove though they are not there
    MaxAllocs     \* most allocations one call is given (a bound)

ASSUME BTreeAssumption ==
    /\ Keys \subseteq Nat /\ Vals = {k + 1 : k \in Keys}
    /\ NoPairs \in Nat /\ NoPairs > 3
    /\ AbsentKeys \subseteq Keys
    /\ MaxAllocs \in Nat

VARIABLES
    tree,   \* per head: its height and its root
    ret,    \* what the last call returned
    bug,    \* a BUG_ON was met
    map,    \* history: what a visitor sees of each tree
    call,   \* history: the last call, its operation and its arguments
    odd     \* history: whether the number of calls is odd

btreeVars == <<tree, ret, bug, map, call, odd>>

NULL   == 0
ENOMEM == -12

EmptyTree == [height |-> 0, node |-> << >>]
Call(t, mem) == [height |-> t.height, node |-> t.node, mem |-> mem,
                 err |-> FALSE, bug |-> FALSE, ret |-> NULL]
TreeOf(c) == [height |-> c.height, node |-> c.node]
BugOn(c, cond) == [c EXCEPT !.bug = @ \/ cond]

Pair(key, val) == [key |-> key, val |-> val]
Half == NoPairs \div 2

----------------------------------------------------------------------------
(* Nodes and the way to them                                               *)

\* getpos: the first slot whose key is not larger, else the one behind the used
\* slots (which is NUL, or outside of a full node).
GetPos(node, key) ==
    Min({i \in DOMAIN node : node[i].key <= key} \cup {Len(node) + 1})

\* The slot to descend into: a key below every bound belongs to the last one.
Slot(node, key) == Min({GetPos(node, key), Len(node)})

RECURSIVE Way(_, _, _)
\* The slots from node down to the level (above it are n levels).
Way(node, key, n) ==
    IF n = 0 THEN << >>
    ELSE LET i == Slot(node, key) IN <<i>> \o Way(node[i].val, key, n - 1)

RECURSIVE LowerBounds(_, _, _)
\* find_level updates the bounds on its way when the key is too small for them.
LowerBounds(node, key, n) ==
    IF n = 0 THEN node
    ELSE LET i == Slot(node, key)
         IN  [node EXCEPT ![i] =
                Pair(IF key < @.key THEN key ELSE @.key, LowerBounds(@.val, key, n - 1))]

MutFindLevel(c, key, level) == c
\* find_level: the bounds it leaves behind, and the node it finds.
FindLevel(c, key, level) ==
    [c EXCEPT !.node = LowerBounds(@, key, c.height - level)]
WayTo(c, key, level) == Way(c.node, key, c.height - level)

RECURSIVE NodeAt(_, _)
NodeAt(node, way) ==
    IF way = << >> THEN node ELSE NodeAt(node[Head(way)].val, Tail(way))

RECURSIVE SetNode(_, _, _)
SetNode(node, way, new) ==
    IF way = << >> THEN new
    ELSE [node EXCEPT ![Head(way)].val = SetNode(@, Tail(way), new)]

----------------------------------------------------------------------------
(* Lookup                                                                  *)

RECURSIVE LookupIn(_, _, _)
LookupIn(node, key, height) ==
    LET i == GetPos(node, key)
    IN  IF i > Len(node) THEN NULL
        ELSE IF height > 1 THEN LookupIn(node[i].val, key, height - 1)
        ELSE IF node[i].key = key THEN node[i].val ELSE NULL

Lookup(t, key) == IF t.height = 0 THEN NULL ELSE LookupIn(t.node, key, t.height)

RECURSIVE Visited(_, _)
\* __btree_for_each: the leaf slots in the order the visitor sees them.
Visited(node, height) ==
    IF height <= 1 THEN node
    ELSE FlattenSeq([i \in DOMAIN node |-> Visited(node[i].val, height - 1)])

Visitor(t) == Visited(t.node, t.height)

RECURSIVE FirstLeaf(_, _)
FirstLeaf(node, height) ==
    IF height <= 1 THEN node ELSE FirstLeaf(node[1].val, height - 1)

\* btree_last: the first key of the first leaf.
LastKey(t) == FirstLeaf(t.node, t.height)[1].key

----------------------------------------------------------------------------
(* Insert                                                                  *)

\* btree_grow
Grow(c) ==
    IF c.mem = 0 THEN [c EXCEPT !.err = TRUE]
    ELSE [c EXCEPT !.mem = @ - 1,
                   !.height = @ + 1,
                   !.node = IF c.height = 0 THEN << >>
                            ELSE <<Pair(Last(@).key, @)>>]

MutSplitKey(node) == node[Half + 1].key
\* The bound under which split enters the new node: the smallest of its keys.
SplitKey(node) == node[Half].key

RECURSIVE InsertLevel(_, _, _, _)

\* split: the larger half of a full node moves to a new one, entered in the
\* parent before the node itself.
Split(c, way, level) ==
    LET node == NodeAt(c.node, way)
        up   == InsertLevel([c EXCEPT !.mem = @ - 1], SplitKey(node),
                            SubSeq(node, 1, Half), level + 1)
    IN  IF c.mem = 0 \/ up.err
        THEN [(IF c.mem = 0 THEN c ELSE up) EXCEPT !.err = TRUE]
        ELSE [up EXCEPT !.node = SetNode(@, WayTo(up, Last(node).key, level),
                                         SubSeq(node, Half + 1, NoPairs))]

\* btree_insert_level
InsertLevel(c, key, val, level) ==
    LET g    == IF c.height < level THEN Grow(c) ELSE c
        f    == FindLevel(g, key, level)
        way  == WayTo(f, key, level)
        node == NodeAt(f.node, way)
        pos  == GetPos(node, key)
        s    == Split(f, way, level)
    IN  IF g.err THEN g
        ELSE IF Len(node) = NoPairs
        THEN IF s.err THEN s ELSE InsertLevel(s, key, val, level)
        ELSE BugOn([f EXCEPT !.node =
                        SetNode(@, way, InsertAt(node, pos, Pair(key, val)))],
                   pos <= Len(node) /\ node[pos].key = key)

----------------------------------------------------------------------------
(* Remove                                                                  *)

\* btree_shrink
Shrink(c, fill) ==
    IF fill = 0 \/ (fill = 1 /\ c.height > 1)
    THEN [c EXCEPT !.height = @ - 1,
                   !.node = IF fill = 0 THEN << >> ELSE @[1].val]
    ELSE c

MutStolenBound(left, n) == left[Len(left)].key
\* The left neighbour's bound after its last n entries are gone.
StolenBound(left, n) == left[Len(left) - n].key

\* steal_l and steal_r: n entries change sides and the bound between follows.
StealL(parent, lpos, n) ==
    LET left == parent[lpos].val
        kept == Len(left) - n
    IN  [parent EXCEPT
           ![lpos] = Pair(StolenBound(left, n), SubSeq(left, 1, kept)),
           ![lpos + 1].val = SubSeq(left, kept + 1, Len(left)) \o @]

StealR(parent, lpos, n) ==
    LET right == parent[lpos + 1].val
    IN  [parent EXCEPT
           ![lpos] = Pair(right[n].key, @.val \o SubSeq(right, 1, n)),
           ![lpos + 1].val = SubSeq(right, n + 1, Len(right))]

RECURSIVE RemoveLevel(_, _, _)

MutMergeSlot(lpos) == lpos + 1
\* The slot whose bound goes: the larger one, the merged node keeps the smaller.
MergeSlot(lpos) == lpos

\* merge: both nodes become one, in the right slot of the parent.
Merge(c, level, up, lpos) ==
    LET parent == NodeAt(c.node, up)
        both   == parent[lpos].val \o parent[lpos + 1].val
        moved  == [parent EXCEPT ![lpos].val = << >>, ![lpos + 1].val = both]
    IN  RemoveLevel([c EXCEPT !.node = SetNode(@, up, moved)],
                    parent[MergeSlot(lpos)].key, level + 1)

\* rebalance of the node on the way, which has fill entries left.
Rebalance(c, key, level, way, fill) ==
    LET f        == FindLevel(c, key, level + 1)
        up       == WayTo(f, key, level + 1)
        parent   == NodeAt(f.node, up)
        no       == GetPos(parent, key)
        b        == BugOn(f, up \o <<no>> # way)
        NoLeft   == Len(parent[no - 1].val)
        NoRight  == Len(parent[no + 1].val)
        hasLeft  == no > 1
        hasRight == no + 1 <= Len(parent)
        Stealing(n, new) ==
            BugOn([b EXCEPT !.node = SetNode(@, up, new)], n < 1)
    IN  IF b.bug THEN b
        ELSE IF hasLeft /\ fill + NoLeft <= NoPairs
        THEN Merge(b, level, up, no - 1)
        ELSE IF hasRight /\ fill + NoRight <= NoPairs
        THEN Merge(b, level, up, no)
        ELSE IF fill > 1 THEN b
        ELSE IF hasLeft
        THEN LET n == (NoLeft - fill) \div 2
             IN  Stealing(n, StealL(parent, no - 1, n))
        ELSE IF hasRight
        THEN LET n == (NoRight - fill) \div 2
             IN  Stealing(n, StealR(parent, no, n))
        ELSE BugOn(b, TRUE)

MutSameKey(node, pos, key) == pos <= Len(node)
\* The test for the key in a leaf: an unused slot of a node compares as key 0, a
\* slot outside of the node is a pointer and compares with no key.
SameKey(node, pos, key) ==
    \/ pos <= Len(node) /\ node[pos].key = key
    \/ Len(node) < pos /\ pos <= NoPairs /\ key = 0

\* btree_remove_level.  Without an entry at pos it is the slot before that is
\* cleared.  The key merge passes lives in the node: the shift overwrites it.
RemoveLevel(c, key, level) ==
    LET f       == FindLevel(c, key, level)
        way     == WayTo(f, key, level)
        node    == NodeAt(f.node, way)
        pos     == GetPos(node, key)
        rest    == IF pos <= Len(node) THEN RemoveAt(node, pos) ELSE Front(node)
        r       == [f EXCEPT !.node = SetNode(@, way, rest),
                             !.ret = IF level > 1 THEN @
                                     ELSE IF pos <= Len(node) THEN node[pos].val
                                     ELSE NULL]
        newkey  == IF level = 1 THEN key ELSE rest[pos].key
    IN  IF level > c.height
        THEN [c EXCEPT !.height = 0, !.node = << >>]
        ELSE IF level = 1 /\ ~SameKey(node, pos, key) THEN f
        ELSE IF Len(rest) >= Half THEN r
        ELSE IF level < r.height
        THEN Rebalance(r, newkey, level, way, Len(rest))
        ELSE Shrink(r, Len(rest))

RemoveKey(c, key) == IF c.height = 0 THEN c ELSE RemoveLevel(c, key, 1)

----------------------------------------------------------------------------
(* Merge of two trees                                                      *)

RECURSIVE MergeAll(_, _)
\* The loop of btree_merge, from the largest key of the victim down.
MergeAll(t, v) ==
    IF v.height = 0 THEN <<t, v>>
    ELSE LET key == LastKey(v)
             i   == InsertLevel(t, key, Lookup(v, key), 1)
         IN  IF i.err THEN <<i, v>> ELSE MergeAll(i, RemoveKey(v, key))

----------------------------------------------------------------------------
(* The calls, by clients that keep to the interface: a key is in one tree   *)
(* at most when it is inserted.                                            *)

Abstract == INSTANCE OrderedMap

Content(t) ==
    LET v == Visitor(t)
    IN  [k \in {v[i].key : i \in DOMAIN v} |->
            v[CHOOSE i \in DOMAIN v : v[i].key = k].val]

Present(h) == DOMAIN map[h]

\* btree_insert
Insert(h, k, v, mem) ==
    LET c == InsertLevel(Call(tree[h], mem), k, v, 1)
    IN  /\ \A g \in Heads : k \notin Present(g)
        /\ tree' = [tree EXCEPT ![h] = TreeOf(c)]
        /\ ret' = IF c.err THEN ENOMEM ELSE NULL
        /\ bug' = c.bug
        /\ call' = Abstract!InsertOf(h, k, v)

\* btree_remove
RemoveEntry(h, k) ==
    LET c == RemoveKey(Call(tree[h], 0), k)
    IN  /\ k \in Present(h) \cup AbsentKeys
        /\ tree' = [tree EXCEPT ![h] = TreeOf(c)]
        /\ ret' = c.ret
        /\ bug' = c.bug
        /\ call' = Abstract!RemoveOf(h, k)

\* btree_merge: an empty target takes the victim as it is.
MergeTrees(target, victim, mem) ==
    LET t == Call(tree[target], mem)
        v == Call(tree[victim], 0)
        m == IF t.height = 0 THEN <<v, Call(EmptyTree, 0)>> ELSE MergeAll(t, v)
    IN  /\ target # victim
        /\ tree' = [tree EXCEPT ![target] = TreeOf(m[1]), ![victim] = TreeOf(m[2])]
        /\ ret' = IF m[1].err THEN ENOMEM ELSE NULL
        /\ bug' = (m[1].bug \/ m[2].bug)
        /\ call' = Abstract!MergeOf(target, victim)

\* btree_grim_visitor: every node is freed and the head starts anew.
GrimVisitor(h) ==
    /\ tree' = [tree EXCEPT ![h] = EmptyTree]
    /\ ret' = NULL
    /\ call' = Abstract!ClearOf(h)
    /\ UNCHANGED bug

\* A client stores under every key a pointer of its own.
Pointer(k) == k + 1

BTreeInit ==
    /\ tree = [h \in Heads |-> EmptyTree]
    /\ ret = NULL
    /\ bug = FALSE
    /\ map = [h \in Heads |-> << >>]
    /\ call = Abstract!NoCall
    /\ odd = FALSE

BTreeNext ==
    /\ ~bug
    /\ \/ \E h \in Heads, k \in Keys :
             \/ \E mem \in 0..MaxAllocs : Insert(h, k, Pointer(k), mem)
             \/ RemoveEntry(h, k)
       \/ \E h, g \in Heads, mem \in 0..MaxAllocs : MergeTrees(h, g, mem)
       \/ \E h \in Heads : GrimVisitor(h)
    /\ map' = [h \in Heads |-> Content(tree'[h])]
    /\ odd' = ~odd

\* What a call depends on: the runs tell states apart by it.  ret and call are
\* only looked at in the step that sets them, map is a function of tree.
Shape == <<tree, bug>>

BTreeSpec == BTreeInit /\ [][BTreeNext]_btreeVars

----------------------------------------------------------------------------
(* Properties                                                              *)

\* The trees are the maps of btree.h, call by call: an insert, a removal or a merge
\* changes the entries it was asked to change, all of them and no others, and
\* returns what it should, through whatever splits, merges of nodes and steals it
\* causes.  An insert that reports success has entered its key and its pointer, a
\* removal hands out the pointer of the very key it takes away, and an insert that
\* runs out of memory half way up the tree has lost and changed nothing.
ImplementsMap == Abstract!MapSpec

RECURSIVE NodesWithin(_, _, _, _)
\* The keys of a node are strictly descending, at or above low and below high,
\* and so are those of its children between their bounds; no node is empty or
\* overfull, and only a root may have fewer than two entries.
NodesWithin(node, height, low, high) ==
    /\ Len(node) \in 1 .. NoPairs
    /\ \A i \in DOMAIN node :
          /\ node[i].key >= low
          /\ node[i].key < IF i = 1 THEN high ELSE node[i - 1].key
          /\ height > 1 =>
             /\ Len(node[i].val) > 1
             /\ NodesWithin(node[i].val, height - 1, node[i].key,
                            IF i = 1 THEN high ELSE node[i - 1].key)

\* A tree keeps the shape find_level relies on: with bounds that separate the
\* children every key has one leaf to be in.  Bounds are not exact, they are
\* lowered on the way to a small key and stay low when it goes.
WellFormed ==
    \A h \in Heads : IF tree[h].height = 0 THEN tree[h].node = << >>
                     ELSE NodesWithin(tree[h].node, tree[h].height, 0, Max(Keys) + 1)

\* No BUG_ON is met by clients that keep to the interface: the parent found by a
\* key that merge() has overwritten meanwhile is the right one, a steal takes at
\* least one entry, no key is entered twice.
NoBug == ~bug

\* Whatever the bounds are, a lookup finds what the visitor sees, NULL for every
\* other key, and btree_last is the largest key, which the visitor sees first.
LookupAgrees ==
    \A h \in Heads :
        LET t == tree[h]
            c == map[h]
        IN  /\ \A k \in Keys : Lookup(t, k) = IF k \in DOMAIN c THEN c[k] ELSE NULL
            /\ t.height > 0 => LastKey(t) = Max(DOMAIN c)
=============================================================================
