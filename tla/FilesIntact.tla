----------------------------- MODULE FilesIntact -----------------------------
(***************************************************************************)
(* What is written to a file is found through its inode after the flush.   *)
(*                                                                         *)
(* A block that was written hangs, by a chain of objects on the device,    *)
(* from a slot of an indirect block in memory: at first directly, from the *)
(* lowest tree.  Each turn of logfs_file_flush writes one indirect block   *)
(* and makes the chains through it longer by that object, and the last     *)
(* turn hangs all of them into the inode.  No object is overwritten        *)
(* meanwhile, as each has a place of its own.                              *)
(***************************************************************************)
EXTENDS FileRWProofs

----------------------------------------------------------------------------
(* Objects keep their places                                               *)

\* Object o is in segment t, written by area l or still in its buffer.
Holds(l, t, o) ==
    \/ medium[t].kind = "ostore" /\ medium[t].level = l /\ o \in medium[t].objs
    \/ area[l].open /\ area[l].segno = t /\ o \in area[l].buf

\* The object at place p of the device is this one.
Held(p, l, type, ino, bix) ==
    \E t \in Segs, o \in Object :
        /\ Holds(l, t, o) /\ p = t * SegSize + o.pos
        /\ o.type = type /\ o.ino = ino /\ o.bix = bix

\* An object of the store ends in its segment.
LEMMA HoldsInside ==
    ASSUME TypeOK, Packed, NEW l \in Areas, NEW t \in Segs, NEW o \in Object, Holds(l, t, o)
    PROVE  o.pos \in Nat /\ o.pos <= SegSize
<1>1. o.pos \in Nat /\ o.len \in Nat /\ ObjHeader \in Nat /\ SegSize \in Nat
  BY SizeAssumption, DeviceAssumption DEF Object
<1>2. End(o) <= SegSize
  <2>1. CASE medium[t].kind = "ostore" /\ o \in medium[t].objs
    <3>1. PICK end \in SegHeader .. SegSize : Tiles(medium[t].objs, end)
      BY <2>1 DEF Packed
    <3>2. End(o) <= end
      BY <2>1, <3>1 DEF Tiles
    <3> QED
      BY <1>1, <3>1, <3>2, SizeAssumption DEF End
  <2>2. CASE area[l].open /\ o \in area[l].buf
    <3>1. area[l].used_bytes \in SegHeader .. SegSize /\ Tiles(area[l].buf, area[l].used_bytes)
      BY <2>2 DEF Packed
    <3>2. End(o) <= area[l].used_bytes
      BY <2>2, <3>1 DEF Tiles
    <3> QED
      BY <1>1, <3>1, <3>2, SizeAssumption DEF End
  <2> QED
    BY <2>1, <2>2 DEF Holds
<1> QED
  BY <1>1, <1>2 DEF End

\* Places tell segments apart.
LEMMA PlaceUnique ==
    ASSUME NEW t \in Nat, NEW s \in Nat, NEW S \in Nat, NEW p \in Nat, NEW q \in Nat,
           p <= S, 0 < q, q < S, t * S + p = s * S + q
    PROVE  t = s /\ p = q
<1>1. t * S \in Nat /\ s * S \in Nat
  OBVIOUS
<1>2. CASE t < s
  <2>1. t + 1 <= s
    BY <1>2
  <2>2. (t + 1) * S <= s * S /\ (t + 1) * S = t * S + S
    BY <2>1
  <2> QED
    BY <1>1, <2>2
<1>3. CASE s < t
  <2>1. s + 1 <= t
    BY <1>3
  <2>2. (s + 1) * S <= t * S /\ (s + 1) * S = s * S + S
    BY <2>1
  <2> QED
    BY <1>1, <2>2
<1>4. CASE t = s
  BY <1>1, <1>4
<1> QED
  BY <1>2, <1>3, <1>4

\* The next object of an area starts behind the segment header and in the segment.
LEMMA NextPosBounds ==
    ASSUME TypeOK, Packed, NEW l \in Areas
    PROVE  NextPos(l) \in Nat /\ 0 < NextPos(l) /\ NextPos(l) < SegSize
<1>1. area[l].used_bytes \in Nat /\ (area[l].open => SegHeader <= area[l].used_bytes)
  BY DEF TypeOK, AreaType, Packed
<1> QED
  BY <1>1, SizeAssumption, DeviceAssumption DEF NextPos, HasRoom

\* The three ways of logfs_segment_write.
LEMMA WriteCases ==
    ASSUME NEW type, NEW ino, NEW bix, NEW level, NEW s,
           SegmentWrite(type, ino, bix, level, s)
    PROVE  LET l == AreaOf(ino, level)
           IN  \/ /\ area[l].open /\ HasRoom(l) /\ s = area[l].segno
                  /\ area' = [area EXCEPT ![l] = CopyBuf(area[l], type, ino, bix)]
                  /\ UNCHANGED <<lastseg, medium>>
               \/ /\ ~area[l].open /\ GetSegment(s, segment_entry, medium)
                  /\ area' = [area EXCEPT ![l] = CopyBuf(Fresh(s), type, ino, bix)]
               \/ /\ area[l].open /\ ~HasRoom(l)
                  /\ GetSegment(s, EntryAfterFinish(l), MediumAfterFinish(l))
                  /\ area' = [area EXCEPT ![l] = CopyBuf(Fresh(s), type, ino, bix)]
  BY DEF SegmentWrite

\* No object is where logfs_segment_write puts the next one.
LEMMA FreshPlace ==
    ASSUME NEW n \in Nat, StoreBelow(n), lastseg' <= n,
           NEW type \in Types, NEW ino \in Inos, NEW bix \in Nat,
           NEW level \in Levels, NEW s \in Segs,
           SegmentWrite(type, ino, bix, level, s),
           NEW m \in Areas, NEW t \in Segs, NEW o \in Object, Holds(m, t, o)
    PROVE  t * SegSize + o.pos # Place(AreaOf(ino, level), s)
<1> DEFINE l == AreaOf(ino, level)
<1>1. /\ TypeOK /\ OwnedBelow(n) /\ Packed /\ CountedAreas /\ ~exited /\ flush_i = 0
      /\ l \in Areas
  BY AreaOfType DEF StoreBelow, SegmentWrite
<1>2. /\ s \in Nat /\ t \in Nat /\ SegSize \in Nat /\ lastseg \in Nat
      /\ o.pos \in Nat /\ o.pos <= SegSize
      /\ NextPos(l) \in Nat /\ 0 < NextPos(l) /\ NextPos(l) < SegSize
  <2>1. o.pos \in Nat /\ o.pos <= SegSize
    BY <1>1, HoldsInside
  <2>2. NextPos(l) \in Nat /\ 0 < NextPos(l) /\ NextPos(l) < SegSize
    BY <1>1, NextPosBounds
  <2> QED
    BY <1>1, <2>1, <2>2, DeviceAssumption DEF TypeOK, Segs
<1> SUFFICES ASSUME t * SegSize + o.pos = s * SegSize + NextPos(l) PROVE FALSE
  BY DEF Place
<1>3. t = s /\ o.pos = NextPos(l)
  BY <1>2, PlaceUnique
<1> HIDE DEF l
<1>4. \A k \in Areas : area[k].open => area[k].segno < lastseg
  BY <1>1 DEF OwnedBelow
<1>5. CASE area[l].open /\ HasRoom(l) /\ s = area[l].segno
  <2>1. medium[s] = Erased /\ 0 <= m /\ 0 <= l
    BY <1>1, <1>5, PendingErased DEF Areas
  <2>2. area[m].open /\ area[m].segno = s /\ o \in area[m].buf
    BY <1>3, <2>1 DEF Holds, Erased
  <2>3. m = l
    BY <1>1, <1>5, <2>2 DEF OwnedBelow
  <2>4. NextPos(l) = area[l].used_bytes
    BY <1>5 DEF NextPos
  <2>5. End(o) <= area[l].used_bytes /\ o.len >= 1
    BY <1>1, <1>5, <2>2, <2>3 DEF Packed, Tiles, CountedAreas, Counted
  <2> QED
    BY <1>2, <1>3, <2>4, <2>5, SizeAssumption DEF End, Object
<1>6. ASSUME lastseg <= s, lastseg' = s + 1 PROVE FALSE
  <2>1. s < n
    BY <1>2, <1>6
  <2>2. medium[s] = Unknown
    BY <1>1, <1>6, <2>1 DEF OwnedBelow, Untouched
  <2>3. area[m].open /\ area[m].segno = s
    BY <1>3, <2>2 DEF Holds, Unknown
  <2> QED
    BY <1>2, <1>4, <1>6, <2>3
<1> QED
  BY <1>5, <1>6, WriteCases DEF l, GetSegment, NextSeg

\* An object that logfs_segment_write finds in the store stays where it is.
LEMMA WriteHolds ==
    ASSUME NEW n \in Nat, StoreBelow(n), lastseg' <= n,
           NEW type \in Types, NEW ino \in Inos, NEW bix \in Nat,
           NEW level \in Levels, NEW s \in Segs,
           SegmentWrite(type, ino, bix, level, s),
           NEW m \in Areas, NEW t \in Segs, NEW o \in Object, Holds(m, t, o)
    PROVE  Holds(m, t, o)'
<1> DEFINE l == AreaOf(ino, level)
<1>1. /\ TypeOK /\ OwnedBelow(n) /\ ~exited /\ flush_i = 0 /\ l \in Areas
      /\ area \in [Areas -> AreaType] /\ medium \in [Segs -> SegmentType]
      /\ segment_entry \in [Segs -> Entry] /\ lastseg \in Nat
  <2>1. TypeOK /\ OwnedBelow(n) /\ ~exited /\ flush_i = 0 /\ l \in Areas
    BY AreaOfType DEF StoreBelow, SegmentWrite
  <2> QED
    BY <2>1 DEF TypeOK
<1>2. \A k \in Areas : area[k].open => /\ area[k].segno \in Segs /\ area[k].segno < lastseg
                                       /\ medium[area[k].segno] = Erased
  <2> SUFFICES ASSUME NEW k \in Areas, area[k].open
               PROVE  /\ area[k].segno \in Segs /\ area[k].segno < lastseg
                      /\ medium[area[k].segno] = Erased
    OBVIOUS
  <2>1. flush_i <= k
    BY <1>1 DEF Areas
  <2> QED
    BY <1>1, <2>1, PendingErased
<1>3. t \in Nat /\ s \in Nat
  BY DEF Segs
<1>4. medium[t].kind = "ostore" => t < lastseg \/ n <= t
  BY <1>1, <1>3 DEF OwnedBelow, Untouched, Unknown
<1> HIDE DEF l
<1>5. CASE /\ area[l].open /\ s = area[l].segno /\ UNCHANGED medium
           /\ area' = [area EXCEPT ![l] = CopyBuf(area[l], type, ino, bix)]
  <2>1. /\ CopyBuf(area[l], type, ino, bix).open = area[l].open
        /\ CopyBuf(area[l], type, ino, bix).segno = area[l].segno
        /\ area[l].buf \subseteq CopyBuf(area[l], type, ino, bix).buf
    BY <1>1, CopyBufArea
  <2>2. area'[m] = IF m = l THEN CopyBuf(area[l], type, ino, bix) ELSE area[m]
    BY <1>1, <1>5
  <2> QED
    BY <1>5, <2>1, <2>2 DEF Holds
<1>6. CASE /\ ~area[l].open /\ GetSegment(s, segment_entry, medium)
           /\ area' = [area EXCEPT ![l] = CopyBuf(Fresh(s), type, ino, bix)]
  <2>1. s + 1 <= n /\ \A x \in Segs : x < lastseg \/ s < x => medium'[x] = medium[x]
    BY <1>1, <1>6, GetSegmentFacts
  <2>2. area[m].open => m # l
    BY <1>6
  <2>3. area[m].open => area'[m] = area[m]
    BY <1>1, <1>6, <2>2
  <2>4. medium[t].kind = "ostore" => medium'[t] = medium[t]
    BY <1>1, <1>3, <1>4, <2>1
  <2> QED
    BY <2>3, <2>4 DEF Holds
<1>7. CASE /\ area[l].open /\ ~HasRoom(l)
           /\ GetSegment(s, EntryAfterFinish(l), MediumAfterFinish(l))
           /\ area' = [area EXCEPT ![l] = CopyBuf(Fresh(s), type, ino, bix)]
  <2>1. /\ EntryAfterFinish(l) \in [Segs -> Entry]
        /\ MediumAfterFinish(l) \in [Segs -> SegmentType]
        /\ \A x \in Segs : x # area[l].segno => MediumAfterFinish(l)[x] = medium[x]
    BY <1>1, <1>7, FinishFacts
  <2>2. s + 1 <= n /\ \A x \in Segs : x < lastseg \/ s < x => medium'[x] = MediumAfterFinish(l)[x]
    BY <1>1, <1>7, <2>1, GetSegmentFacts
  <2>3. MediumAfterFinish(l)[area[l].segno] = Ostore(l, area[l].buf)
    BY <1>1, <1>2, <1>7 DEF MediumAfterFinish
  <2>4. CASE medium[t].kind = "ostore"
    <3>1. t # area[l].segno
      <4>1. medium[area[l].segno].kind = "erased"
        BY <1>1, <1>2, <1>7 DEF Erased
      <4> QED
        BY <2>4, <4>1
    <3>2. medium'[t] = medium[t]
      BY <1>1, <1>3, <1>4, <2>1, <2>2, <2>4, <3>1
    <3>3. \/ medium[t].level = m /\ o \in medium[t].objs
          \/ area[m].open /\ area[m].segno = t
      BY DEF Holds
    <3>4. ~(area[m].open /\ area[m].segno = t)
      BY <1>2, <2>4 DEF Erased
    <3> QED
      BY <2>4, <3>2, <3>3, <3>4 DEF Holds
  <2>5. CASE area[m].open /\ area[m].segno = t /\ o \in area[m].buf
    <3>1. CASE m = l
      <4>1. medium'[t] = Ostore(l, area[l].buf)
        BY <1>2, <1>7, <2>2, <2>3, <2>5, <3>1
      <4> QED
        BY <2>5, <3>1, <4>1 DEF Holds, Ostore
    <3>2. CASE m # l
      <4>1. area'[m] = area[m]
        BY <1>1, <1>7, <3>2
      <4> QED
        BY <2>5, <4>1 DEF Holds
    <3> QED
      BY <3>1, <3>2
  <2> QED
    BY <2>4, <2>5 DEF Holds
<1> QED
  BY <1>5, <1>6, <1>7, WriteCases DEF l

\* And so do all objects in every step of the store, until the program is gone.
LEMMA StoreHolds ==
    ASSUME NEW n \in Nat, StoreBelow(n), lastseg' <= n, [StoreNext]_segVars, ~exited',
           NEW m \in Areas, NEW t \in Segs, NEW o \in Object, Holds(m, t, o)
    PROVE  Holds(m, t, o)'
<1>1. /\ TypeOK /\ OwnedBelow(n)
      /\ area \in [Areas -> AreaType] /\ medium \in [Segs -> SegmentType]
      /\ segment_entry \in [Segs -> Entry] /\ lastseg \in Nat
  BY DEF StoreBelow, TypeOK
<1>2. CASE \E s \in Segs : Reserve(s)
  <2> PICK s \in Segs : Reserve(s)
    BY <1>2
  <2> DEFINE entry == [segment_entry EXCEPT ![s] = ReservedEntry]
  <2>1. /\ entry \in [Segs -> Entry] /\ GetSegment(s, entry, medium) /\ ~exited
        /\ UNCHANGED area
    BY <1>1, SegmentValues DEF Reserve
  <2> HIDE DEF entry
  <2>2. s + 1 <= n /\ \A x \in Segs : x < lastseg \/ s < x => medium'[x] = medium[x]
    BY <1>1, <2>1, GetSegmentFacts
  <2>3. medium[t].kind = "ostore" => t < lastseg \/ n <= t
    BY <1>1, <2>1 DEF OwnedBelow, Untouched, Unknown, Segs
  <2>4. medium[t].kind = "ostore" => medium'[t] = medium[t]
    BY <1>1, <2>2, <2>3 DEF Segs
  <2> QED
    BY <2>1, <2>4 DEF Holds
<1>3. CASE \E type \in Types, ino \in Inos, bix \in Nat, level \in Levels,
              s \in Segs : SegmentWrite(type, ino, bix, level, s)
  BY <1>3, WriteHolds
<1>4. CASE FlushArea
  <2>1. /\ ~exited /\ flush_i \in Areas /\ flush_i <= flush_i /\ UNCHANGED area
        /\ \/ area[flush_i].open /\ medium' = MediumAfterFinish(flush_i)
           \/ UNCHANGED medium
    BY <1>4 DEF FlushArea, Areas
  <2>2. medium[t].kind = "ostore" => medium'[t] = medium[t]
    <3>1. CASE area[flush_i].open /\ medium' = MediumAfterFinish(flush_i)
      <4>1. /\ medium[area[flush_i].segno] = Erased
            /\ \A x \in Segs : x # area[flush_i].segno => medium'[x] = medium[x]
        BY <1>1, <2>1, <3>1, FinishFacts, PendingErased
      <4> QED
        BY <4>1 DEF Erased
    <3> QED
      BY <2>1, <3>1
  <2> QED
    BY <2>1, <2>2 DEF Holds
<1>5. CASE UNCHANGED segVars
  BY <1>5 DEF Holds, segVars
<1> QED
  BY <1>2, <1>3, <1>4, <1>5
  DEF StoreNext, ReserveFails, SegmentWriteFails, FlushFails, Halt, NoSegmentLeft, WriteError

LEMMA StoreHeld ==
    ASSUME NEW n \in Nat, StoreBelow(n), lastseg' <= n, [StoreNext]_segVars, ~exited'
    PROVE  \A p, type, ino, bix : \A m \in Areas :
               Held(p, m, type, ino, bix) => Held(p, m, type, ino, bix)'
<1> SUFFICES ASSUME NEW p, NEW type, NEW ino, NEW bix, NEW m \in Areas,
                    Held(p, m, type, ino, bix)
             PROVE  Held(p, m, type, ino, bix)'
  OBVIOUS
<1>1. PICK t \in Segs, o \in Object :
         /\ Holds(m, t, o) /\ p = t * SegSize + o.pos
         /\ o.type = type /\ o.ino = ino /\ o.bix = bix
  BY DEF Held
<1>2. Holds(m, t, o)'
  BY <1>1, StoreHolds
<1> QED
  BY <1>1, <1>2 DEF Held

\* The object that logfs_segment_write writes is held from then on.
LEMMA NewHeld ==
    ASSUME TypeOK, NEW type \in Types, NEW ino \in Inos, NEW bix \in Nat,
           NEW level \in Levels, NEW s \in Segs,
           SegmentWrite(type, ino, bix, level, s), NEW p, p = Place(AreaOf(ino, level), s)
    PROVE  Held(p, AreaOf(ino, level), type, ino, bix)'
<1> DEFINE l == AreaOf(ino, level)
<1>1. l \in Areas /\ area \in [Areas -> AreaType] /\ area[l] \in AreaType
      /\ Fresh(s) \in AreaType /\ Fresh(s).open /\ Fresh(s).segno = s
      /\ Fresh(s).used_bytes = SegHeader
  BY AreaOfType, FreshArea DEF TypeOK
<1>2. ASSUME NEW a \in AreaType, a.open, a.segno = s, a.used_bytes = NextPos(l),
             area' = [area EXCEPT ![l] = CopyBuf(a, type, ino, bix)]
      PROVE  Held(p, l, type, ino, bix)'
  <2> DEFINE new == NewObject(a, type, ino, bix)
             b == CopyBuf(a, type, ino, bix)
  <2>1. /\ new \in Object /\ new.pos = a.used_bytes /\ new.ino = ino /\ new.bix = bix
        /\ b.buf = a.buf \cup {new}
    BY NewObjectFacts
  <2>2. new.type = type
    BY DEF NewObject
  <2>3. b.open /\ b.segno = s
    BY <1>2, CopyBufArea
  <2> HIDE DEF new, b
  <2>4. area'[l] = b
    BY <1>1, <1>2 DEF b
  <2>5. Holds(l, s, new)'
    BY <2>1, <2>3, <2>4 DEF Holds
  <2>6. p = s * SegSize + new.pos
    BY <1>2, <2>1 DEF Place, l
  <2> QED
    BY <2>1, <2>2, <2>5, <2>6 DEF Held
<1> HIDE DEF l
<1>3. \/ /\ area[l].open /\ HasRoom(l) /\ s = area[l].segno
         /\ area' = [area EXCEPT ![l] = CopyBuf(area[l], type, ino, bix)]
      \/ /\ ~(area[l].open /\ HasRoom(l))
         /\ area' = [area EXCEPT ![l] = CopyBuf(Fresh(s), type, ino, bix)]
  BY WriteCases DEF l
<1> QED
  BY <1>1, <1>2, <1>3 DEF l, NextPos

----------------------------------------------------------------------------
(* Blocks and their indirect blocks                                        *)

\* The indirect block of a level above a block is in the same slot as the block
\* itself would be, of the same block of the next level.
LEMMA ParentOfParent ==
    ASSUME NEW bix \in Nat, NEW level \in 0 .. MaskLevels - 1
    PROVE  /\ ParentBix(bix, level) \in Nat
           /\ GetBits(ParentBix(bix, level), level) = GetBits(bix, level)
           /\ ParentBix(ParentBix(bix, level), level + 1) = ParentBix(bix, level + 1)
<1> DEFINE P == Factor ^ level
           Q == Factor ^ (level + 1)
           q == bix \div P
           b == ParentBix(bix, level)
<1>1. Factor \in Nat /\ Factor > 0 /\ MaxLevels \in Nat /\ level \in 0 .. MaxLevels
  BY Constants
<1>0. level \in 0 .. MaskLevels /\ level + 1 \in 0 .. MaskLevels
  BY Constants
<1>2. P \in Nat /\ P > 0 /\ Q = Factor * P
  BY <1>1, Powers, PowerAssumption
<1>3. b = q * P + P - 1 /\ b \in Nat
  BY <1>0, IndexTypes, RightMask
<1>4. /\ GetBits(bix, level) = q % Factor
      /\ GetBits(b, level) = (b \div P) % Factor
  BY DEF GetBits
<1>5. /\ ParentBix(bix, level + 1) = (bix \div Q) * Q + Q - 1
      /\ ParentBix(b, level + 1) = (b \div Q) * Q + Q - 1
  BY <1>0, RightMask
<1> HIDE DEF P, Q, b
<1>6. q \in Nat
  BY <1>2
<1> HIDE DEF q
<1>7. b = P * q + (P - 1) /\ P - 1 \in 0 .. P - 1
  BY <1>2, <1>3, <1>6
<1>8. b \div P = q
  BY <1>2, <1>3, <1>6, <1>7, DivisionUnique
<1>9. b \div Q = q \div Factor /\ bix \div Q = q \div Factor
  BY <1>1, <1>2, <1>3, <1>8, DivisionTwice DEF q
<1> QED
  BY <1>3, <1>4, <1>5, <1>8, <1>9 DEF b

\* Two blocks in the same slot of the same indirect block are below the same
\* block of the level in between.
LEMMA SlotOfParent ==
    ASSUME NEW bix \in Nat, NEW other \in Nat, NEW level \in 0 .. MaskLevels - 1,
           Aligned(other, level),
           ParentBix(bix, level + 1) = ParentBix(other, level + 1),
           GetBits(bix, level) = GetBits(other, level)
    PROVE  ParentBix(bix, level) = other
<1> DEFINE b == ParentBix(bix, level)
<1>1. level \in 0 .. MaskLevels
  BY Constants
<1>2. Aligned(b, level)
  BY <1>1, ParentAligned
<1>3. /\ b \in Nat /\ GetBits(b, level) = GetBits(bix, level)
      /\ ParentBix(b, level + 1) = ParentBix(bix, level + 1)
  BY ParentOfParent
<1> HIDE DEF b
<1>4. ChildBix(ParentBix(b, level + 1), level + 1, GetBits(b, level)) = b
  BY <1>2, <1>3, ChildOfParent
<1>5. ChildBix(ParentBix(other, level + 1), level + 1, GetBits(other, level)) = other
  BY ChildOfParent
<1> QED
  BY <1>3, <1>4, <1>5 DEF b

\* Blocks that a height reaches are all below one block of the highest level.
LEMMA TopBlock ==
    ASSUME NEW bix \in Nat, NEW h \in 0 .. MaskLevels, bix < Factor ^ h
    PROVE  ParentBix(bix, h) = Factor ^ h - 1
<1> DEFINE P == Factor ^ h
<1>1. P \in Nat /\ P > 0
  BY Powers, RightMask
<1>2. ParentBix(bix, h) = (bix \div P) * P + P - 1
  BY RightMask
<1> HIDE DEF P
<1>3. bix < P
  BY DEF P
<1>4. bix \in 0 .. P - 1 /\ bix = P * 0 + bix
  BY <1>1, <1>3
<1>5. bix \div P = 0
  BY <1>1, <1>4, DivisionUnique
<1> QED
  BY <1>1, <1>2, <1>5 DEF P

----------------------------------------------------------------------------
(* Where a block hangs                                                     *)

\* Block bix of a file hangs from level m + 1 of the trees in memory, by the
\* pointer ofs.  The levels below m are empty, and in level m the block above
\* bix is gone: it has been written, and nothing is entered twice.
HangsAt(node, bix, m, ofs) ==
    /\ m \in 0 .. MaskLevels - 1 /\ m + 1 <= node.di_height
    /\ ParentBix(bix, m + 1) \in DOMAIN node.tree[m + 1]
    /\ node.tree[m + 1][ParentBix(bix, m + 1)][GetBits(bix, m)] = ofs
    /\ \A j \in TreeLevels : j < m => DOMAIN node.tree[j] = {}
    /\ m \in TreeLevels => ParentBix(bix, m) \notin DOMAIN node.tree[m]

\* Every block in the trees is there for a block of the file.
Grounded(node, D) ==
    \A l \in TreeLevels : \A k \in DOMAIN node.tree[l] :
        \E b \in D : b >= I0 /\ k = ParentBix(b, l)

\* What write_loop makes of the trees: one block of one level has a new pointer.
Enters(node, new, bix, level, ofs) ==
    /\ new \in Node
    /\ new.di_height = node.di_height /\ new.di_data = node.di_data
    /\ \A m \in TreeLevels : m # level + 1 => new.tree[m] = node.tree[m]
    /\ DOMAIN new.tree[level + 1] = DOMAIN node.tree[level + 1] \cup {ParentBix(bix, level + 1)}
    /\ new.tree[level + 1][ParentBix(bix, level + 1)][GetBits(bix, level)] = ofs
    /\ \A k \in DOMAIN node.tree[level + 1], slot \in 0 .. Factor - 1 :
          k # ParentBix(bix, level + 1) \/ slot # GetBits(bix, level) =>
              new.tree[level + 1][k][slot] = node.tree[level + 1][k][slot]

LEMMA WriteLoopEnters ==
    ASSUME NEW node \in Node, NEW bix \in Nat, NEW level \in 0 .. MaskLevels - 1,
           NEW ofs \in Nat
    PROVE  Enters(node, WriteLoop(node, bix, level, ofs), bix, level, ofs)
<1> DEFINE new == WriteLoop(node, bix, level, ofs)
           up  == ParentBix(bix, level + 1)
           old == BlockAt(node.tree[level + 1], up)
           block == Entered(node, bix, level, ofs)
           g == GetBits(bix, level)
           tree == node.tree[level + 1]
<1>9. level + 1 \in TreeLevels /\ up \in Nat /\ block \in Blocks
  BY EnteredFacts
<1>10. g \in 0 .. Factor - 1 /\ block[g] = ofs
  BY EnteredFacts
<1>11. \A slot \in 0 .. Factor - 1 : slot # g => block[slot] = old[slot]
  BY EnteredFacts
<1>1. /\ level + 1 \in TreeLevels /\ up \in Nat /\ block \in Blocks
      /\ g \in 0 .. Factor - 1 /\ block[g] = ofs
      /\ \A slot \in 0 .. Factor - 1 : slot # g => block[slot] = old[slot]
  BY <1>9, <1>10, <1>11
<1>2. new \in Node /\ new.di_height = node.di_height /\ new.di_data = node.di_data
  BY WriteLoopNode
<1>3. new.tree[level + 1] = Put(tree, up, block)
  BY WriteLoopNode
<1>4. \A m \in TreeLevels : m # level + 1 => new.tree[m] = node.tree[m]
  BY WriteLoopNode
<1>5. tree \in Maps(Blocks)
  BY <1>1, NodeFacts DEF Trees
<1>6. up \in DOMAIN tree => old = tree[up]
  BY DEF BlockAt
<1> HIDE DEF new, up, old, block, g, tree
<1>7. /\ DOMAIN Put(tree, up, block) = DOMAIN tree \cup {up}
      /\ Put(tree, up, block)[up] = block
      /\ \A x \in DOMAIN tree : x # up => Put(tree, up, block)[x] = tree[x]
  BY DEF Put
<1>8. ASSUME NEW k \in DOMAIN tree, NEW slot \in 0 .. Factor - 1, k # up \/ slot # g
      PROVE  new.tree[level + 1][k][slot] = tree[k][slot]
  <2>1. CASE k = up
    BY <1>1, <1>3, <1>6, <1>7, <1>8, <2>1
  <2>2. CASE k # up
    BY <1>3, <1>7, <2>2
  <2> QED
    BY <2>1, <2>2
<1> QED
  BY <1>1, <1>2, <1>3, <1>4, <1>7, <1>8 DEF Enters, new, up, g, tree

\* A write of another block leaves a block where it hangs, and the block that is
\* written hangs from the lowest level.
LEMMA WriteHangs ==
    ASSUME NEW node \in Node, NEW bix \in Nat, NEW ofs \in Nat, bix >= I0,
           bix <= Factor ^ MaskLevels
    PROVE  LET new == Written(node, bix, ofs)
           IN  /\ HangsAt(new, bix, 0, ofs)
               /\ \A b \in Nat : \A p : b # bix /\ HangsAt(node, b, 0, p) => HangsAt(new, b, 0, p)
               /\ new.di_data = node.di_data
               /\ new.di_height >= node.di_height /\ new.di_height > 0
               /\ bix <= Factor ^ new.di_height
               /\ \A l \in TreeLevels : DOMAIN new.tree[l] \subseteq
                     DOMAIN node.tree[l] \cup (IF l = 1 THEN {ParentBix(bix, 1)} ELSE {})
<1> DEFINE h == GrownHeight(node.di_height, bix)
           tall == [node EXCEPT !.di_height = h]
           new == WriteLoop(tall, bix, 0, ofs)
           up == ParentBix(bix, 1)
           g == GetBits(bix, 0)
<1>1. node.di_height \in 0 .. MaskLevels /\ 0 \in 0 .. MaskLevels - 1 /\ 1 \in TreeLevels
  BY NodeFacts, Constants DEF TreeLevels
<1>2. h \in node.di_height .. MaskLevels /\ h > 0
  BY <1>1, GrownHeightFacts
<1>3. bix <= Factor ^ h
  <2> DEFINE H == {k \in node.di_height .. MaxLevels : bix <= maxbix(k)}
  <2>1. MaskLevels \in H /\ H \subseteq Nat
    BY <1>1, Constants DEF maxbix
  <2>2. h = CHOOSE x \in H : \A y \in H : x <= y
    BY DEF GrownHeight, Min
  <2> HIDE DEF H, h
  <2>3. \E x \in H : \A y \in H : x <= y
    BY <2>1, LeastElement
  <2>4. h \in H
    BY <2>2, <2>3
  <2> QED
    BY <2>4 DEF H, maxbix
<1>4. Written(node, bix, ofs) = new
  BY Constants DEF Written
<1> HIDE DEF h
<1>5. tall \in Node /\ tall.di_height = h /\ tall.di_data = node.di_data /\ tall.tree = node.tree
  BY <1>1, <1>2, GrowNode
<1> HIDE DEF tall
<1>6. 0 + 1 = 1
  OBVIOUS
<1>7. /\ new.di_height = h /\ new.di_data = node.di_data
      /\ \A m \in TreeLevels : m # 1 => new.tree[m] = node.tree[m]
      /\ DOMAIN new.tree[1] = DOMAIN node.tree[1] \cup {up}
      /\ new.tree[1][up][g] = ofs
      /\ \A k \in DOMAIN node.tree[1], slot \in 0 .. Factor - 1 :
            k # up \/ slot # g => new.tree[1][k][slot] = node.tree[1][k][slot]
  <2>1. Enters(tall, new, bix, 0, ofs)
    BY <1>1, <1>5, WriteLoopEnters
  <2> HIDE DEF new
  <2> QED
    BY <1>5, <1>6, <2>1 DEF Enters
<1> HIDE DEF new
<1>8. /\ h >= 1 /\ h >= node.di_height /\ h \in Nat
      /\ \A j \in TreeLevels : ~(j < 0) /\ j \in Nat /\ j # 0
  BY <1>1, <1>2 DEF TreeLevels
<1>9. HangsAt(new, bix, 0, ofs)
  BY <1>1, <1>6, <1>7, <1>8 DEF HangsAt
<1>10. ASSUME NEW b \in Nat, NEW p, b # bix, HangsAt(node, b, 0, p)
       PROVE  HangsAt(new, b, 0, p)
  <2>1. GetBits(b, 0) \in 0 .. Factor - 1
    <3>1. 0 \in 0 .. MaskLevels
      BY Constants
    <3> QED
      BY <3>1, IndexTypes
  <2>2. ~(ParentBix(b, 1) = up /\ GetBits(b, 0) = g)
    <3>1. Aligned(bix, 0) /\ ParentBix(b, 0) = b
      BY LeafAligned DEF Aligned
    <3> QED
      BY <1>1, <1>6, <1>10, <3>1, SlotOfParent
  <2>3. ParentBix(b, 1) \in DOMAIN node.tree[1] /\ node.tree[1][ParentBix(b, 1)][GetBits(b, 0)] = p
    BY <1>6, <1>10 DEF HangsAt
  <2>4. /\ ParentBix(b, 1) \in DOMAIN new.tree[1]
        /\ new.tree[1][ParentBix(b, 1)][GetBits(b, 0)] = p
    BY <1>7, <2>1, <2>2, <2>3
  <2> QED
    BY <1>1, <1>6, <1>7, <1>8, <2>4 DEF HangsAt
<1>11. \A l \in TreeLevels : DOMAIN new.tree[l] \subseteq
          DOMAIN node.tree[l] \cup (IF l = 1 THEN {up} ELSE {})
  BY <1>7
<1> QED
  BY <1>3, <1>4, <1>7, <1>8, <1>9, <1>10, <1>11

\* One turn of the flush, by what it makes of the trees: block top of a level goes
\* and is entered in the next one.
Climbs(node, new, top, level, ofs) ==
    /\ new \in Node
    /\ new.di_height = node.di_height /\ new.di_data = node.di_data
    /\ \A m \in TreeLevels : m # level /\ m # level + 1 => new.tree[m] = node.tree[m]
    /\ DOMAIN new.tree[level] = DOMAIN node.tree[level] \ {top}
    /\ \A k \in DOMAIN node.tree[level] : k # top => new.tree[level][k] = node.tree[level][k]
    /\ DOMAIN new.tree[level + 1] = DOMAIN node.tree[level + 1] \cup {ParentBix(top, level + 1)}
    /\ new.tree[level + 1][ParentBix(top, level + 1)][GetBits(top, level)] = ofs
    /\ \A k \in DOMAIN node.tree[level + 1], slot \in 0 .. Factor - 1 :
          k # ParentBix(top, level + 1) \/ slot # GetBits(top, level) =>
              new.tree[level + 1][k][slot] = node.tree[level + 1][k][slot]

LEMMA FlushClimbs ==
    ASSUME NEW node \in Node, WithinHeight(node), NEW top \in Nat,
           NEW level \in 1 .. MaskLevels - 1, NEW ofs \in Nat
    PROVE  Climbs(node, WriteLoop([node EXCEPT !.tree[level] = Drop(@, top)], top, level, ofs),
                  top, level, ofs)
<1> DEFINE less == [node EXCEPT !.tree[level] = Drop(@, top)]
           new == WriteLoop(less, top, level, ofs)
<1>1. level \in TreeLevels /\ level \in 0 .. MaskLevels - 1 /\ level # level + 1
  BY Constants DEF TreeLevels
<1>2. less \in Node
  BY <1>1, DropNode
<1>3. less.di_height = node.di_height /\ less.di_data = node.di_data
  BY <1>1, DropNode
<1>4. less.tree[level] = Drop(node.tree[level], top)
  BY <1>1, DropNode
<1>5. \A m \in TreeLevels : m # level => less.tree[m] = node.tree[m]
  BY <1>1, DropNode
<1> HIDE DEF less
<1>6. Enters(less, new, top, level, ofs)
  BY <1>1, <1>2, WriteLoopEnters
<1> HIDE DEF new
<1>7. node.tree[level] \in Maps(Blocks)
  BY <1>1, NodeFacts DEF Trees
<1>8. /\ DOMAIN less.tree[level] = DOMAIN node.tree[level] \ {top}
      /\ \A x \in DOMAIN node.tree[level] : x # top => less.tree[level][x] = node.tree[level][x]
  <2> DEFINE tree == node.tree[level]
  <2>1. DOMAIN Drop(tree, top) = DOMAIN tree \ {top}
    BY <1>7, DropFacts
  <2>2. \A x \in DOMAIN tree : x # top => Drop(tree, top)[x] = tree[x]
    BY <1>7, DropFacts
  <2> QED
    BY <1>4, <2>1, <2>2
<1>9. level + 1 \in TreeLevels
  BY Constants DEF TreeLevels
<1>10. less.tree[level + 1] = node.tree[level + 1]
  BY <1>1, <1>5, <1>9
<1>11. Climbs(node, new, top, level, ofs)
  BY <1>1, <1>3, <1>5, <1>6, <1>8, <1>10 DEF Enters, Climbs
<1> QED
  BY <1>11 DEF new, less

\* A block below the one that is written hangs one level higher, by the object;
\* any other hangs where it did.
LEMMA ClimbHangs ==
    ASSUME NEW node \in Node, NEW new, NEW top \in Nat, NEW level \in 1 .. MaskLevels - 1,
           NEW ofs \in Nat, Climbs(node, new, top, level, ofs),
           level < node.di_height, top \in DOMAIN node.tree[level], Aligned(top, level),
           \A j \in TreeLevels : j < level => DOMAIN node.tree[j] = {},
           NEW bix \in Nat, NEW m, NEW p, HangsAt(node, bix, m, p)
    PROVE  \/ HangsAt(new, bix, m, p)
           \/ /\ m + 1 = level /\ ParentBix(bix, level) = top
              /\ node.tree[level][top][GetBits(bix, m)] = p
              /\ HangsAt(new, bix, level, ofs)
<1>1. /\ MaxLevels \in Nat /\ level \in Nat /\ level \in TreeLevels /\ level + 1 \in TreeLevels
      /\ level \in 0 .. MaskLevels - 1 /\ node.di_height \in Nat
      /\ \A j \in TreeLevels : j \in Nat
  BY NodeFacts, Constants DEF TreeLevels
<1>2. /\ m \in 0 .. MaskLevels - 1 /\ m + 1 <= node.di_height /\ m \in Nat
      /\ ParentBix(bix, m + 1) \in DOMAIN node.tree[m + 1]
      /\ node.tree[m + 1][ParentBix(bix, m + 1)][GetBits(bix, m)] = p
      /\ \A j \in TreeLevels : j < m => DOMAIN node.tree[j] = {}
      /\ m \in TreeLevels => ParentBix(bix, m) \notin DOMAIN node.tree[m]
  BY DEF HangsAt
<1>3. m + 1 \in TreeLevels
  BY <1>1, <1>2 DEF TreeLevels
<1>4. ~(level < m) /\ ~(m + 1 < level)
  BY <1>1, <1>2, <1>3
<1>5. m + 1 = level \/ m = level
  BY <1>1, <1>2, <1>4
<1>6. new.di_height = node.di_height
  BY DEF Climbs
<1>7. \A j \in TreeLevels : j < level => new.tree[j] = node.tree[j]
  BY <1>1 DEF Climbs
<1>8. ParentBix(bix, level + 1) \in Nat /\ GetBits(bix, level) \in 0 .. Factor - 1
  BY <1>1, IndexTypes, Constants
<1>9. CASE m + 1 = level /\ ParentBix(bix, level) = top
  <2>1. /\ GetBits(top, level) = GetBits(bix, level)
        /\ ParentBix(top, level + 1) = ParentBix(bix, level + 1)
    BY <1>1, <1>9, ParentOfParent
  <2>2. /\ ParentBix(bix, level + 1) \in DOMAIN new.tree[level + 1]
        /\ new.tree[level + 1][ParentBix(bix, level + 1)][GetBits(bix, level)] = ofs
        /\ ParentBix(bix, level) \notin DOMAIN new.tree[level]
    BY <1>9, <2>1 DEF Climbs
  <2>3. \A j \in TreeLevels : j < level => DOMAIN new.tree[j] = {}
    BY <1>7
  <2>4. level + 1 <= new.di_height
    BY <1>1, <1>6
  <2>5. HangsAt(new, bix, level, ofs)
    BY <1>1, <2>2, <2>3, <2>4 DEF HangsAt
  <2> QED
    BY <1>2, <1>9, <2>5
<1>10. CASE m + 1 = level /\ ParentBix(bix, level) # top
  <2>1. /\ ParentBix(bix, m + 1) \in DOMAIN new.tree[m + 1]
        /\ new.tree[m + 1][ParentBix(bix, m + 1)][GetBits(bix, m)] = p
    BY <1>2, <1>10 DEF Climbs
  <2>2. \A j \in TreeLevels : j < m => DOMAIN new.tree[j] = {}
    BY <1>1, <1>2, <1>7, <1>10
  <2>3. m \in TreeLevels => ParentBix(bix, m) \notin DOMAIN new.tree[m]
    BY <1>1, <1>2, <1>7, <1>10
  <2> QED
    BY <1>2, <1>6, <2>1, <2>2, <2>3 DEF HangsAt
<1>11. CASE m = level
  <2>1. ~(ParentBix(bix, level + 1) = ParentBix(top, level + 1)
          /\ GetBits(bix, level) = GetBits(top, level))
    BY <1>1, <1>2, <1>11, SlotOfParent
  <2>2. /\ ParentBix(bix, m + 1) \in DOMAIN new.tree[m + 1]
        /\ new.tree[m + 1][ParentBix(bix, m + 1)][GetBits(bix, m)] = p
    BY <1>2, <1>8, <1>11, <2>1 DEF Climbs
  <2>3. \A j \in TreeLevels : j < m => DOMAIN new.tree[j] = {}
    BY <1>7, <1>11
  <2>4. m \in TreeLevels => ParentBix(bix, m) \notin DOMAIN new.tree[m]
    BY <1>2, <1>11 DEF Climbs
  <2> QED
    BY <1>2, <1>6, <2>2, <2>3, <2>4 DEF HangsAt
<1> QED
  BY <1>5, <1>9, <1>10, <1>11

\* What is in the trees comes from blocks of the file.
LEMMA ClimbGrounded ==
    ASSUME NEW node \in Node, NEW new, NEW top \in Nat, NEW level \in 1 .. MaskLevels - 1,
           NEW ofs, Climbs(node, new, top, level, ofs), top \in DOMAIN node.tree[level],
           NEW D, D \subseteq Nat, Grounded(node, D)
    PROVE  Grounded(new, D)
<1>1. level \in TreeLevels /\ level \in 0 .. MaskLevels - 1
  BY Constants DEF TreeLevels
<1>2. PICK b \in D : b >= I0 /\ top = ParentBix(b, level)
  BY <1>1 DEF Grounded
<1>3. ParentBix(top, level + 1) = ParentBix(b, level + 1)
  BY <1>1, <1>2, ParentOfParent
<1> SUFFICES ASSUME NEW l \in TreeLevels, NEW k \in DOMAIN new.tree[l]
             PROVE  \E c \in D : c >= I0 /\ k = ParentBix(c, l)
  BY DEF Grounded
<1>4. k \in DOMAIN node.tree[l] \/ (l = level + 1 /\ k = ParentBix(top, level + 1))
  BY DEF Climbs
<1> QED
  BY <1>2, <1>3, <1>4 DEF Grounded

----------------------------------------------------------------------------
(* Chains of objects                                                       *)

\* The object at p is the indirect block of level j + 1 above block bix, and it
\* points to q.
Link(p, ino, bix, j, q) ==
    /\ p \in DOMAIN content /\ content[p].ptr \in Blocks
    /\ content[p].ptr[GetBits(bix, j)] = q
    /\ Held(p, AreaOf(ino, j + 1), "block", ino, ParentBix(bix, j + 1))

\* f leads from an indirect block of level m to the last version of block bix.
Chain(ino, type, bix, m, f) ==
    /\ f[0] = latest[ino][bix]
    /\ Held(f[0], AreaOf(ino, 0), type, ino, bix)
    /\ \A j \in 0 .. m - 1 : Link(f[j + 1], ino, bix, j, f[j])

\* A step keeps what is in the store.
Carries ==
    /\ \A p \in DOMAIN content : p \in DOMAIN content' /\ content'[p] = content[p]
    /\ \A p, type, ino, bix : \A m \in Areas :
          Held(p, m, type, ino, bix) => Held(p, m, type, ino, bix)'

\* Content is what objects hold.
ContentHeld ==
    \A p \in DOMAIN content : \E l \in Areas, t \in Segs, o \in Object :
        Holds(l, t, o) /\ p = t * SegSize + o.pos

LEMMA LinkStays ==
    ASSUME Carries, NEW ino \in Inos, NEW bix, NEW j \in 0 .. MaskLevels - 1, NEW p, NEW q,
           Link(p, ino, bix, j, q)
    PROVE  Link(p, ino, bix, j, q)'
<1>1. AreaOf(ino, j + 1) \in Areas
  <2>1. j + 1 \in Levels
    BY Constants DEF Levels
  <2> QED
    BY <2>1, AreaOfType
<1>2. p \in DOMAIN content' /\ content'[p] = content[p]
  BY DEF Carries, Link
<1>3. Held(p, AreaOf(ino, j + 1), "block", ino, ParentBix(bix, j + 1))'
  BY <1>1 DEF Carries, Link
<1> QED
  BY <1>2, <1>3 DEF Link

LEMMA ChainStays ==
    ASSUME Carries, NEW ino \in Inos, NEW type, NEW bix, NEW m \in 0 .. MaskLevels, NEW f,
           Chain(ino, type, bix, m, f), latest'[ino][bix] = latest[ino][bix]
    PROVE  Chain(ino, type, bix, m, f)'
<1>1. AreaOf(ino, 0) \in Areas /\ MaxLevels \in Nat
  BY AreaOfType, Constants
<1>2. Held(f[0], AreaOf(ino, 0), type, ino, bix)'
  BY <1>1 DEF Chain, Carries
<1>3. ASSUME NEW j \in 0 .. m - 1 PROVE Link(f[j + 1], ino, bix, j, f[j])'
  <2>1. j \in 0 .. MaskLevels - 1
    BY <1>1, Constants
  <2>2. Link(f[j + 1], ino, bix, j, f[j])
    BY DEF Chain
  <2> QED
    BY <2>1, <2>2, LinkStays
<1> QED
  BY <1>2, <1>3 DEF Chain

\* logfs_segment_write overwrites nothing.
LEMMA WriteCarries ==
    ASSUME NEW n \in Nat, StoreBelow(n), lastseg' <= n, HistoryOK, ContentHeld,
           NEW type \in Types, NEW ino \in Inos, NEW bix \in Nat,
           NEW level \in Levels, NEW s \in Segs, NEW data,
           SegmentWrite(type, ino, bix, level, s), StoreAt(AreaOf(ino, level), s, data)
    PROVE  /\ Carries /\ ContentHeld'
           /\ Place(AreaOf(ino, level), s) \in DOMAIN content'
           /\ content'[Place(AreaOf(ino, level), s)] = data
<1> DEFINE l == AreaOf(ino, level)
           place == Place(l, s)
<1>1. TypeOK /\ l \in Areas /\ ~exited'
  BY AreaOfType DEF StoreBelow, SegmentWrite
<1>2. [StoreNext]_segVars
  BY DEF StoreNext
<1>3. \A p, ty, i, b : \A m \in Areas : Held(p, m, ty, i, b) => Held(p, m, ty, i, b)'
  BY <1>1, <1>2, StoreHeld
<1>4. /\ DOMAIN content' = DOMAIN content \cup {place}
      /\ \A p \in DOMAIN content : p # place => content'[p] = content[p]
      /\ content'[place] = data
  BY <1>1, StoreAtFacts
<1>5. place \notin DOMAIN content
  <2> SUFFICES ASSUME place \in DOMAIN content PROVE FALSE
    OBVIOUS
  <2>1. PICK m \in Areas, t \in Segs, o \in Object :
           Holds(m, t, o) /\ place = t * SegSize + o.pos
    BY DEF ContentHeld
  <2> QED
    BY <2>1, FreshPlace
<1>6. Carries
  BY <1>3, <1>4, <1>5 DEF Carries
<1>7. ContentHeld'
  <2> SUFFICES ASSUME NEW p \in DOMAIN content'
               PROVE  \E m \in Areas, t \in Segs, o \in Object :
                          Holds(m, t, o)' /\ p = t * SegSize + o.pos
    BY DEF ContentHeld
  <2>1. CASE p = place
    <3>1. Held(p, l, type, ino, bix)'
      BY <1>1, <2>1, NewHeld
    <3>2. PICK t \in Segs, o \in Object : Holds(l, t, o)' /\ p = t * SegSize + o.pos
      BY <3>1 DEF Held
    <3> QED
      BY <1>1, <3>2
  <2>2. CASE p \in DOMAIN content
    <3>1. PICK m \in Areas, t \in Segs, o \in Object :
             Holds(m, t, o) /\ p = t * SegSize + o.pos
      BY <2>2 DEF ContentHeld
    <3>2. Holds(m, t, o)'
      BY <1>1, <1>2, <3>1, StoreHolds
    <3> QED
      BY <3>1, <3>2
  <2> QED
    BY <1>4, <2>1, <2>2
<1> QED
  BY <1>4, <1>6, <1>7

----------------------------------------------------------------------------
(* What is kept of a file                                                  *)

\* A block with a direct pointer.
Direct(ino, type, bix) ==
    /\ inode[ino].di_data[bix] = latest[ino][bix]
    /\ Held(latest[ino][bix], AreaOf(ino, 0), type, ino, bix)

\* Before the flush of a file ends, its blocks hang from the trees in memory, and
\* from the lowest one until the flush begins.
Hanging(ino, type, bix) ==
    \E m \in Nat, f \in [Nat -> Nat] :
        /\ m = 0 \/ (flushing = ino /\ flushing # None)
        /\ Chain(ino, type, bix, m, f)
        /\ HangsAt(inode[ino], bix, m, f[m])

\* After it they hang from the inode.
Rooted(ino, type, bix) ==
    \E f \in [Nat -> Nat] :
        /\ Chain(ino, type, bix, inode[ino].di_height, f)
        /\ f[inode[ino].di_height] = inode[ino].di_data[I0]

Reached(node, bix) == node.di_height > 0 /\ bix <= Factor ^ node.di_height

BlockKept(ino, type, bix) ==
    /\ bix < I0 => Direct(ino, type, bix)
    /\ bix >= I0 => /\ Reached(inode[ino], bix)
                    /\ ino \notin flushed => Hanging(ino, type, bix)
                    /\ ino \in flushed /\ ~Boundary(ino) => Rooted(ino, type, bix)

FileKept(ino, type) ==
    /\ Grounded(inode[ino], DOMAIN latest[ino])
    /\ \A bix \in DOMAIN latest[ino] : BlockKept(ino, type, bix)

\* A higher file reaches further.
LEMMA PowerMonotone ==
    ASSUME NEW h \in 0 .. MaxLevels, NEW k \in h .. MaxLevels
    PROVE  Factor ^ h <= Factor ^ k
<1> DEFINE S == {j \in h .. MaxLevels : ~(Factor ^ h <= Factor ^ j)}
<1> SUFFICES ASSUME S # {} PROVE FALSE
  OBVIOUS
<1>0. MaxLevels \in Nat /\ Factor \in Nat /\ Factor > 2
  BY Constants
<1>1. S \subseteq Nat
  BY <1>0
<1>2. PICK j \in S : \A i \in S : j <= i
  BY <1>1, LeastElement
<1>3. j \in h .. MaxLevels /\ ~(Factor ^ h <= Factor ^ j)
  BY <1>2
<1>4. Factor ^ h \in Nat
  BY Powers
<1>5. j # h
  BY <1>3, <1>4
<1>6. j - 1 \in h .. MaxLevels /\ j - 1 \in 0 .. MaxLevels /\ j - 1 + 1 = j /\ ~(j <= j - 1)
  BY <1>0, <1>3, <1>5
<1>7. Factor ^ h <= Factor ^ (j - 1)
  BY <1>2, <1>6
<1>8. Factor ^ (j - 1) \in Nat /\ Factor ^ j = Factor * (Factor ^ (j - 1))
  <2>1. Factor ^ (j - 1 + 1) = Factor * (Factor ^ (j - 1))
    BY <1>6, PowerAssumption
  <2> QED
    BY <1>6, <2>1, Powers
<1>9. Factor * (Factor ^ (j - 1)) >= Factor ^ (j - 1)
  <2> DEFINE x == Factor ^ (j - 1)
  <2>1. x \in Nat
    BY <1>8
  <2> HIDE DEF x
  <2>2. Factor * x >= x
    BY <1>0, <2>1
  <2> QED
    BY <2>2 DEF x
<1> HIDE DEF S
<1>10. Factor ^ j \in Nat
  BY <1>3, Powers
<1> QED
  BY <1>3, <1>4, <1>7, <1>8, <1>9, <1>10

\* A block stays in its file when the step leaves the file alone.
LEMMA OtherBlockKept ==
    ASSUME Carries, NodesOK, NEW i \in Inos, NEW type, NEW bix, BlockKept(i, type, bix),
           inode'[i] = inode[i], latest'[i] = latest[i],
           i \in flushed' <=> i \in flushed, flushing = i /\ flushing # None => flushing' = i
    PROVE  BlockKept(i, type, bix)'
<1>1. /\ AreaOf(i, 0) \in Areas /\ MaxLevels \in Nat /\ inode[i] \in Node
      /\ inode[i].di_height \in 0 .. MaskLevels
  BY AreaOfType, Constants, NodeFacts DEF NodesOK
<1>2. ASSUME bix < I0 PROVE Direct(i, type, bix)'
  <2>1. Direct(i, type, bix)
    BY <1>2 DEF BlockKept
  <2>2. Held(latest[i][bix], AreaOf(i, 0), type, i, bix)'
    BY <1>1, <2>1 DEF Direct, Carries
  <2> QED
    BY <2>1, <2>2 DEF Direct
<1>3. ASSUME Hanging(i, type, bix) PROVE Hanging(i, type, bix)'
  <2>1. PICK m \in Nat, f \in [Nat -> Nat] :
           /\ m = 0 \/ (flushing = i /\ flushing # None)
           /\ Chain(i, type, bix, m, f)
           /\ HangsAt(inode[i], bix, m, f[m])
    BY <1>3 DEF Hanging
  <2>2. m \in 0 .. MaskLevels
    BY <1>1, <2>1, Constants DEF HangsAt
  <2>3. Chain(i, type, bix, m, f)'
    BY <2>1, <2>2, ChainStays
  <2>4. m = 0 \/ (flushing' = i /\ flushing' # None)
    BY <2>1
  <2>5. HangsAt(inode'[i], bix, m, f[m])
    BY <2>1
  <2> QED
    BY <2>3, <2>4, <2>5 DEF Hanging
<1>4. ASSUME Rooted(i, type, bix) PROVE Rooted(i, type, bix)'
  <2>1. PICK f \in [Nat -> Nat] :
           /\ Chain(i, type, bix, inode[i].di_height, f)
           /\ f[inode[i].di_height] = inode[i].di_data[I0]
    BY <1>4 DEF Rooted
  <2> DEFINE h == inode[i].di_height
  <2>2. h \in 0 .. MaskLevels /\ h = inode'[i].di_height
    BY <1>1
  <2>3. PICK k \in 0 .. MaskLevels : k = h
    BY <2>2
  <2>4. Chain(i, type, bix, k, f)'
    BY <2>1, <2>3, ChainStays
  <2> QED
    BY <2>1, <2>2, <2>3, <2>4 DEF Rooted
<1>5. Boundary(i)' <=> Boundary(i)
  BY DEF Boundary
<1> QED
  BY <1>2, <1>3, <1>4, <1>5 DEF BlockKept, Reached

LEMMA OtherKept ==
    ASSUME Carries, NodesOK, NEW i \in Inos, NEW type, FileKept(i, type),
           inode'[i] = inode[i], latest'[i] = latest[i],
           i \in flushed' <=> i \in flushed, flushing = i /\ flushing # None => flushing' = i
    PROVE  FileKept(i, type)'
<1>1. Grounded(inode[i], DOMAIN latest[i])'
  BY DEF FileKept
<1>2. ASSUME NEW bix \in DOMAIN latest'[i] PROVE BlockKept(i, type, bix)'
  <2>1. BlockKept(i, type, bix)
    BY DEF FileKept
  <2> QED
    BY <2>1, OtherBlockKept
<1> QED
  BY <1>1, <1>2 DEF FileKept

\* What a write makes of an inode: the block is there, the others still are.
Takes(node, new, bix, ofs) ==
    /\ bix < I0 => new.di_data[bix] = ofs
    /\ \A b \in 0 .. I0 : b # bix => new.di_data[b] = node.di_data[b]
    /\ bix >= I0 => HangsAt(new, bix, 0, ofs) /\ Reached(new, bix)
    /\ \A b \in Nat : \A p : b # bix /\ HangsAt(node, b, 0, p) => HangsAt(new, b, 0, p)
    /\ \A b \in Nat : Reached(node, b) => Reached(new, b)
    /\ \A D : Grounded(node, D) => Grounded(new, D \cup {bix})

LEMMA WrittenTakes ==
    ASSUME NEW node \in Node, NEW bix \in Nat, NEW ofs \in Nat,
           bix <= Factor ^ MaskLevels, WithinHeight(node)
    PROVE  Takes(node, Written(node, bix, ofs), bix, ofs)
<1> DEFINE new == Written(node, bix, ofs)
<1>1. node.di_height \in 0 .. MaskLevels /\ node.di_data \in [0..I0 -> Nat]
      /\ I0 \in Nat /\ MaxLevels \in Nat /\ MaxLevels > 1
  BY NodeFacts, Constants
<1>2. CASE bix < I0
  <2>1. bix \in 0 .. I0 /\ ~(bix >= I0)
    BY <1>1, <1>2
  <2>2. new = WriteDirect(node, bix, ofs)
    BY <1>2 DEF Written
  <2>3. /\ new.di_height = node.di_height /\ new.tree = node.tree
        /\ new.di_data = [node.di_data EXCEPT ![bix] = ofs]
    BY <2>1, <2>2, WriteDirectNode
  <2> HIDE DEF new
  <2>4. \A b, p : HangsAt(node, b, 0, p) => HangsAt(new, b, 0, p)
    BY <2>3 DEF HangsAt
  <2>5. \A D : Grounded(node, D) => Grounded(new, D \cup {bix})
    BY <2>3 DEF Grounded
  <2>6. new.di_data[bix] = ofs /\ \A b \in 0 .. I0 : b # bix => new.di_data[b] = node.di_data[b]
    BY <1>1, <2>1, <2>3
  <2>7. \A b \in Nat : Reached(node, b) => Reached(new, b)
    BY <2>3 DEF Reached
  <2>8. Takes(node, new, bix, ofs)
    BY <2>1, <2>4, <2>5, <2>6, <2>7 DEF Takes
  <2> QED
    BY <2>8 DEF new
<1>3. CASE bix >= I0
  <2>1. HangsAt(new, bix, 0, ofs)
    BY <1>3, WriteHangs
  <2>2. \A b \in Nat : \A p : b # bix /\ HangsAt(node, b, 0, p) => HangsAt(new, b, 0, p)
    BY <1>3, WriteHangs
  <2>3. /\ new.di_data = node.di_data
        /\ new.di_height >= node.di_height /\ new.di_height > 0
        /\ bix <= Factor ^ new.di_height
    BY <1>3, WriteHangs
  <2>4. \A l \in TreeLevels : DOMAIN new.tree[l] \subseteq
            DOMAIN node.tree[l] \cup (IF l = 1 THEN {ParentBix(bix, 1)} ELSE {})
    BY <1>3, WriteHangs
  <2>5. new \in Node
    BY WrittenNode
  <2> HIDE DEF new
  <2>6. new.di_height \in 0 .. MaskLevels
    BY <2>5, NodeFacts
  <2>7. ASSUME NEW b \in Nat, Reached(node, b) PROVE Reached(new, b)
    <3> DEFINE h == node.di_height
               k == new.di_height
    <3>1. h \in 0 .. MaxLevels /\ k \in h .. MaxLevels /\ k \in 0 .. MaxLevels
      BY <1>1, <2>3, <2>6, Constants
    <3> HIDE DEF h, k
    <3>2. Factor ^ h <= Factor ^ k /\ Factor ^ h \in Nat /\ Factor ^ k \in Nat
      BY <3>1, PowerMonotone, Powers
    <3>3. b <= Factor ^ h
      BY <2>7 DEF Reached, h
    <3>4. b <= Factor ^ k
      BY <3>2, <3>3
    <3> QED
      BY <2>3, <3>4 DEF Reached, k
  <2>8. ASSUME NEW D, Grounded(node, D) PROVE Grounded(new, D \cup {bix})
    <3> SUFFICES ASSUME NEW l \in TreeLevels, NEW k \in DOMAIN new.tree[l]
                 PROVE  \E b \in D \cup {bix} : b >= I0 /\ k = ParentBix(b, l)
      BY DEF Grounded
    <3>1. k \in DOMAIN node.tree[l] \/ (l = 1 /\ k = ParentBix(bix, 1))
      BY <2>4
    <3> QED
      BY <1>3, <2>8, <3>1 DEF Grounded
  <2>9. ~(bix < I0)
    BY <1>1, <1>3
  <2>10. Takes(node, new, bix, ofs)
    BY <2>1, <2>2, <2>3, <2>7, <2>8, <2>9 DEF Takes, Reached
  <2> QED
    BY <2>10 DEF new
<1> QED
  BY <1>1, <1>2, <1>3

\* logfs_file_write keeps the blocks of the file and adds one.
LEMMA FileWriteKeeps ==
    ASSUME FileInv, NEW n \in Nat, StoreBelow(n), lastseg' <= n, ContentHeld,
           OffsetsFit',
           NEW type \in Types, NEW ino \in Inos, NEW bix \in Nat,
           bix <= Factor ^ MaskLevels, NEW data, NEW s \in Segs,
           FileWrite(type, ino, bix, data, s), ino \notin flushed, flushing = None,
           FileKept(ino, type)
    PROVE  FileKept(ino, type)'
<1> DEFINE l == AreaOf(ino, 0)
           node == inode[ino]
<1>1. TypeOK /\ NodesOK /\ HistoryOK /\ node \in Node /\ WithinHeight(node)
      /\ latest[ino] \in Maps(Nat)
  BY DEF FileInv, NodesOK, HistoryOK
<1>2. l \in Areas /\ 0 \in Levels /\ I0 \in Nat /\ MaxLevels \in Nat /\ MaxLevels > 1
  BY AreaOfType, Constants
<1>3. /\ SegmentWrite(type, ino, bix, 0, s) /\ StoreAt(l, s, data)
      /\ inode' = [inode EXCEPT ![ino] = Written(node, bix, WriteOfs(l, s))]
      /\ latest' = [latest EXCEPT ![ino] = Put(@, bix, Place(l, s))]
      /\ UNCHANGED <<flushing, flushed>>
  BY DEF FileWrite, Written
<1>4. PICK p \in Nat : p = Place(l, s)
  BY <1>1, <1>2, OffsetTypes
<1>5. WriteOfs(l, s) = p
  <2>1. s * SegSize + SegSize <= OffsetMod
    BY <1>2, <1>3, WrittenWhereFits
  <2> QED
    BY <1>1, <1>2, <1>4, <2>1, OffsetIsPlace DEF Place
<1>6. Carries
  BY <1>1, <1>2, <1>3, WriteCarries
<1>7. Held(p, l, type, ino, bix)'
  BY <1>1, <1>2, <1>3, <1>4, NewHeld
<1> DEFINE new == Written(node, bix, p)
           old == latest[ino]
<1>8. inode'[ino] = new /\ latest'[ino] = Put(old, bix, p)
  BY <1>1, <1>3, <1>4, <1>5 DEF NodesOK, HistoryOK
<1>9. Takes(node, new, bix, p)
  BY <1>1, WrittenTakes
<1>10. /\ DOMAIN latest'[ino] = DOMAIN old \cup {bix} /\ latest'[ino][bix] = p
       /\ \A x \in DOMAIN old : x # bix => latest'[ino][x] = old[x]
       /\ DOMAIN old \subseteq Nat
  <2>1. DOMAIN old \subseteq Nat
    BY <1>1, MapFacts
  <2> HIDE DEF old
  <2> QED
    BY <1>8, <2>1 DEF Put
<1> HIDE DEF new
<1>11. ASSUME bix < I0 PROVE Direct(ino, type, bix)'
  BY <1>7, <1>8, <1>9, <1>10, <1>11 DEF Direct, Takes
<1>12. ASSUME bix >= I0 PROVE Hanging(ino, type, bix)'
  <2> DEFINE f == [j \in Nat |-> p]
  <2>1. f \in [Nat -> Nat] /\ f[0] = p
    OBVIOUS
  <2> HIDE DEF f
  <2>2. Chain(ino, type, bix, 0, f)'
    BY <1>7, <1>10, <2>1 DEF Chain
  <2>3. HangsAt(inode'[ino], bix, 0, f[0])
    BY <1>8, <1>9, <1>12, <2>1 DEF Takes
  <2> QED
    BY <2>1, <2>2, <2>3 DEF Hanging
<1>13. BlockKept(ino, type, bix)'
  BY <1>3, <1>8, <1>9, <1>11, <1>12 DEF BlockKept, Takes
<1>14. ASSUME NEW b \in DOMAIN old, b # bix PROVE BlockKept(ino, type, b)'
  <2>1. BlockKept(ino, type, b) /\ b \in Nat /\ latest'[ino][b] = old[b]
    BY <1>10, <1>14 DEF FileKept
  <2>2. ASSUME b < I0 PROVE Direct(ino, type, b)'
    <3>1. Direct(ino, type, b) /\ b \in 0 .. I0
      BY <1>2, <2>1, <2>2 DEF BlockKept
    <3>2. Held(latest[ino][b], AreaOf(ino, 0), type, ino, b)'
      BY <1>2, <1>6, <2>1, <3>1 DEF Direct, Carries
    <3>3. inode'[ino].di_data[b] = old[b]
      BY <1>8, <1>9, <1>14, <3>1 DEF Direct, Takes
    <3> QED
      BY <2>1, <3>2, <3>3 DEF Direct
  <2>3. ASSUME b >= I0 PROVE Reached(inode'[ino], b) /\ Hanging(ino, type, b)'
    <3>1. Reached(node, b) /\ Hanging(ino, type, b)
      BY <2>1, <2>3 DEF BlockKept
    <3>2. PICK m \in Nat, f \in [Nat -> Nat] :
             /\ m = 0 \/ (flushing = ino /\ flushing # None)
             /\ Chain(ino, type, b, m, f)
             /\ HangsAt(inode[ino], b, m, f[m])
      BY <3>1 DEF Hanging
    <3>3. m = 0 /\ 0 \in 0 .. MaskLevels
      BY <1>2, <3>2, Constants
    <3>4. Chain(ino, type, b, 0, f)'
      BY <1>6, <2>1, <3>2, <3>3, ChainStays
    <3>5. HangsAt(inode'[ino], b, 0, f[0])
      BY <1>8, <1>9, <1>14, <2>1, <3>2, <3>3 DEF Takes
    <3>6. Reached(inode'[ino], b)
      BY <1>8, <1>9, <2>1, <3>1 DEF Takes
    <3> QED
      BY <3>4, <3>5, <3>6 DEF Hanging
  <2> QED
    BY <1>3, <2>2, <2>3 DEF BlockKept
<1>15. Grounded(inode'[ino], DOMAIN latest'[ino])
  BY <1>8, <1>9, <1>10 DEF Takes, FileKept
<1> QED
  BY <1>10, <1>13, <1>14, <1>15 DEF FileKept

----------------------------------------------------------------------------
(* The flush                                                               *)

\* A chain from the object at place p.
ChainFrom(p, ino, type, bix, m) ==
    \E g \in [Nat -> Nat] : Chain(ino, type, bix, m, g) /\ g[m] = p

\* One object more makes a chain one level longer.
LEMMA ChainGrows ==
    ASSUME Carries, NEW ino \in Inos, NEW type, NEW bix, NEW m \in 0 .. MaskLevels - 1,
           NEW f \in [Nat -> Nat], Chain(ino, type, bix, m, f),
           latest'[ino][bix] = latest[ino][bix],
           NEW p \in Nat, NEW q, q = f[m], Link(p, ino, bix, m, q)'
    PROVE  ChainFrom(p, ino, type, bix, m + 1)'
<1>1. m \in Nat /\ m \in 0 .. MaskLevels /\ MaxLevels \in Nat
  BY Constants
<1> DEFINE g == [f EXCEPT ![m + 1] = p]
<1>2. /\ g \in [Nat -> Nat] /\ g[m + 1] = p
      /\ \A j \in 0 .. m : g[j] = f[j]
  BY <1>1
<1> HIDE DEF g
<1>3. Chain(ino, type, bix, m, f)'
  BY <1>1, ChainStays
<1>4. g[0] = f[0]
  BY <1>1, <1>2
<1>5. ASSUME NEW j \in 0 .. m + 1 - 1 PROVE Link(g[j + 1], ino, bix, j, g[j])'
  <2>1. CASE j = m
    <3>1. g[j + 1] = p /\ g[j] = f[m]
      BY <1>1, <1>2, <2>1
    <3> QED
      BY <2>1, <3>1
  <2>2. CASE j # m
    <3>1. j \in 0 .. m - 1 /\ g[j + 1] = f[j + 1] /\ g[j] = f[j]
      BY <1>1, <1>2, <2>2
    <3>2. Link(f[j + 1], ino, bix, j, f[j])'
      BY <1>3, <3>1 DEF Chain
    <3> QED
      BY <3>1, <3>2
  <2> QED
    BY <2>1, <2>2
<1>6. Chain(ino, type, bix, m + 1, g)'
  BY <1>3, <1>4, <1>5 DEF Chain
<1> QED
  BY <1>2, <1>6 DEF ChainFrom

\* The levels below the one the loop is at are empty.
LEMMA LowerEmpty ==
    ASSUME FileInv, flushing # None
    PROVE  \A j \in TreeLevels : j < FlushLevel(flushing) => DOMAIN inode[flushing].tree[j] = {}
<1> DEFINE node == inode[flushing]
           H == {l \in TreeLevels : \/ l = node.di_height
                                    \/ l < node.di_height /\ DOMAIN node.tree[l] # {}}
           level == FlushLevel(flushing)
<1>1. flushing \in Inos /\ node \in Node /\ level \in TreeLevels /\ level <= node.di_height
  BY FlushLevelFacts
<1>2. node.di_height \in Nat /\ \A l \in TreeLevels : l \in Nat
  BY <1>1, NodeFacts DEF TreeLevels
<1>3. FlushLevel(flushing) = CHOOSE x \in H : \A y \in H : x <= y
  BY DEF FlushLevel, Min
<1>4. H \subseteq Nat /\ H # {}
  <2>1. node.di_height \in TreeLevels
    <3>1. node.di_height > 0 /\ node.di_height \in 0 .. MaskLevels
      BY <1>1, NodeFacts DEF FileInv, FlushOK
    <3> QED
      BY <3>1, Constants DEF TreeLevels
  <2> QED
    BY <1>2, <2>1
<1> SUFFICES ASSUME NEW j \in TreeLevels, j < level, DOMAIN node.tree[j] # {} PROVE FALSE
  OBVIOUS
<1>5. j \in H
  BY <1>1, <1>2
<1> HIDE DEF H, node
<1>6. \E x \in H : \A y \in H : x <= y
  BY <1>4, LeastElement
<1>7. level <= j
  BY <1>3, <1>5, <1>6
<1> QED
  BY <1>1, <1>2, <1>7

\* One turn of the flush, for the store: block top of a level is at place p.
Flushes(ino, level, top, p) ==
    /\ ino = flushing /\ flushing # None /\ level <= inode[ino].di_height
    /\ top \in DOMAIN inode[ino].tree[level] /\ Aligned(top, level)
    /\ \A j \in TreeLevels : j < level => DOMAIN inode[ino].tree[j] = {}
    /\ Carries /\ ContentHeld' /\ UNCHANGED latest
    /\ p \in DOMAIN content' /\ content'[p].ptr = inode[ino].tree[level][top]
    /\ inode[ino].tree[level][top] \in Blocks
    /\ Held(p, AreaOf(ino, level), "block", ino, top)'

\* And for the inode, at a level below its height and at its height.
FlushesUp(ino, level, top, p) ==
    /\ level < inode[ino].di_height
    /\ inode' = [inode EXCEPT ![ino] =
          WriteLoop([inode[ino] EXCEPT !.tree[level] = Drop(@, top)], top, level, p)]
    /\ UNCHANGED <<flushing, flushed>>

FlushesInto(ino, level, top, p) ==
    /\ level = inode[ino].di_height
    /\ inode' = [inode EXCEPT ![ino] =
          WriteDirect([inode[ino] EXCEPT !.tree[level] = Drop(@, top)], I0, p)]
    /\ flushing' = None /\ flushed' = flushed \cup {ino}

LEMMA FlushTurn ==
    ASSUME FileInv, LeadInv, NEW n \in Nat, StoreBelow(n), lastseg' <= n, ContentHeld,
           OffsetsFit', NEW s \in Segs, FlushBlock(s) \/ FlushRoot(s)
    PROVE  \E ino \in Inos, level \in TreeLevels, top \in Nat, p \in Nat :
              /\ Flushes(ino, level, top, p)
              /\ FlushesUp(ino, level, top, p) \/ FlushesInto(ino, level, top, p)
<1> DEFINE node == inode[flushing]
<1>1. /\ flushing # None
      /\ SegmentWrite("block", flushing, TreeLast(node.tree[FlushLevel(flushing)]),
                      FlushLevel(flushing), s)
      /\ StoreAt(AreaOf(flushing, FlushLevel(flushing)), s,
            Pointers(node.tree[FlushLevel(flushing)][TreeLast(node.tree[FlushLevel(flushing)])]))
      /\ UNCHANGED latest
      /\ \/ FlushLevel(flushing) < node.di_height
         \/ DOMAIN node.tree[FlushLevel(flushing)] # {}
  BY DEF FlushBlock, FlushRoot
<1>2. /\ flushing \in Inos /\ node \in Node /\ WithinHeight(node)
      /\ FlushLevel(flushing) \in TreeLevels /\ FlushLevel(flushing) <= node.di_height
      /\ FlushLevel(flushing) # node.di_height => DOMAIN node.tree[FlushLevel(flushing)] # {}
  BY <1>1, FlushLevelFacts
<1>3. PICK ino \in Inos : ino = flushing
  BY <1>2
<1>4. PICK level \in TreeLevels : level = FlushLevel(ino)
  BY <1>2, <1>3
<1>5. node.di_height \in Nat /\ level \in Nat /\ node.di_height \in 0 .. MaskLevels
  BY <1>2, NodeFacts DEF TreeLevels
<1>6. DOMAIN node.tree[level] # {}
  BY <1>1, <1>2, <1>3, <1>4, <1>5
<1>7. PICK top \in Nat : top = TreeLast(node.tree[level])
  BY <1>1, <1>3, <1>4, <1>6, FlushedBlock
<1>8. /\ top \in DOMAIN node.tree[level] /\ node.tree[level][top] \in Blocks
      /\ AreaOf(ino, level) \in Areas /\ level \in Levels
  BY <1>1, <1>3, <1>4, <1>6, <1>7, FlushedBlock
<1>9. TypeOK /\ NodesOK /\ HistoryOK
  BY DEF FileInv
<1>10. PICK p \in Nat : p = Place(AreaOf(ino, level), s)
  BY <1>8, <1>9, OffsetTypes
<1>12. SegmentWrite("block", ino, top, level, s) /\ "block" \in Types
  BY <1>1, <1>3, <1>4, <1>7 DEF Types
<1>11. WriteOfs(AreaOf(ino, level), s) = p
  <2>1. s * SegSize + SegSize <= OffsetMod
    BY <1>8, <1>12, WrittenWhereFits
  <2> QED
    BY <1>8, <1>9, <1>10, <2>1, OffsetIsPlace DEF Place
<1>13. StoreAt(AreaOf(ino, level), s, Pointers(node.tree[level][top]))
  BY <1>1, <1>3, <1>4, <1>7
<1>14. /\ Carries /\ ContentHeld' /\ p \in DOMAIN content'
       /\ content'[p] = Pointers(node.tree[level][top])
  BY <1>8, <1>9, <1>10, <1>12, <1>13, WriteCarries
<1>15. Held(p, AreaOf(ino, level), "block", ino, top)'
  BY <1>8, <1>9, <1>10, <1>12, NewHeld
<1>16. \A j \in TreeLevels : j < level => DOMAIN node.tree[j] = {}
  BY <1>1, <1>3, <1>4, LowerEmpty
<1>17. Aligned(top, level)
  BY <1>3, <1>8 DEF LeadInv, AlignedTrees, AlignedTree
<1>18. Flushes(ino, level, top, p)
  BY <1>1, <1>2, <1>3, <1>4, <1>8, <1>14, <1>15, <1>16, <1>17 DEF Flushes, Pointers
<1>19. CASE FlushBlock(s)
  <2>1. FlushesUp(ino, level, top, p)
    BY <1>3, <1>4, <1>7, <1>11, <1>19 DEF FlushBlock, FlushesUp
  <2> QED
    BY <1>18, <2>1
<1>20. CASE FlushRoot(s)
  <2>1. /\ level = node.di_height /\ flushing' = None /\ flushed' = flushed \cup {ino}
        /\ inode' = [inode EXCEPT ![ino].tree[level] = Drop(@, top), ![ino].di_data[I0] = p]
    BY <1>3, <1>4, <1>7, <1>11, <1>20 DEF FlushRoot
  <2>2. inode' = [inode EXCEPT ![ino] = [[inode[ino] EXCEPT !.tree[level] = Drop(@, top)]
                                          EXCEPT !.di_data[I0] = p]]
    BY <1>2, <1>9, <2>1 DEF NodesOK, Node
  <2>3. FlushesInto(ino, level, top, p)
    BY <1>3, <2>1, <2>2 DEF FlushesInto, WriteDirect
  <2> QED
    BY <1>18, <2>3
<1> QED
  BY <1>19, <1>20

\* The object that is written is the next link of the chains that go through it.
LEMMA FlushLinks ==
    ASSUME NEW ino \in Inos, NEW level \in TreeLevels, NEW top \in Nat, NEW p \in Nat,
           Flushes(ino, level, top, p),
           NEW type, NEW bix \in Nat, NEW m \in 0 .. MaskLevels - 1, NEW f \in [Nat -> Nat],
           Chain(ino, type, bix, m, f), m + 1 = level, ParentBix(bix, level) = top,
           inode[ino].tree[level][top][GetBits(bix, m)] = f[m]
    PROVE  ChainFrom(p, ino, type, bix, level)'
<1> DEFINE q == f[m]
<1>1. Link(p, ino, bix, m, q)'
  BY DEF Flushes, Link
<1> HIDE DEF q
<1>2. Carries /\ latest'[ino][bix] = latest[ino][bix]
  BY DEF Flushes
<1>3. ChainFrom(p, ino, type, bix, m + 1)'
  BY <1>1, <1>2, ChainGrows DEF q
<1> QED
  BY <1>3

\* Below the height the blocks of the file are kept, some of them hanging higher.
LEMMA FlushUpKeeps ==
    ASSUME NodesOK, HistoryOK, NEW ino \in Inos, NEW level \in TreeLevels,
           NEW top \in Nat, NEW p \in Nat,
           Flushes(ino, level, top, p), FlushesUp(ino, level, top, p),
           ino \notin flushed, NEW type, FileKept(ino, type)
    PROVE  FileKept(ino, type)'
<1> DEFINE node == inode[ino]
           new == WriteLoop([node EXCEPT !.tree[level] = Drop(@, top)], top, level, p)
<1>1. node \in Node /\ WithinHeight(node) /\ node.di_height \in 0 .. MaskLevels
      /\ MaxLevels \in Nat /\ DOMAIN latest[ino] \subseteq Nat
  BY NodeFacts, Constants, MapFacts DEF NodesOK, HistoryOK
<1>2. level \in 1 .. MaskLevels - 1 /\ level < node.di_height
  BY <1>1, Constants DEF FlushesUp, TreeLevels
<1>3. Climbs(node, new, top, level, p)
  BY <1>1, <1>2, FlushClimbs
<1>4. inode'[ino] = new
  BY DEF NodesOK, FlushesUp
<1> HIDE DEF new
<1>5. /\ Carries /\ latest' = latest /\ flushing' = flushing /\ flushed' = flushed
      /\ flushing = ino /\ flushing # None
  BY DEF Flushes, FlushesUp
<1>6. Grounded(new, DOMAIN latest'[ino])
  BY <1>1, <1>2, <1>3, <1>5, ClimbGrounded DEF FileKept, Flushes
<1>7. new.di_height = node.di_height /\ new.di_data = node.di_data
  BY <1>3 DEF Climbs
<1>8. ASSUME NEW b \in DOMAIN latest'[ino] PROVE BlockKept(ino, type, b)'
  <2>1. BlockKept(ino, type, b) /\ b \in Nat
    BY <1>1, <1>5 DEF FileKept
  <2>2. ASSUME b < I0 PROVE Direct(ino, type, b)'
    <3>1. Direct(ino, type, b) /\ AreaOf(ino, 0) \in Areas
      BY <2>1, <2>2, AreaOfType, Constants DEF BlockKept
    <3>2. Held(latest[ino][b], AreaOf(ino, 0), type, ino, b)'
      BY <1>5, <3>1 DEF Direct, Carries
    <3> QED
      BY <1>4, <1>5, <1>7, <3>1, <3>2 DEF Direct
  <2>3. ASSUME b >= I0 PROVE Reached(inode'[ino], b) /\ Hanging(ino, type, b)'
    <3>1. Reached(node, b) /\ Hanging(ino, type, b)
      BY <2>1, <2>3 DEF BlockKept
    <3>2. PICK m \in Nat, f \in [Nat -> Nat] :
             /\ Chain(ino, type, b, m, f)
             /\ HangsAt(node, b, m, f[m])
      BY <3>1 DEF Hanging
    <3>3. \/ HangsAt(new, b, m, f[m])
          \/ /\ m + 1 = level /\ ParentBix(b, level) = top
             /\ node.tree[level][top][GetBits(b, m)] = f[m]
             /\ HangsAt(new, b, level, p)
      <4>1. /\ top \in DOMAIN node.tree[level] /\ Aligned(top, level)
            /\ \A j \in TreeLevels : j < level => DOMAIN node.tree[j] = {}
        BY DEF Flushes
      <4> HIDE DEF node
      <4> QED
        BY <1>1, <1>2, <1>3, <2>1, <3>2, <4>1, ClimbHangs
    <3>4. m \in 0 .. MaskLevels - 1 /\ m \in 0 .. MaskLevels
      BY <1>1, <3>2, Constants DEF HangsAt
    <3>8. Reached(inode'[ino], b)
      BY <1>4, <1>7, <3>1 DEF Reached
    <3>5. CASE HangsAt(new, b, m, f[m])
      <4>1. Chain(ino, type, b, m, f)'
        BY <1>5, <3>2, <3>4, ChainStays
      <4>2. HangsAt(inode'[ino], b, m, f[m]) /\ flushing' = ino /\ flushing' # None
        BY <1>4, <1>5, <3>5
      <4>3. Hanging(ino, type, b)'
        BY <4>1, <4>2 DEF Hanging
      <4> QED
        BY <3>8, <4>3
    <3>6. CASE /\ m + 1 = level /\ ParentBix(b, level) = top
               /\ node.tree[level][top][GetBits(b, m)] = f[m]
               /\ HangsAt(new, b, level, p)
      <4>1. PICK g \in [Nat -> Nat] : Chain(ino, type, b, level, g)' /\ g[level] = p
        <5>1. ChainFrom(p, ino, type, b, level)'
          BY <2>1, <3>2, <3>4, <3>6, FlushLinks
        <5> QED
          BY <5>1 DEF ChainFrom
      <4>2. HangsAt(inode'[ino], b, level, g[level]) /\ flushing' = ino /\ flushing' # None /\ level \in Nat
        BY <1>2, <1>4, <1>5, <3>6, <4>1
      <4>3. Hanging(ino, type, b)'
        BY <4>1, <4>2 DEF Hanging
      <4> QED
        BY <3>8, <4>3
    <3> QED
      BY <3>3, <3>5, <3>6
  <2> QED
    BY <1>5, <2>2, <2>3 DEF BlockKept
<1> QED
  BY <1>4, <1>6, <1>8 DEF FileKept

\* A file that no block of index Factor ^ h ends reaches all its blocks from one
\* block of the highest level.
LEMMA OneTop ==
    ASSUME NodesOK, HistoryOK, NEW ino \in Inos, NEW type, FileKept(ino, type), ~Boundary(ino),
           NEW b \in DOMAIN latest[ino], b >= I0
    PROVE  /\ inode[ino].di_height > 0
           /\ ParentBix(b, inode[ino].di_height) = Factor ^ inode[ino].di_height - 1
<1> DEFINE h == inode[ino].di_height
           D == DOMAIN latest[ino]
<1>1. h \in 0 .. MaskLevels /\ MaxLevels \in Nat /\ D \subseteq Nat
  BY NodeFacts, Constants, MapFacts DEF NodesOK, HistoryOK
<1>2. \A x \in D : x >= I0 => x <= Factor ^ h
  BY DEF FileKept, BlockKept, Reached
<1>3. h > 0
  BY DEF FileKept, BlockKept, Reached
<1>4. ~(\E k \in 1 .. MaxLevels : D # {} /\ Max(D) = Factor ^ k)
  BY DEF Boundary
<1> HIDE DEF h, D
<1>5. h \in 1 .. MaxLevels /\ h \in 0 .. MaxLevels /\ 1 \in 0 .. MaxLevels /\ h \in 1 .. MaxLevels
      /\ 0 \in 0 .. MaxLevels
  BY <1>1, <1>3, Constants
<1>6. Factor ^ 1 = Factor
  <2>1. Factor ^ (0 + 1) = Factor * (Factor ^ 0) /\ Factor ^ 0 = 1 /\ 0 + 1 = 1
    BY <1>5, PowerAssumption
  <2> QED
    BY <2>1, Constants
<1>7. Factor <= Factor ^ h /\ Factor ^ h \in Nat
  BY <1>5, <1>6, PowerMonotone, Powers
<1>8. ASSUME NEW x \in D PROVE x <= Factor ^ h
  <2>1. x \in Nat /\ I0 \in Nat /\ I0 < Factor /\ Factor \in Nat
    BY <1>1, Constants
  <2> QED
    BY <1>2, <1>7, <2>1
<1>9. b \in D /\ b \in Nat
  BY <1>1 DEF D
<1>10. b # Factor ^ h
  <2> SUFFICES ASSUME b = Factor ^ h PROVE FALSE
    OBVIOUS
  <2>1. Max(D) = CHOOSE x \in D : \A y \in D : x >= y
    BY DEF Max
  <2>2. \A y \in D : b >= y
    BY <1>1, <1>8, <1>9
  <2>3. Max(D) \in D /\ \A y \in D : Max(D) >= y
    BY <1>9, <2>1, <2>2
  <2>4. Max(D) = b
    <3> DEFINE x == Max(D)
    <3>1. x \in Nat /\ x <= b /\ x >= b
      BY <1>1, <1>9, <2>2, <2>3
    <3> HIDE DEF x
    <3>2. x = b
      BY <1>9, <3>1
    <3> QED
      BY <3>2 DEF x
  <2> QED
    BY <1>4, <1>5, <1>9, <2>4
<1>11. b < Factor ^ h
  BY <1>7, <1>8, <1>9, <1>10
<1>12. ParentBix(b, h) = Factor ^ h - 1
  BY <1>1, <1>9, <1>11, TopBlock
<1> QED
  BY <1>3, <1>12 DEF h

\* The last turn hangs the file into its inode.
LEMMA FlushIntoKeeps ==
    ASSUME NodesOK, HistoryOK, NEW ino \in Inos, NEW level \in TreeLevels,
           NEW top \in Nat, NEW p \in Nat,
           Flushes(ino, level, top, p), FlushesInto(ino, level, top, p),
           ino \notin flushed, NEW type, FileKept(ino, type)
    PROVE  FileKept(ino, type)'
<1> DEFINE node == inode[ino]
           less == [node EXCEPT !.tree[level] = Drop(@, top)]
           new == WriteDirect(less, I0, p)
           D == DOMAIN latest[ino]
<1>1. node \in Node /\ WithinHeight(node) /\ node.di_height \in 0 .. MaskLevels
      /\ node.tree[level] \in Maps(Blocks) /\ D \subseteq Nat
      /\ MaxLevels \in Nat /\ I0 \in Nat /\ I0 \in 0 .. I0
  BY NodeFacts, Constants, MapFacts DEF NodesOK, HistoryOK, Trees
<1>2. inode'[ino] = new
  BY DEF NodesOK, FlushesInto
<1>3. /\ Carries /\ latest' = latest /\ flushed' = flushed \cup {ino}
      /\ level = node.di_height /\ flushing = ino
      /\ top \in DOMAIN node.tree[level]
      /\ \A j \in TreeLevels : j < level => DOMAIN node.tree[j] = {}
  BY DEF Flushes, FlushesInto
<1>4. /\ less \in Node /\ less.di_height = node.di_height /\ less.di_data = node.di_data
      /\ less.tree[level] = Drop(node.tree[level], top)
      /\ \A l \in TreeLevels : l # level => less.tree[l] = node.tree[l]
  <2> HIDE DEF node
  <2>1. less \in Node
    BY <1>1, DropNode
  <2>2. less.di_height = node.di_height
    BY <1>1, DropNode
  <2>5. less.di_data = node.di_data
    BY <1>1 DEF Node
  <2>3. less.tree[level] = Drop(node.tree[level], top)
    BY <1>1, DropNode, ZenonT(30)
  <2>4. \A l \in TreeLevels : l # level => less.tree[l] = node.tree[l]
    BY <1>1, DropNode
  <2> QED
    BY <2>1, <2>2, <2>3, <2>4, <2>5
<1>5. less.di_height = node.di_height /\ less.di_data = node.di_data
  BY <1>4
<1>6. \A l \in TreeLevels : DOMAIN less.tree[l] \subseteq DOMAIN node.tree[l]
  <2>1. less.tree[level] = Drop(node.tree[level], top)
    BY <1>4
  <2>2. \A l \in TreeLevels : l # level => less.tree[l] = node.tree[l]
    BY <1>4
  <2>3. DOMAIN Drop(node.tree[level], top) = DOMAIN node.tree[level] \ {top}
    BY <1>1, DropFacts
  <2> HIDE DEF less
  <2> QED
    BY <2>1, <2>2, <2>3
<1> HIDE DEF less
<1>7. /\ new.di_height = less.di_height /\ new.tree = less.tree
      /\ new.di_data = [less.di_data EXCEPT ![I0] = p]
  BY <1>1, <1>4, WriteDirectNode
<1> HIDE DEF new
<1>8. /\ new.di_height = level /\ new.di_data[I0] = p
      /\ \A b \in Nat : b < I0 => new.di_data[b] = node.di_data[b]
  <2>1. node.di_data \in [0..I0 -> Nat]
    BY <1>1, NodeFacts
  <2> QED
    BY <1>1, <1>3, <1>5, <1>7, <2>1
<1>9. Grounded(new, D)
  BY <1>6, <1>7 DEF Grounded, FileKept
<1>10. ASSUME NEW b \in D, b >= I0, ~Boundary(ino) PROVE Rooted(ino, type, b)'
  <2>1. b \in Nat /\ BlockKept(ino, type, b)
    BY <1>1 DEF FileKept
  <2>2. Hanging(ino, type, b)
    BY <1>10, <2>1 DEF BlockKept
  <2>3. PICK m \in Nat, f \in [Nat -> Nat] :
           /\ Chain(ino, type, b, m, f)
           /\ HangsAt(node, b, m, f[m])
    BY <2>2 DEF Hanging
  <2>4. /\ m \in 0 .. MaskLevels - 1 /\ m + 1 <= level
        /\ ParentBix(b, m + 1) \in DOMAIN node.tree[m + 1]
        /\ node.tree[m + 1][ParentBix(b, m + 1)][GetBits(b, m)] = f[m]
    BY <1>3, <2>3 DEF HangsAt
  <2>5. m + 1 = level
    <3>1. m + 1 \in TreeLevels /\ level \in Nat
      BY <1>1, <2>4 DEF TreeLevels
    <3>2. ~(m + 1 < level)
      BY <1>3, <2>4, <3>1
    <3> QED
      BY <2>4, <3>1, <3>2
  <2>6. ParentBix(b, level) = Factor ^ level - 1
    BY <1>3, <1>10, OneTop
  <2>7. top = Factor ^ level - 1
    <3>1. PICK c \in D : c >= I0 /\ top = ParentBix(c, level)
      BY <1>3 DEF FileKept, Grounded
    <3> QED
      BY <1>3, <1>10, <3>1, OneTop
  <2>8. ParentBix(b, level) = top
    BY <2>6, <2>7
  <2>9. node.tree[level][top][GetBits(b, m)] = f[m]
    BY <2>4, <2>5, <2>8
  <2>10. ChainFrom(p, ino, type, b, level)'
    BY <2>1, <2>3, <2>4, <2>5, <2>8, <2>9, FlushLinks
  <2>11. PICK g \in [Nat -> Nat] : Chain(ino, type, b, level, g)' /\ g[level] = p
    BY <2>10 DEF ChainFrom
  <2>12. inode'[ino].di_height = level /\ inode'[ino].di_data[I0] = p
    BY <1>2, <1>8
  <2> QED
    BY <2>11, <2>12 DEF Rooted
<1>11. Boundary(ino)' <=> Boundary(ino)
  BY <1>3 DEF Boundary
<1>12. ASSUME NEW b \in DOMAIN latest'[ino] PROVE BlockKept(ino, type, b)'
  <2>1. BlockKept(ino, type, b) /\ b \in Nat /\ b \in D
    BY <1>1, <1>3 DEF FileKept
  <2>2. ASSUME b < I0 PROVE Direct(ino, type, b)'
    <3>1. Direct(ino, type, b) /\ AreaOf(ino, 0) \in Areas
      BY <2>1, <2>2, AreaOfType, Constants DEF BlockKept
    <3>2. Held(latest[ino][b], AreaOf(ino, 0), type, ino, b)'
      BY <1>3, <3>1 DEF Direct, Carries
    <3> QED
      BY <1>2, <1>3, <1>8, <2>1, <2>2, <3>1, <3>2 DEF Direct
  <2>3. ASSUME b >= I0 PROVE Reached(inode'[ino], b)
    <3>1. Reached(node, b)
      BY <2>1, <2>3 DEF BlockKept
    <3> QED
      BY <1>2, <1>3, <1>8, <3>1 DEF Reached
  <2> QED
    BY <1>3, <1>10, <1>11, <2>1, <2>2, <2>3 DEF BlockKept
<1> QED
  BY <1>2, <1>3, <1>9, <1>12 DEF FileKept

\* A file without indirect blocks is flushed by the call.
LEMMA EmptyFlushKeeps ==
    ASSUME Carries, NodesOK, HistoryOK, NEW ino \in Inos, NEW type, FileKept(ino, type),
           inode[ino].di_height = 0, inode'[ino] = inode[ino], latest'[ino] = latest[ino]
    PROVE  FileKept(ino, type)'
<1>1. ASSUME NEW b \in DOMAIN latest'[ino] PROVE BlockKept(ino, type, b)'
  <2>1. BlockKept(ino, type, b)
    BY DEF FileKept
  <2>2. ~(b >= I0)
    BY <2>1 DEF BlockKept, Reached
  <2>3. ASSUME b < I0 PROVE Direct(ino, type, b)'
    <3>1. Direct(ino, type, b) /\ AreaOf(ino, 0) \in Areas
      BY <2>1, <2>3, AreaOfType, Constants DEF BlockKept
    <3>2. Held(latest[ino][b], AreaOf(ino, 0), type, ino, b)'
      BY <3>1 DEF Direct, Carries
    <3> QED
      BY <3>1, <3>2 DEF Direct
  <2> QED
    BY <2>2, <2>3 DEF BlockKept
<1>2. Grounded(inode[ino], DOMAIN latest[ino])'
  BY DEF FileKept
<1> QED
  BY <1>1, <1>2 DEF FileKept

----------------------------------------------------------------------------
(* What a reader finds                                                     *)

\* The step of a reader from an offset of a level to the one of the level below.
Down(ofs, bix, l) ==
    LET up   == Deref(ofs)
        slot == GetBits(bix, l)
    IN  IF slot \in DOMAIN up THEN up[slot] ELSE Hole

\* One link of a chain is one step of a reader.
LEMMA LinkIsStep ==
    ASSUME NEW ino, NEW bix \in Nat, NEW j \in 0 .. MaskLevels - 1, NEW p, NEW q,
           Link(p, ino, bix, j, q)
    PROVE  Down(p, bix, j) = q
<1>1. GetBits(bix, j) \in 0 .. Factor - 1
  BY IndexTypes, Constants
<1>2. Deref(p) = content[p].ptr /\ DOMAIN content[p].ptr = 0 .. Factor - 1
  BY DEF Deref, Link, Blocks
<1> QED
  BY <1>1, <1>2 DEF Down, Link

\* A reader on the way down to block bix meets the offsets f, from level H on.
Meets(di, bix, H, f) == \A l \in 0 .. H : Path(di, bix)[l] = f[l]

\* A reader who starts where a chain does meets its objects and no others.
LEMMA ReaderFollows ==
    ASSUME NEW ino, NEW type, NEW bix \in Nat, NEW H \in 0 .. MaskLevels,
           NEW f \in [Nat -> Nat], Chain(ino, type, bix, H, f),
           NEW di, di.height = H, di.ptr[I0] = f[H]
    PROVE  Meets(di, bix, H, f)
<1> DEFINE E(g) == [l \in 0 .. H |-> IF l = H THEN f[H] ELSE Down(g[l + 1], bix, l)]
           g0 == [l \in 0 .. H |-> f[l]]
           path == Path(di, bix)
<1>1. H \in Nat /\ MaxLevels \in Nat
  BY Constants
<1>2. \A j \in 0 .. H - 1 : Down(f[j + 1], bix, j) = f[j]
  <2> SUFFICES ASSUME NEW j \in 0 .. H - 1 PROVE Down(f[j + 1], bix, j) = f[j]
    OBVIOUS
  <2>1. j \in 0 .. MaskLevels - 1 /\ Link(f[j + 1], ino, bix, j, f[j])
    BY <1>1, Constants DEF Chain
  <2> QED
    BY <2>1, LinkIsStep
<1>3. path = CHOOSE g : g = E(g)
  BY DEF Path, Down
<1>4. g0 = E(g0)
  <2>1. \A l \in 0 .. H : l # H => l + 1 \in 0 .. H /\ l \in 0 .. H - 1
    BY <1>1
  <2>2. \A l \in 0 .. H : g0[l] = IF l = H THEN f[H] ELSE Down(g0[l + 1], bix, l)
    BY <1>2, <2>1
  <2> QED
    BY <2>2
<1>5. path = E(path)
  <2> HIDE DEF path, g0, E
  <2> QED
    BY <1>3, <1>4
<1>6. \A l \in 0 .. H : path[l] = IF l = H THEN f[H] ELSE Down(path[l + 1], bix, l)
  <2> HIDE DEF path
  <2> QED
    BY <1>5
<1> HIDE DEF path, E, g0
<1> DEFINE S == {k \in 0 .. H : path[H - k] # f[H - k]}
<1>7. S = {}
  <2> SUFFICES ASSUME S # {} PROVE FALSE
    OBVIOUS
  <2>1. S \subseteq Nat
    BY <1>1
  <2>2. PICK k \in S : \A i \in S : k <= i
    BY <2>1, LeastElement
  <2>3. k \in 0 .. H /\ path[H - k] # f[H - k] /\ H - k \in 0 .. H
    BY <1>1, <2>2
  <2>4. k # 0
    <3>1. H - 0 = H /\ path[H] = f[H]
      BY <1>1, <1>6
    <3> QED
      BY <2>3, <3>1
  <2>5. k - 1 \in 0 .. H /\ H - (k - 1) = H - k + 1 /\ H - k # H /\ ~(k <= k - 1)
        /\ H - k \in 0 .. H - 1
    BY <1>1, <2>3, <2>4
  <2>6. path[H - (k - 1)] = f[H - (k - 1)]
    BY <2>2, <2>5
  <2>7. path[H - k] = Down(path[H - k + 1], bix, H - k)
    BY <1>6, <2>3, <2>5
  <2>8. Down(f[H - k + 1], bix, H - k) = f[H - k]
    BY <1>2, <2>5
  <2> QED
    BY <2>3, <2>5, <2>6, <2>7, <2>8
<1>8. \A l \in 0 .. H : H - l \in 0 .. H /\ H - (H - l) = l
  BY <1>1
<1> QED
  BY <1>7, <1>8 DEF path, Meets

\* A block that is kept is found.
LEMMA KeptIsFound ==
    ASSUME NodesOK, HistoryOK, NEW ino \in Inos, NEW type, FileKept(ino, type),
           ino \in flushed, ~Boundary(ino)
    PROVE  Found(ino)
<1> SUFFICES ASSUME NEW bix \in DOMAIN latest[ino]
             PROVE  Lookup(Inode(ino), bix) = latest[ino][bix]
  BY DEF Found
<1> DEFINE di == Inode(ino)
<1>1. /\ bix \in Nat /\ I0 \in Nat /\ BlockKept(ino, type, bix)
      /\ inode[ino].di_height \in 0 .. MaskLevels
  BY NodeFacts, Constants, MapFacts DEF NodesOK, HistoryOK, FileKept
<1>2. di.height = inode[ino].di_height /\ di.ptr = inode[ino].di_data
  BY DEF Inode
<1> HIDE DEF di
<1>3. CASE bix < I0
  BY <1>1, <1>2, <1>3 DEF BlockKept, Direct, Lookup, di
<1>4. CASE bix >= I0
  <2>1. Rooted(ino, type, bix)
    BY <1>1, <1>4 DEF BlockKept
  <2>2. PICK f \in [Nat -> Nat] :
           /\ Chain(ino, type, bix, inode[ino].di_height, f)
           /\ f[inode[ino].di_height] = inode[ino].di_data[I0]
    BY <2>1 DEF Rooted
  <2>3. Path(di, bix)[0] = f[0]
    <3>1. Meets(di, bix, inode[ino].di_height, f)
      BY <1>1, <1>2, <2>2, ReaderFollows
    <3>2. 0 \in 0 .. inode[ino].di_height
      BY <1>1, Constants
    <3> QED
      BY <3>1, <3>2 DEF Meets
  <2>4. f[0] = latest[ino][bix] /\ ~(bix < I0)
    BY <1>1, <1>4, <2>2 DEF Chain
  <2> QED
    BY <2>3, <2>4 DEF Lookup, di
<1> QED
  BY <1>1, <1>3, <1>4

----------------------------------------------------------------------------
(* The theorem                                                             *)

\* The inductive invariant, beside FileInv, StoreInv and LeadInv.
KeptInv ==
    ~exited => /\ ContentHeld
               /\ flushing # None => flushing \notin flushed
               /\ \A ino \in Inos : FileKept(ino, "block")

\* Steps that leave the store alone.
LEMMA IdleCarries ==
    ASSUME UNCHANGED <<medium, area, content>>
    PROVE  Carries /\ (ContentHeld => ContentHeld')
<1>1. \A l, t, o : Holds(l, t, o) <=> Holds(l, t, o)'
  BY DEF Holds
<1>2. \A p, m, type, ino, bix : Held(p, m, type, ino, bix) => Held(p, m, type, ino, bix)'
  BY <1>1 DEF Held
<1> QED
  BY <1>1, <1>2 DEF Carries, ContentHeld

LEMMA KeptWrite ==
    ASSUME OffsetsFit', FileInv, KeptInv,
           NEW n \in Nat, StoreBelow(n), lastseg' <= n,
           NEW ino \in Inos, NEW bix \in FileBixes, NEW s \in Segs, ClientWrite(ino, bix, s)
    PROVE  KeptInv'
<1>1. /\ FileWrite("block", ino, bix, Payload, s) /\ "block" \in Types
      /\ flushing = None /\ ino \notin flushed
  BY DEF ClientWrite, Types
<1>2. bix \in Nat /\ bix <= Factor ^ MaskLevels /\ 0 \in Levels
  BY ClientBlocks, Constants
<1>3. /\ SegmentWrite("block", ino, bix, 0, s) /\ ~exited
      /\ StoreAt(AreaOf(ino, 0), s, Payload) /\ UNCHANGED <<flushing, flushed>>
      /\ \A i \in Inos : i # ino => inode'[i] = inode[i] /\ latest'[i] = latest[i]
  BY <1>1 DEF FileWrite, SegmentWrite, FileInv, NodesOK, HistoryOK
<1>4. ContentHeld /\ NodesOK /\ HistoryOK /\ \A i \in Inos : FileKept(i, "block")
  BY <1>3 DEF KeptInv, FileInv
<1>5. Carries /\ ContentHeld'
  BY <1>1, <1>2, <1>3, <1>4, WriteCarries
<1>6. FileKept(ino, "block")'
  BY <1>1, <1>2, <1>4, FileWriteKeeps
<1>7. ASSUME NEW i \in Inos, i # ino PROVE FileKept(i, "block")'
  BY <1>1, <1>3, <1>4, <1>5, <1>7, OtherKept
<1> QED
  BY <1>1, <1>3, <1>5, <1>6, <1>7 DEF KeptInv

LEMMA KeptStart ==
    ASSUME FileInv, KeptInv, NEW ino \in Inos, ClientFlush(ino)
    PROVE  KeptInv'
<1>1. /\ ino \notin flushed /\ ~exited /\ flushing = None
      /\ UNCHANGED <<medium, area, content, inode, latest>>
      /\ \/ inode[ino].di_height = 0 /\ flushed' = flushed \cup {ino} /\ UNCHANGED flushing
         \/ flushing' = ino /\ UNCHANGED flushed
  BY DEF ClientFlush, StartFlush, segVars
<1>2. ContentHeld /\ NodesOK /\ HistoryOK /\ \A i \in Inos : FileKept(i, "block")
  BY <1>1 DEF KeptInv, FileInv
<1>3. Carries /\ ContentHeld'
  BY <1>1, <1>2, IdleCarries
<1>4. ASSUME NEW i \in Inos PROVE FileKept(i, "block")'
  <2>1. CASE i = ino /\ inode[ino].di_height = 0
    BY <1>1, <1>2, <1>3, <2>1, EmptyFlushKeeps
  <2>2. CASE i # ino \/ inode[ino].di_height # 0
    <3>1. i \in flushed' <=> i \in flushed
      BY <1>1, <2>2
    <3> QED
      BY <1>1, <1>2, <1>3, <3>1, OtherKept
  <2> QED
    BY <2>1, <2>2
<1> QED
  BY <1>1, <1>3, <1>4 DEF KeptInv

LEMMA KeptFlush ==
    ASSUME OffsetsFit', FileInv, LeadInv, KeptInv,
           NEW n \in Nat, StoreBelow(n), lastseg' <= n,
           NEW s \in Segs, FlushBlock(s) \/ FlushRoot(s)
    PROVE  KeptInv'
<1>1. ~exited /\ ContentHeld /\ NodesOK /\ HistoryOK /\ \A i \in Inos : FileKept(i, "block")
      /\ (flushing # None => flushing \notin flushed)
  <2>1. ~exited
    BY DEF FlushBlock, FlushRoot, SegmentWrite
  <2> QED
    BY <2>1 DEF KeptInv, FileInv
<1>2. PICK ino \in Inos, level \in TreeLevels, top \in Nat, p \in Nat :
         /\ Flushes(ino, level, top, p)
         /\ FlushesUp(ino, level, top, p) \/ FlushesInto(ino, level, top, p)
  BY <1>1, FlushTurn
<1>3. /\ ino \notin flushed /\ flushing = ino /\ flushing # None
      /\ Carries /\ ContentHeld' /\ latest' = latest
  BY <1>1, <1>2 DEF Flushes
<1>4. FileKept(ino, "block")'
  BY <1>1, <1>2, <1>3, FlushUpKeeps, FlushIntoKeeps
<1>5. /\ \A i \in Inos : i # ino => inode'[i] = inode[i] /\ (i \in flushed' <=> i \in flushed)
      /\ flushing' # None => flushing' \notin flushed'
  BY <1>1, <1>2, <1>3 DEF FlushesUp, FlushesInto, NodesOK
<1>6. ASSUME NEW i \in Inos, i # ino PROVE FileKept(i, "block")'
  BY <1>1, <1>3, <1>5, <1>6, OtherKept
<1> QED
  BY <1>3, <1>4, <1>5, <1>6 DEF KeptInv

LEMMA KeptIdle ==
    ASSUME FileInv, KeptInv, UNCHANGED allVars
    PROVE  KeptInv'
<1>1. UNCHANGED <<exited, medium, area, content, inode, latest, flushing, flushed>>
  BY DEF allVars, fileVars, segVars
<1> SUFFICES ASSUME ~exited
             PROVE  ContentHeld' /\ \A ino \in Inos : FileKept(ino, "block")'
  BY <1>1 DEF KeptInv
<1>2. ContentHeld /\ NodesOK /\ \A i \in Inos : FileKept(i, "block")
  BY DEF KeptInv, FileInv
<1>3. Carries /\ ContentHeld'
  BY <1>1, <1>2, IdleCarries
<1> QED
  BY <1>1, <1>2, <1>3, OtherKept

LEMMA KeptInvStep ==
    ASSUME OffsetsFit', FileInv, StoreInv, LeadInv, KeptInv, [Next]_allVars
    PROVE  KeptInv'
<1>0. StoreBelow(NoSegs) /\ NoSegs \in Nat /\ lastseg' <= NoSegs
  <2>1. StoreInv'
    BY FilesAreClients, StoreStep
  <2> QED
    BY <2>1, StoreIsBelow, DeviceAssumption DEF StoreInv, TypeOK
<1>1. ASSUME NEW ino \in Inos, NEW bix \in FileBixes, NEW s \in Segs, ClientWrite(ino, bix, s)
      PROVE  KeptInv'
  BY <1>0, <1>1, KeptWrite
<1>2. ASSUME NEW ino \in Inos, FileWriteFails(ino) PROVE KeptInv'
  BY <1>2 DEF KeptInv, FileWriteFails, SegmentWriteFails, WriteError, NoSegmentLeft
<1>3. ASSUME NEW ino \in Inos, ClientFlush(ino) PROVE KeptInv'
  BY <1>3, KeptStart
<1>4. ASSUME NEW s \in Segs, FlushBlock(s) \/ FlushRoot(s) PROVE KeptInv'
  BY <1>0, <1>4, KeptFlush
<1>5. ASSUME FileFlushFails PROVE KeptInv'
  BY <1>5 DEF KeptInv, FileFlushFails, SegmentWriteFails, WriteError, NoSegmentLeft
<1>6. CASE UNCHANGED allVars
  BY <1>6, KeptIdle
<1> QED
  BY <1>1, <1>2, <1>3, <1>4, <1>5, <1>6 DEF Next

\* After logfs_file_flush every block of a file is found through its inode at its
\* last version: whatever the order of writes and rewrites, and however the levels
\* interleave in the segments.  Files have up to Factor ^ MaskLevels blocks, that
\* is up to the MaskLevels levels bixmask is defined for, which is more than
\* mklogfs ever writes.  Two exceptions are the code's: a file whose last block is
\* one behind what a height reaches (FileRW_boundary), and segments that the 32
\* bits of an offset do not reach.
THEOREM FilesFound == Spec => [](OffsetsFit => FileIntact)
<1>1. Init => KeptInv
  <2> SUFFICES ASSUME Init
               PROVE  /\ ContentHeld /\ flushing = None
                      /\ \A ino \in Inos : FileKept(ino, "block")
    BY DEF KeptInv
  <2>1. /\ flushing = None /\ content = EmptyMap
        /\ \A ino \in Inos : /\ latest[ino] = EmptyMap
                             /\ inode[ino].tree = [l \in TreeLevels |-> EmptyMap]
    BY DEF Init, FileInit
  <2>2. DOMAIN EmptyMap = {}
    BY EmptyMapFacts
  <2> HIDE DEF EmptyMap
  <2> QED
    BY <2>1, <2>2 DEF ContentHeld, FileKept, Grounded
<1>2. /\ FileInv /\ FileInv' /\ StoreInv /\ [Next]_allVars
      /\ (OffsetsFit => LeadInv) /\ (OffsetsFit => KeptInv)
      => (OffsetsFit => KeptInv)'
  BY KeptInvStep, FitsBackward
<1>3. FileInv /\ KeptInv => FileIntact
  BY KeptIsFound DEF FileInv, KeptInv, FileIntact, HistoryOK
<1>4. Spec => [](OffsetsFit => LeadInv)
  BY LeadAlways
<1> QED
  BY <1>1, <1>2, <1>3, <1>4, FilesAlways, StoreAlways, PTL DEF Spec
=============================================================================
