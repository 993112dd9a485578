---------------------------- MODULE SegmentProofs ----------------------------
(***************************************************************************)
(* Theorems about the object store of Segment, for every device, every     *)
(* choice of sizes that the assumptions allow and every client.            *)
(***************************************************************************)
EXTENDS Segment, TLAPS

\* The segment a failed erase, a failed write or get_segment leaves behind has
\* the type of a segment, and the fields the properties read.
LEMMA SegmentValues ==
    /\ Unknown \in SegmentType /\ Unknown.kind = "unknown"
    /\ Erased \in SegmentType /\ Erased.kind = "erased"
    /\ ZeroEntry \in Entry /\ BadEntry \in Entry /\ ReservedEntry \in Entry
    /\ NoArea \in AreaType /\ ~NoArea.open
  BY DEF Unknown, Erased, SegmentType, ZeroEntry, BadEntry, ReservedEntry,
         Entry, BADSEG, RESERVED, EcLevel, NoArea, AreaType

\* A segment that finish_area writes: its type, and what is in it.
LEMMA OstoreValue ==
    ASSUME NEW l \in Areas, NEW objs \in SUBSET Object
    PROVE  /\ Ostore(l, objs) \in SegmentType
           /\ Ostore(l, objs).kind = "ostore"
           /\ Ostore(l, objs).objs = objs
  BY DeviceAssumption DEF Ostore, SegmentType, Areas, NoAreas

\* A new area is empty and its segment header fits.
LEMMA FreshArea ==
    ASSUME NEW s \in Segs
    PROVE  /\ Fresh(s) \in AreaType
           /\ Fresh(s).open /\ Fresh(s).segno = s
           /\ Fresh(s).buf = {}
           /\ Fresh(s).used_bytes = SegHeader
  BY SizeAssumption, DeviceAssumption DEF Fresh, AreaType, Segs

\* The area of an object is one of the areas.
LEMMA AreaOfType ==
    ASSUME NEW ino \in Inos, NEW level \in Levels
    PROVE  AreaOf(ino, level) \in Areas
  BY DeviceAssumption DEF AreaOf, Levels, Areas, NoAreas

\* An object is at most a block long.
LEMMA ObjLenBound ==
    ASSUME NEW type \in Types
    PROVE  ObjLen(type) \in Nat /\ ObjLen(type) <= BlockSize
  BY SizeAssumption DEF ObjLen, Types

\* What appending an object makes of an area.
LEMMA CopyBufArea ==
    ASSUME NEW a \in AreaType, NEW type \in Types, NEW ino \in Inos,
           NEW bix \in Nat
    PROVE  /\ CopyBuf(a, type, ino, bix) \in AreaType
           /\ CopyBuf(a, type, ino, bix).open = a.open
           /\ CopyBuf(a, type, ino, bix).segno = a.segno
           /\ CopyBuf(a, type, ino, bix).used_bytes
                = a.used_bytes + ObjHeader + ObjLen(type)
           /\ CopyBuf(a, type, ino, bix).buf
                = a.buf \cup {[type |-> type, ino |-> ino, bix |-> bix,
                               pos |-> a.used_bytes, len |-> ObjLen(type)]}
<1>1. ObjLen(type) \in Nat
  BY ObjLenBound
<1>2. [type |-> type, ino |-> ino, bix |-> bix, pos |-> a.used_bytes,
       len |-> ObjLen(type)] \in Object
  BY <1>1 DEF Object, AreaType
<1> DEFINE new == [type |-> type, ino |-> ino, bix |-> bix,
                   pos |-> a.used_bytes, len |-> ObjLen(type)]
           n == a.used_bytes + ObjHeader + ObjLen(type)
<1>3. n \in Nat /\ a.buf \cup {new} \in SUBSET Object
  BY <1>1, <1>2, SizeAssumption DEF AreaType
<1>4. CopyBuf(a, type, ino, bix) =
        [a EXCEPT !.buf = a.buf \cup {new}, !.used_bytes = n]
  BY DEF CopyBuf
<1> HIDE DEF new, n
<1>5. CopyBuf(a, type, ino, bix) =
        [open |-> a.open, segno |-> a.segno, used_bytes |-> n,
         buf |-> a.buf \cup {new}]
  BY <1>4 DEF AreaType
<1>6. CopyBuf(a, type, ino, bix) \in AreaType
  BY <1>3, <1>5 DEF AreaType
<1> QED
  BY <1>5, <1>6 DEF new, n

\* An object appended where the buffer ends keeps the buffer packed.
LEMMA CopyBufTiles ==
    ASSUME NEW a \in AreaType, NEW type \in Types, NEW ino \in Inos,
           NEW bix \in Nat,
           SegHeader <= a.used_bytes,
           Tiles(a.buf, a.used_bytes)
    PROVE  LET b == CopyBuf(a, type, ino, bix)
           IN  /\ SegHeader <= b.used_bytes
               /\ Tiles(b.buf, b.used_bytes)
<1> DEFINE b == CopyBuf(a, type, ino, bix)
           new == [type |-> type, ino |-> ino, bix |-> bix,
                   pos |-> a.used_bytes, len |-> ObjLen(type)]
<1>1. /\ b.used_bytes = a.used_bytes + ObjHeader + ObjLen(type)
      /\ b.buf = a.buf \cup {new}
  BY CopyBufArea
<1>2. /\ ObjLen(type) \in Nat /\ ObjHeader \in Nat /\ SegHeader \in Nat
      /\ a.used_bytes \in Nat
  BY ObjLenBound, SizeAssumption DEF AreaType
<1>3. new.pos = a.used_bytes /\ End(new) = b.used_bytes
  BY <1>1, <1>2 DEF End
<1>4. \A o \in a.buf : o.pos \in Nat /\ End(o) \in Nat
  BY <1>2 DEF AreaType, Object, End
<1> HIDE DEF new, b
<1>5. \A o \in b.buf : SegHeader <= o.pos /\ End(o) <= b.used_bytes
  <2>1. \A o \in a.buf : SegHeader <= o.pos /\ End(o) <= a.used_bytes
    BY DEF Tiles
  <2> QED
    BY <1>1, <1>2, <1>3, <1>4, <2>1
<1>6. \A o, p \in b.buf : o = p \/ End(o) <= p.pos \/ End(p) <= o.pos
  <2>1. /\ \A o \in a.buf : End(o) <= new.pos
        /\ \A o, p \in a.buf : o = p \/ End(o) <= p.pos \/ End(p) <= o.pos
    BY <1>3 DEF Tiles
  <2> QED
    BY <1>1, <2>1
<1>7. \A o \in b.buf : o.pos = SegHeader \/ \E p \in b.buf : End(p) = o.pos
  BY <1>1, <1>3 DEF Tiles
<1>8. \E o \in b.buf : End(o) = b.used_bytes
  BY <1>1, <1>3
<1>9. SegHeader <= b.used_bytes
  BY <1>1, <1>2
<1> QED
  BY <1>5, <1>6, <1>7, <1>8, <1>9 DEF Tiles, b

----------------------------------------------------------------------------
(* get_segment                                                             *)

\* What get_segment hands out was never touched, comes out erased, and leaves
\* every other segment alone except those it found bad, untouched until then.
LEMMA GetSegmentFacts ==
    ASSUME TypeOK, NEW s, NEW entry \in [Segs -> Entry],
           NEW m \in [Segs -> SegmentType], GetSegment(s, entry, m)
    PROVE  /\ s \in Segs /\ lastseg <= s /\ lastseg' = s + 1
           /\ lastseg' \in 0..NoSegs
           /\ segment_entry' \in [Segs -> Entry]
           /\ medium' \in [Segs -> SegmentType]
           /\ faulty' \subseteq Segs
           /\ medium'[s] = Erased
           /\ segment_entry'[s] = entry[s]
           /\ s \in faulty' => s \in faulty
           /\ \A t \in Segs : t < lastseg \/ s < t =>
                 /\ medium'[t] = m[t]
                 /\ segment_entry'[t] = entry[t]
                 /\ t \in faulty' => t \in faulty
           /\ \A t \in Segs : lastseg <= t /\ t < s => medium'[t] = Unknown
           /\ \A t \in Segs : medium'[t] \in {m[t], Erased, Unknown}
<1> DEFINE skipped == lastseg .. s - 1
<1>1. s \in Segs /\ lastseg <= s /\ lastseg' = s + 1
  BY DEF GetSegment, NextSeg
<1>2. lastseg \in Nat /\ s \in Nat /\ NoSegs \in Nat
  BY <1>1, DeviceAssumption DEF TypeOK, Segs
<1>3. lastseg' \in 0..NoSegs
  BY <1>1, <1>2 DEF Segs
<1>4. \A t \in Segs : t \in skipped <=> lastseg <= t /\ t < s
  BY <1>2 DEF Segs
<1>5. skipped \subseteq Segs
  BY <1>1, <1>2 DEF Segs
<1>6. /\ faulty' = faulty \cup skipped
      /\ segment_entry' = [t \in Segs |-> IF t \in skipped THEN BadEntry
                                          ELSE entry[t]]
      /\ medium' = [t \in Segs |-> IF t = s THEN Erased
                                   ELSE IF t \in skipped THEN Unknown
                                   ELSE m[t]]
  BY DEF GetSegment, MarkBad
<1> HIDE DEF skipped
<1>7. segment_entry' \in [Segs -> Entry]
  BY <1>6, SegmentValues
<1>8. medium' \in [Segs -> SegmentType]
  BY <1>6, SegmentValues
<1>9. faulty' \subseteq Segs
  BY <1>5, <1>6 DEF TypeOK
<1>10. s \notin skipped
  BY <1>1, <1>2, <1>4
<1>11. /\ medium'[s] = Erased /\ segment_entry'[s] = entry[s]
       /\ s \in faulty' => s \in faulty
  BY <1>1, <1>6, <1>10
<1>12. ASSUME NEW t \in Segs, t < lastseg \/ s < t
       PROVE  /\ medium'[t] = m[t] /\ segment_entry'[t] = entry[t]
              /\ t \in faulty' => t \in faulty
  <2>1. t \in Nat
    BY DEF Segs
  <2>2. t # s /\ t \notin skipped
    BY <1>1, <1>2, <1>4, <1>12, <2>1
  <2> QED
    BY <1>6, <2>2
<1>13. ASSUME NEW t \in Segs, lastseg <= t, t < s
       PROVE  medium'[t] = Unknown
  <2>1. t \in skipped /\ t # s
    BY <1>2, <1>4, <1>10, <1>13
  <2> QED
    BY <1>6, <2>1
<1>14. \A t \in Segs : medium'[t] \in {m[t], Erased, Unknown}
  BY <1>6
<1> QED
  BY <1>1, <1>3, <1>7, <1>8, <1>9, <1>11, <1>12, <1>13, <1>14

\* When no segment is left the program is gone; of the device only segments
\* that get_segment had not come to have changed.
LEMMA NoSegmentLeftFacts ==
    ASSUME TypeOK, NEW m \in [Segs -> SegmentType], NoSegmentLeft(m)
    PROVE  /\ medium' \in [Segs -> SegmentType]
           /\ faulty' \subseteq Segs
           /\ exited'
           /\ \A t \in Segs : t < lastseg => medium'[t] = m[t]
           /\ \A t \in Segs : lastseg <= t => medium'[t] = Unknown
<1> DEFINE skipped == lastseg .. NoSegs - 1
<1>1. lastseg \in Nat /\ NoSegs \in Nat
  BY DeviceAssumption DEF TypeOK
<1>2. \A t \in Segs : t \in skipped <=> lastseg <= t
  BY <1>1 DEF Segs
<1>3. skipped \subseteq Segs
  BY <1>1 DEF Segs
<1>4. /\ faulty' = faulty \cup skipped
      /\ medium' = [t \in Segs |-> IF t \in skipped THEN Unknown ELSE m[t]]
      /\ exited'
  BY DEF NoSegmentLeft
<1> HIDE DEF skipped
<1>5. \A t \in Segs : t \in Nat
  BY DEF Segs
<1>6. medium' \in [Segs -> SegmentType]
  BY <1>4, SegmentValues
<1>7. faulty' \subseteq Segs
  BY <1>3, <1>4 DEF TypeOK
<1>8. \A t \in Segs : t < lastseg => medium'[t] = m[t]
  <2> SUFFICES ASSUME NEW t \in Segs, t < lastseg PROVE medium'[t] = m[t]
    OBVIOUS
  <2>1. t \notin skipped
    BY <1>1, <1>2, <1>5
  <2> QED
    BY <1>4, <2>1
<1>9. \A t \in Segs : lastseg <= t => medium'[t] = Unknown
  BY <1>2, <1>4
<1> QED
  BY <1>4, <1>6, <1>7, <1>8, <1>9

\* What the end of an area makes of the entries and of the device.
LEMMA FinishFacts ==
    ASSUME TypeOK, NEW l \in Areas, area[l].open
    PROVE  /\ EntryAfterFinish(l) \in [Segs -> Entry]
           /\ MediumAfterFinish(l) \in [Segs -> SegmentType]
           /\ MediumAfterFinish(l)[area[l].segno].kind = "ostore"
           /\ MediumAfterFinish(l)[area[l].segno].objs = area[l].buf
           /\ \A t \in Segs : t # area[l].segno =>
                 /\ MediumAfterFinish(l)[t] = medium[t]
                 /\ EntryAfterFinish(l)[t] = segment_entry[t]
<1>1. area[l].segno \in Segs /\ area[l].buf \in SUBSET Object
      /\ area[l].used_bytes \in Nat
  BY DEF TypeOK, AreaType
<1>2. [ec_level |-> EcLevel(1, l), valid |-> ValidBytes(l)] \in Entry
  BY <1>1, DeviceAssumption, SizeAssumption
     DEF Entry, EcLevel, ValidBytes, Areas, NoAreas
<1>3. /\ Ostore(l, area[l].buf) \in SegmentType
      /\ Ostore(l, area[l].buf).kind = "ostore"
      /\ Ostore(l, area[l].buf).objs = area[l].buf
  BY <1>1, OstoreValue
<1>4. segment_entry \in [Segs -> Entry] /\ medium \in [Segs -> SegmentType]
  BY DEF TypeOK
<1> QED
  BY <1>1, <1>2, <1>3, <1>4 DEF EntryAfterFinish, MediumAfterFinish

----------------------------------------------------------------------------
(* Any client                                                              *)

\* A step of the store for a client that is free in its block indices: the runs
\* bound them, the files of FileRW do not.
StoreNext ==
    \/ \E s \in Segs : Reserve(s)
    \/ ReserveFails
    \/ \E type \in Types, ino \in Inos, bix \in Nat, level \in Levels,
          s \in Segs : SegmentWrite(type, ino, bix, level, s)
    \/ \E ino \in Inos, level \in Levels : SegmentWriteFails(ino, level)
    \/ FlushArea
    \/ FlushFails
    \/ Halt

\* The clients of Segment are among them.
LEMMA AnyClient == [SegNext]_segVars => [StoreNext]_segVars
<1>1. 0..MaxBix \subseteq Nat
  BY DeviceAssumption
<1> QED
  BY <1>1 DEF SegNext, StoreNext

----------------------------------------------------------------------------
(* Type correctness                                                        *)

\* The state that SegmentWrite leaves in the areas and in the counters.
LEMMA SegmentWriteType ==
    ASSUME TypeOK, NEW type \in Types, NEW ino \in Inos, NEW bix \in Nat,
           NEW level \in Levels, NEW s \in Segs,
           SegmentWrite(type, ino, bix, level, s)
    PROVE  TypeOK'
<1> DEFINE l == AreaOf(ino, level)
           len == ObjHeader + ObjLen(type)
<1>1. l \in Areas /\ area[l] \in AreaType
  BY AreaOfType DEF TypeOK
<1>2. len \in Nat
  BY ObjLenBound, SizeAssumption
<1>3. used_bytes' \in Nat /\ di_used_bytes' \in [Inos -> Nat]
  BY <1>2 DEF SegmentWrite, GrowInode, TypeOK
<1>4. flush_i' \in 0..NoAreas /\ exited' \in BOOLEAN
  BY DEF SegmentWrite, TypeOK
<1>5. /\ CopyBuf(area[l], type, ino, bix) \in AreaType
      /\ CopyBuf(area[l], type, ino, bix).segno = area[l].segno
  BY <1>1, CopyBufArea
<1>6. /\ CopyBuf(Fresh(s), type, ino, bix) \in AreaType
      /\ CopyBuf(Fresh(s), type, ino, bix).segno = s
  BY CopyBufArea, FreshArea
<1> HIDE DEF l, len
<1>7. CASE /\ area[l].open /\ s = area[l].segno
           /\ area' = [area EXCEPT ![l] = CopyBuf(area[l], type, ino, bix)]
           /\ UNCHANGED <<lastseg, segment_entry, medium, faulty>>
  <2>1. area' \in [Areas -> AreaType]
    BY <1>1, <1>5, <1>7 DEF TypeOK
  <2>2. \A m \in Areas : area'[m].open => area'[m].segno \in Segs
    BY <1>1, <1>5, <1>7 DEF TypeOK
  <2> QED
    BY <1>3, <1>4, <1>7, <2>1, <2>2 DEF TypeOK
<1>8. CASE /\ area' = [area EXCEPT ![l] = CopyBuf(Fresh(s), type, ino, bix)]
           /\ \E entry \in [Segs -> Entry], m \in [Segs -> SegmentType] :
                 GetSegment(s, entry, m)
  <2>1. /\ lastseg' \in 0..NoSegs /\ segment_entry' \in [Segs -> Entry]
        /\ medium' \in [Segs -> SegmentType] /\ faulty' \subseteq Segs
    BY <1>8, GetSegmentFacts
  <2>2. area' \in [Areas -> AreaType]
    BY <1>1, <1>6, <1>8 DEF TypeOK
  <2>3. \A m \in Areas : area'[m].open => area'[m].segno \in Segs
    BY <1>1, <1>6, <1>8 DEF TypeOK
  <2> QED
    BY <1>3, <1>4, <2>1, <2>2, <2>3 DEF TypeOK
<1>9. segment_entry \in [Segs -> Entry] /\ medium \in [Segs -> SegmentType]
  BY DEF TypeOK
<1>10. area[l].open =>
         /\ EntryAfterFinish(l) \in [Segs -> Entry]
         /\ MediumAfterFinish(l) \in [Segs -> SegmentType]
  BY <1>1, FinishFacts
<1> QED
  BY <1>7, <1>8, <1>9, <1>10 DEF SegmentWrite, l

\* A failed write changes the device where the area was, or where get_segment
\* looked, and nothing else that has a type to lose.
LEMMA WriteErrorType ==
    ASSUME TypeOK, NEW l \in Areas, area[l].open, WriteError(l)
    PROVE  medium' \in [Segs -> SegmentType] /\ faulty' \subseteq Segs /\ exited'
  BY SegmentValues DEF WriteError, TypeOK

\* A write that fails leaves areas, entries and device with their types.
LEMMA SegmentWriteFailsType ==
    ASSUME TypeOK, NEW ino \in Inos, NEW level \in Levels,
           SegmentWriteFails(ino, level)
    PROVE  TypeOK'
<1> DEFINE l == AreaOf(ino, level)
<1>1. l \in Areas
  BY AreaOfType
<1>2. medium \in [Segs -> SegmentType]
      /\ (area[l].open => MediumAfterFinish(l) \in [Segs -> SegmentType])
  BY <1>1, FinishFacts DEF TypeOK
<1>3. medium' \in [Segs -> SegmentType] /\ faulty' \subseteq Segs /\ exited'
  BY <1>1, <1>2, WriteErrorType, NoSegmentLeftFacts DEF SegmentWriteFails
<1>4. UNCHANGED <<lastseg, segment_entry, area, used_bytes, di_used_bytes,
                  flush_i>>
  BY DEF SegmentWriteFails
<1>5. exited' \in BOOLEAN
  BY WriteErrorType DEF SegmentWriteFails, WriteError, NoSegmentLeft
<1> QED
  BY <1>3, <1>4, <1>5 DEF TypeOK

\* Every step keeps the types.
LEMMA TypeStep == TypeOK /\ [StoreNext]_segVars => TypeOK'
<1> SUFFICES ASSUME TypeOK, [StoreNext]_segVars PROVE TypeOK'
  OBVIOUS
<1>1. CASE \E s \in Segs : Reserve(s)
  <2> PICK s \in Segs : Reserve(s)
    BY <1>1
  <2> DEFINE entry == [segment_entry EXCEPT ![s] = ReservedEntry]
  <2>1. entry \in [Segs -> Entry] /\ medium \in [Segs -> SegmentType]
    BY SegmentValues DEF TypeOK
  <2>2. GetSegment(s, entry, medium)
        /\ UNCHANGED <<area, used_bytes, di_used_bytes, flush_i, exited>>
    BY DEF Reserve
  <2> HIDE DEF entry
  <2>3. /\ lastseg' \in 0..NoSegs /\ segment_entry' \in [Segs -> Entry]
        /\ medium' \in [Segs -> SegmentType] /\ faulty' \subseteq Segs
    BY <2>1, <2>2, GetSegmentFacts
  <2> QED
    BY <2>2, <2>3 DEF TypeOK
<1>2. CASE ReserveFails
  <2>1. NoSegmentLeft(medium) /\ medium \in [Segs -> SegmentType]
        /\ UNCHANGED <<lastseg, segment_entry, area, used_bytes, di_used_bytes,
                       flush_i>>
    BY <1>2 DEF ReserveFails, TypeOK
  <2>2. medium' \in [Segs -> SegmentType] /\ faulty' \subseteq Segs
        /\ exited' \in BOOLEAN
    BY <2>1, NoSegmentLeftFacts DEF NoSegmentLeft
  <2> QED
    BY <2>1, <2>2 DEF TypeOK
<1>3. CASE \E type \in Types, ino \in Inos, bix \in Nat, level \in Levels,
              s \in Segs : SegmentWrite(type, ino, bix, level, s)
  BY <1>3, DeviceAssumption, SegmentWriteType
<1>4. CASE \E ino \in Inos, level \in Levels : SegmentWriteFails(ino, level)
  BY <1>4, SegmentWriteFailsType
<1>5. CASE FlushArea
  <2>1. flush_i \in Areas /\ flush_i' \in 0..NoAreas
    BY <1>5, DeviceAssumption DEF FlushArea, Areas, NoAreas, TypeOK
  <2>2. /\ segment_entry' \in [Segs -> Entry]
        /\ medium' \in [Segs -> SegmentType]
    BY <1>5, <2>1, FinishFacts DEF FlushArea, TypeOK
  <2> QED
    BY <1>5, <2>1, <2>2 DEF FlushArea, TypeOK
<1>6. CASE FlushFails
  <2>1. flush_i \in Areas /\ area[flush_i].open /\ WriteError(flush_i)
    BY <1>6 DEF FlushFails
  <2>2. medium' \in [Segs -> SegmentType] /\ faulty' \subseteq Segs
        /\ exited' \in BOOLEAN
    BY <2>1, WriteErrorType DEF WriteError
  <2> QED
    BY <1>6, <2>2 DEF FlushFails, TypeOK
<1>7. CASE Halt
  BY <1>7 DEF Halt, TypeOK
<1>8. CASE UNCHANGED segVars
  BY <1>8 DEF segVars, TypeOK
<1> QED
  BY <1>1, <1>2, <1>3, <1>4, <1>5, <1>6, <1>7, <1>8 DEF StoreNext

\* The empty store has the types.
LEMMA TypeInit == SegInit => TypeOK
<1> SUFFICES ASSUME SegInit PROVE TypeOK
  OBVIOUS
<1>1. /\ lastseg \in 0..NoSegs /\ flush_i \in 0..NoAreas
      /\ used_bytes \in Nat /\ faulty \subseteq Segs
  BY DeviceAssumption DEF SegInit, NoAreas
<1>5. exited \in BOOLEAN
  BY DEF SegInit
<1>2. /\ segment_entry \in [Segs -> Entry] /\ medium \in [Segs -> SegmentType]
      /\ di_used_bytes \in [Inos -> Nat]
  BY SegmentValues DEF SegInit
<1>3. area \in [Areas -> AreaType]
  BY SegmentValues DEF SegInit
<1>4. \A l \in Areas : area[l].open => area[l].segno \in Segs
  BY DEF SegInit, NoArea
<1> QED
  BY <1>1, <1>2, <1>3, <1>4, <1>5 DEF TypeOK

\* In every state of every run the variables of segment.c have their types and
\* the segments that areas and entries refer to exist on the device.
THEOREM Typing == SegSpec => []TypeOK
  BY TypeInit, TypeStep, AnyClient, PTL DEF SegSpec

----------------------------------------------------------------------------
(* Areas own their segments                                                *)

\* AreasExclusive for the segments below n.  mkfs.c marks the segments of the
\* second superblock at the end of the device without get_segment, so that what
\* a store with such a client keeps is kept up to there.
OwnedBelow(n) ==
    ~exited =>
        /\ \A s \in Segs : lastseg <= s /\ s < n => Untouched(s)
        /\ \A l, m \in Areas :
              area[l].open /\ area[m].open /\ area[l].segno = area[m].segno
                  => l = m
        /\ \A l \in Areas : area[l].open => area[l].segno < lastseg
        /\ \A l \in Areas : Pending(l) =>
              /\ medium[area[l].segno] = Erased
              /\ segment_entry[area[l].segno] = ZeroEntry
              /\ area[l].segno \notin faulty

LEMMA ExclusiveIsOwned == AreasExclusive <=> OwnedBelow(NoSegs)
<1>1. \A s \in Segs : s < NoSegs
  BY DeviceAssumption DEF Segs
<1> QED
  BY <1>1 DEF AreasExclusive, OwnedBelow

\* Area l becomes b where it is, or moves through get_segment to segment s: then
\* the entries and the device that get_segment meets differ from the ones before
\* at most in the segment the area leaves, which holds the old buffer.
InPlace(l, b) ==
    /\ area' = [area EXCEPT ![l] = b]
    /\ UNCHANGED <<lastseg, segment_entry, medium, faulty>>

MovesTo(l, s, b) ==
    /\ area' = [area EXCEPT ![l] = b]
    /\ \E entry \in [Segs -> Entry], m \in [Segs -> SegmentType] :
          /\ GetSegment(s, entry, m)
          /\ \A t \in Segs :
                \/ /\ area[l].open /\ t = area[l].segno
                   /\ m[t].kind = "ostore" /\ m[t].objs = area[l].buf
                \/ entry[t] = segment_entry[t] /\ m[t] = medium[t]

\* An area that moves takes a segment nobody else has.
LEMMA MoveExclusive ==
    ASSUME TypeOK, NEW n \in Nat, OwnedBelow(n), lastseg' <= n, ~exited,
           NEW l \in Areas, NEW s \in Segs, NEW b \in AreaType,
           b.open, b.segno = s,
           MovesTo(l, s, b),
           UNCHANGED <<flush_i, exited>>
    PROVE  OwnedBelow(n)'
<1> PICK entry \in [Segs -> Entry], m \in [Segs -> SegmentType] :
          /\ GetSegment(s, entry, m)
          /\ \A t \in Segs : \/ area[l].open /\ t = area[l].segno
                             \/ entry[t] = segment_entry[t] /\ m[t] = medium[t]
  BY DEF MovesTo
<1>0. area' = [area EXCEPT ![l] = b]
  BY DEF MovesTo
<1>1. /\ lastseg <= s /\ lastseg' = s + 1
      /\ medium'[s] = Erased /\ segment_entry'[s] = entry[s]
      /\ s \in faulty' => s \in faulty
      /\ \A t \in Segs : t < lastseg \/ s < t =>
            /\ medium'[t] = m[t]
            /\ segment_entry'[t] = entry[t]
            /\ t \in faulty' => t \in faulty
  BY GetSegmentFacts
<1>2. /\ \A t \in Segs : t \in Nat
      /\ lastseg \in Nat
  BY DEF Segs, TypeOK
<1>3. /\ \A t \in Segs : lastseg <= t /\ t < n => Untouched(t)
      /\ \A j, k \in Areas :
            area[j].open /\ area[k].open /\ area[j].segno = area[k].segno
               => j = k
      /\ \A k \in Areas : area[k].open => area[k].segno < lastseg
                                         /\ area[k].segno \in Segs
      /\ \A k \in Areas : Pending(k) =>
            /\ medium[area[k].segno] = Erased
            /\ segment_entry[area[k].segno] = ZeroEntry
            /\ area[k].segno \notin faulty
  BY DEF OwnedBelow, TypeOK
<1>4. /\ area'[l].open /\ area'[l].segno = s
      /\ \A k \in Areas : k # l => area'[k] = area[k]
  BY <1>0 DEF TypeOK
<1>5. ASSUME NEW t \in Segs, lastseg' <= t, t < n PROVE Untouched(t)'
  <2>1. s < t /\ lastseg <= t
    BY <1>1, <1>2, <1>5
  <2>2. ~(area[l].open /\ t = area[l].segno)
    BY <1>2, <1>3, <2>1
  <2> QED
    BY <1>1, <1>3, <1>5, <2>1, <2>2 DEF Untouched
<1>6. ASSUME NEW k \in Areas, area'[k].open PROVE area'[k].segno < lastseg'
  BY <1>1, <1>2, <1>3, <1>4, <1>6
<1>7. ASSUME NEW j \in Areas, NEW k \in Areas, area'[j].open, area'[k].open,
             area'[j].segno = area'[k].segno
      PROVE  j = k
  BY <1>1, <1>2, <1>3, <1>4, <1>7
<1>8. ASSUME NEW k \in Areas, Pending(k)'
      PROVE  /\ medium'[area'[k].segno] = Erased
             /\ segment_entry'[area'[k].segno] = ZeroEntry
             /\ area'[k].segno \notin faulty'
  <2>1. CASE k = l
    <3>0. s < n
      BY <1>1, <1>2
    <3>1. ~(area[l].open /\ s = area[l].segno) /\ Untouched(s)
      BY <1>1, <1>2, <1>3, <3>0
    <3> QED
      BY <1>1, <1>4, <2>1, <3>1 DEF Untouched
  <2>2. CASE k # l
    <3>1. area'[k] = area[k] /\ Pending(k)
      BY <1>4, <1>8, <2>2 DEF Pending
    <3>2. area[k].segno \in Segs /\ area[k].segno < lastseg
      BY <1>3, <3>1 DEF Pending
    <3>3. ~(area[l].open /\ area[k].segno = area[l].segno)
      BY <1>3, <2>2, <3>1 DEF Pending
    <3> QED
      BY <1>1, <1>3, <3>1, <3>2, <3>3
  <2> QED
    BY <2>1, <2>2
<1> QED
  BY <1>5, <1>6, <1>7, <1>8 DEF OwnedBelow

\* An object that stays in the segment of its area changes no owner.
LEMMA StayExclusive ==
    ASSUME TypeOK, NEW n, OwnedBelow(n),
           NEW l \in Areas, NEW b \in AreaType,
           b.open = area[l].open, b.segno = area[l].segno,
           InPlace(l, b),
           UNCHANGED <<flush_i, exited>>
    PROVE  OwnedBelow(n)'
<1>1. \A k \in Areas : /\ area'[k].open = area[k].open
                       /\ area'[k].segno = area[k].segno
  BY DEF TypeOK, InPlace
<1> QED
  BY <1>1 DEF InPlace, OwnedBelow, Pending, Untouched

\* The two shapes of SegmentWrite: the object joins its area, or its area moves.
LEMMA SegmentWriteShape ==
    ASSUME TypeOK, NEW type \in Types, NEW ino \in Inos, NEW bix \in Nat,
           NEW level \in Levels, NEW s \in Segs,
           SegmentWrite(type, ino, bix, level, s)
    PROVE  LET l == AreaOf(ino, level) IN
           \/ /\ area[l].open /\ HasRoom(l)
              /\ InPlace(l, CopyBuf(area[l], type, ino, bix))
           \/ MovesTo(l, s, CopyBuf(Fresh(s), type, ino, bix))
<1> DEFINE l == AreaOf(ino, level)
           fresh == CopyBuf(Fresh(s), type, ino, bix)
<1>1. l \in Areas
  BY AreaOfType
<1>2. segment_entry \in [Segs -> Entry] /\ medium \in [Segs -> SegmentType]
  BY DEF TypeOK
<1>3. ASSUME GetSegment(s, segment_entry, medium),
             area' = [area EXCEPT ![l] = fresh]
      PROVE  MovesTo(l, s, fresh)
  <2> HIDE DEF l, fresh
  <2> QED
    BY <1>2, <1>3 DEF MovesTo
<1>4. ASSUME area[l].open,
             GetSegment(s, EntryAfterFinish(l), MediumAfterFinish(l)),
             area' = [area EXCEPT ![l] = fresh]
      PROVE  MovesTo(l, s, fresh)
  <2> HIDE DEF l, fresh
  <2>1. /\ EntryAfterFinish(l) \in [Segs -> Entry]
        /\ MediumAfterFinish(l) \in [Segs -> SegmentType]
        /\ \A t \in Segs :
              \/ /\ area[l].open /\ t = area[l].segno
                 /\ MediumAfterFinish(l)[t].kind = "ostore"
                 /\ MediumAfterFinish(l)[t].objs = area[l].buf
              \/ /\ EntryAfterFinish(l)[t] = segment_entry[t]
                 /\ MediumAfterFinish(l)[t] = medium[t]
    BY <1>1, <1>4, FinishFacts
  <2> QED
    BY <1>4, <2>1 DEF MovesTo
<1> QED
  BY <1>3, <1>4 DEF SegmentWrite, InPlace

\* Every step keeps every area the owner of its segment.
LEMMA OwnedStep ==
    ASSUME TypeOK, NEW n \in Nat, OwnedBelow(n), lastseg' <= n, [StoreNext]_segVars
    PROVE  OwnedBelow(n)'
<1> USE DEF Pending
<1>1. CASE \E s \in Segs : Reserve(s)
  <2> PICK s \in Segs : Reserve(s)
    BY <1>1
  <2> DEFINE entry == [segment_entry EXCEPT ![s] = ReservedEntry]
  <2>1. /\ entry \in [Segs -> Entry] /\ medium \in [Segs -> SegmentType]
        /\ \A t \in Segs : t # s => entry[t] = segment_entry[t]
    BY SegmentValues DEF TypeOK
  <2>2. /\ GetSegment(s, entry, medium) /\ ~exited
        /\ UNCHANGED <<area, used_bytes, di_used_bytes, flush_i, exited>>
    BY DEF Reserve
  <2> HIDE DEF entry
  <2>3. /\ lastseg <= s /\ lastseg' = s + 1
        /\ \A t \in Segs : t < lastseg \/ s < t =>
              /\ medium'[t] = medium[t]
              /\ segment_entry'[t] = entry[t]
              /\ t \in faulty' => t \in faulty
    BY <2>1, <2>2, GetSegmentFacts
  <2>4. lastseg \in Nat /\ \A t \in Segs : t \in Nat
    BY DEF TypeOK, Segs
  <2>5. \A t \in Segs : t < lastseg \/ s < t =>
              /\ medium'[t] = medium[t]
              /\ segment_entry'[t] = segment_entry[t]
              /\ t \in faulty' => t \in faulty
    BY <2>1, <2>3, <2>4
  <2>6. \A t \in Segs : lastseg' <= t /\ t < n => Untouched(t)'
    <3> SUFFICES ASSUME NEW t \in Segs, lastseg' <= t, t < n PROVE Untouched(t)'
      OBVIOUS
    <3>1. s < t /\ lastseg <= t
      BY <2>3, <2>4
    <3> QED
      BY <2>2, <2>5, <3>1 DEF OwnedBelow, Untouched
  <2>7. \A l \in Areas : area[l].open =>
           area[l].segno \in Segs /\ area[l].segno < lastseg
    BY <2>2 DEF OwnedBelow, TypeOK
  <2>8. \A l \in Areas : area'[l].open => area'[l].segno < lastseg'
    BY <2>2, <2>3, <2>4, <2>7
  <2>9. \A l \in Areas : Pending(l)' =>
              /\ medium'[area'[l].segno] = Erased
              /\ segment_entry'[area'[l].segno] = ZeroEntry
              /\ area'[l].segno \notin faulty'
    BY <2>2, <2>5, <2>7 DEF OwnedBelow
  <2> QED
    BY <2>2, <2>6, <2>8, <2>9 DEF OwnedBelow
<1>2. CASE ReserveFails
  BY <1>2 DEF ReserveFails, NoSegmentLeft, OwnedBelow
<1>3. CASE \E type \in Types, ino \in Inos, bix \in Nat, level \in Levels,
              s \in Segs : SegmentWrite(type, ino, bix, level, s)
  <2> PICK type \in Types, ino \in Inos, bix \in Nat, level \in Levels,
           s \in Segs : SegmentWrite(type, ino, bix, level, s)
    BY <1>3
  <2> DEFINE l == AreaOf(ino, level)
  <2>1. l \in Areas /\ area[l] \in AreaType /\ bix \in Nat
    BY AreaOfType, DeviceAssumption DEF TypeOK
  <2>2. ~exited /\ UNCHANGED <<flush_i, exited>>
    BY DEF SegmentWrite
  <2>3. /\ CopyBuf(area[l], type, ino, bix) \in AreaType
        /\ CopyBuf(area[l], type, ino, bix).open = area[l].open
        /\ CopyBuf(area[l], type, ino, bix).segno = area[l].segno
    BY <2>1, CopyBufArea
  <2>4. /\ CopyBuf(Fresh(s), type, ino, bix) \in AreaType
        /\ CopyBuf(Fresh(s), type, ino, bix).open
        /\ CopyBuf(Fresh(s), type, ino, bix).segno = s
    BY <2>1, CopyBufArea, FreshArea
  <2>5. CASE InPlace(l, CopyBuf(area[l], type, ino, bix))
    <3> HIDE DEF l
    <3> QED
      BY <2>1, <2>2, <2>3, <2>5, StayExclusive
  <2>6. CASE MovesTo(l, s, CopyBuf(Fresh(s), type, ino, bix))
    <3> HIDE DEF l
    <3> QED
      BY <2>1, <2>2, <2>4, <2>6, MoveExclusive
  <2> QED
    BY <2>1, <2>5, <2>6, SegmentWriteShape
<1>4. CASE \E ino \in Inos, level \in Levels : SegmentWriteFails(ino, level)
  BY <1>4 DEF SegmentWriteFails, WriteError, NoSegmentLeft, OwnedBelow
<1>5. CASE FlushArea
  <2>1. /\ flush_i \in Areas /\ flush_i' = flush_i + 1
        /\ ~exited /\ UNCHANGED <<lastseg, area, faulty, exited>>
    BY <1>5 DEF FlushArea
  <2>2. \A t \in Segs : ~(area[flush_i].open /\ t = area[flush_i].segno) =>
           medium'[t] = medium[t] /\ segment_entry'[t] = segment_entry[t]
    BY <1>5, <2>1, FinishFacts DEF FlushArea
  <2>3. /\ \A t \in Segs : t \in Nat
        /\ lastseg \in Nat
        /\ \A l \in Areas : area[l].open =>
              area[l].segno \in Segs /\ area[l].segno < lastseg
    BY <2>1 DEF Segs, TypeOK, OwnedBelow
  <2>4. \A t \in Segs : lastseg <= t /\ t < n => Untouched(t)'
    <3> SUFFICES ASSUME NEW t \in Segs, lastseg <= t, t < n PROVE Untouched(t)'
      OBVIOUS
    <3>1. ~(area[flush_i].open /\ t = area[flush_i].segno)
      BY <2>1, <2>3
    <3> QED
      BY <2>1, <2>2, <3>1 DEF OwnedBelow, Untouched
  <2>5. \A l \in Areas : Pending(l)' =>
              /\ medium'[area'[l].segno] = Erased
              /\ segment_entry'[area'[l].segno] = ZeroEntry
              /\ area'[l].segno \notin faulty'
    <3> SUFFICES ASSUME NEW l \in Areas, area[l].open, flush_i + 1 <= l
                 PROVE  /\ medium'[area[l].segno] = Erased
                        /\ segment_entry'[area[l].segno] = ZeroEntry
                        /\ area[l].segno \notin faulty
      BY <2>1
    <3>1. l \in Int /\ flush_i \in Int
      BY <2>1 DEF Areas
    <3>2. flush_i # l /\ flush_i <= l
      BY <3>1
    <3>3. ~(area[flush_i].open /\ area[l].segno = area[flush_i].segno)
      BY <2>1, <3>2 DEF OwnedBelow
    <3> QED
      BY <2>1, <2>2, <2>3, <3>2, <3>3 DEF OwnedBelow
  <2> QED
    BY <2>1, <2>4, <2>5 DEF OwnedBelow
<1>6. CASE FlushFails
  BY <1>6 DEF FlushFails, WriteError, OwnedBelow
<1>7. CASE Halt
  BY <1>7 DEF Halt, OwnedBelow
<1>8. CASE UNCHANGED segVars
  BY <1>8 DEF segVars, OwnedBelow, Untouched
<1> QED
  BY <1>1, <1>2, <1>3, <1>4, <1>5, <1>6, <1>7, <1>8 DEF StoreNext

LEMMA ExclusiveStep ==
    TypeOK /\ AreasExclusive /\ [StoreNext]_segVars => AreasExclusive'
<1> SUFFICES ASSUME TypeOK, AreasExclusive, [StoreNext]_segVars
             PROVE  AreasExclusive'
  OBVIOUS
<1>1. OwnedBelow(NoSegs)
  BY ExclusiveIsOwned
<1>2. TypeOK' /\ NoSegs \in Nat
  BY TypeStep, DeviceAssumption
<1>3. lastseg' <= NoSegs
  BY <1>2 DEF TypeOK
<1>4. OwnedBelow(NoSegs)'
  BY <1>1, <1>2, <1>3, OwnedStep
<1> QED
  BY <1>4, ExclusiveIsOwned, PTL

\* An empty store has no area to share a segment.
LEMMA ExclusiveInit == SegInit => AreasExclusive
  BY DEF SegInit, AreasExclusive, Untouched, Pending, NoArea

\* Whatever the clients write and wherever the device fails, no two areas ever
\* fill one segment, and what an area is about to overwrite is erased space.
THEOREM Exclusive == SegSpec => []AreasExclusive
<1>1. SegInit => TypeOK /\ AreasExclusive
  BY TypeInit, ExclusiveInit
<1>2. TypeOK /\ AreasExclusive /\ [StoreNext]_segVars => (TypeOK /\ AreasExclusive)'
  BY TypeStep, ExclusiveStep
<1> QED
  BY <1>1, <1>2, AnyClient, PTL DEF SegSpec

----------------------------------------------------------------------------
(* Objects are packed                                                      *)

\* The two halves of Packed, for one area and for one segment of the device.
BufferPacked(a) ==
    a.open => /\ a.used_bytes \in SegHeader..SegSize
              /\ Tiles(a.buf, a.used_bytes)

MediumPacked(seg) ==
    seg.kind = "ostore" => \E end \in SegHeader..SegSize : Tiles(seg.objs, end)

\* An empty buffer is packed.
LEMMA EmptyTiles == Tiles({}, SegHeader)
  BY DEF Tiles

\* An object fits where SegmentWrite puts it, in an area with room or in a new
\* one, although the test for room asks for a block.
LEMMA CopyBufPacked ==
    ASSUME NEW a \in AreaType, NEW type \in Types, NEW ino \in Inos,
           NEW bix \in Nat, a.open, BufferPacked(a),
           a.used_bytes + ObjHeader + BlockSize <= SegSize
    PROVE  BufferPacked(CopyBuf(a, type, ino, bix))
<1> DEFINE b == CopyBuf(a, type, ino, bix)
<1>1. SegHeader <= a.used_bytes /\ Tiles(a.buf, a.used_bytes)
  BY SizeAssumption DEF BufferPacked, AreaType
<1>2. SegHeader <= b.used_bytes /\ Tiles(b.buf, b.used_bytes)
  BY <1>1, CopyBufTiles
<1>3. b.used_bytes = a.used_bytes + ObjHeader + ObjLen(type)
  BY CopyBufArea
<1>4. /\ ObjLen(type) \in Nat /\ ObjLen(type) <= BlockSize
      /\ ObjHeader \in Nat /\ BlockSize \in Nat /\ SegSize \in Nat
      /\ SegHeader \in Nat /\ a.used_bytes \in Nat
  BY ObjLenBound, SizeAssumption, DeviceAssumption DEF AreaType
<1> HIDE DEF b
<1>5. b.used_bytes \in SegHeader..SegSize
  BY <1>2, <1>3, <1>4
<1> QED
  BY <1>2, <1>5 DEF BufferPacked, b

\* An area that moves starts with a packed buffer.
LEMMA FreshPacked ==
    ASSUME NEW s \in Segs, NEW type \in Types, NEW ino \in Inos, NEW bix \in Nat
    PROVE  BufferPacked(CopyBuf(Fresh(s), type, ino, bix))
<1>1. /\ Fresh(s) \in AreaType /\ Fresh(s).open /\ Fresh(s).buf = {}
      /\ Fresh(s).used_bytes = SegHeader
  BY FreshArea
<1>2. SegHeader \in SegHeader..SegSize
      /\ SegHeader + ObjHeader + BlockSize <= SegSize
  BY SizeAssumption, DeviceAssumption
<1>3. BufferPacked(Fresh(s))
  BY <1>1, <1>2, EmptyTiles DEF BufferPacked
<1> QED
  BY <1>1, <1>2, <1>3, CopyBufPacked

\* What finish_area writes is a packed buffer.
LEMMA FinishPacked ==
    ASSUME TypeOK, Packed, NEW l \in Areas, area[l].open, NEW t \in Segs
    PROVE  MediumPacked(MediumAfterFinish(l)[t])
<1>1. CASE t = area[l].segno
  BY <1>1, FinishFacts DEF Packed, MediumPacked
<1>2. CASE t # area[l].segno
  BY <1>2, FinishFacts DEF Packed, MediumPacked
<1> QED
  BY <1>1, <1>2

\* Every step keeps every buffer and every segment on the device packed.
LEMMA PackedStep == TypeOK /\ Packed /\ [StoreNext]_segVars => Packed'
<1> SUFFICES ASSUME TypeOK, Packed, [StoreNext]_segVars PROVE Packed'
  OBVIOUS
<1>1. /\ \A l \in Areas : BufferPacked(area[l])
      /\ \A t \in Segs : MediumPacked(medium[t])
  BY DEF Packed, BufferPacked, MediumPacked
<1>2. ASSUME \A l \in Areas : BufferPacked(area'[l]),
             \A t \in Segs : MediumPacked(medium'[t])
      PROVE  Packed'
  BY <1>2 DEF Packed, BufferPacked, MediumPacked
<1>3. MediumPacked(Unknown) /\ MediumPacked(Erased)
  BY SegmentValues DEF MediumPacked
<1>4. medium \in [Segs -> SegmentType]
  BY DEF TypeOK
<1>5. CASE \E s \in Segs : Reserve(s)
  <2> PICK s \in Segs : Reserve(s)
    BY <1>5
  <2> DEFINE entry == [segment_entry EXCEPT ![s] = ReservedEntry]
  <2>1. entry \in [Segs -> Entry] /\ GetSegment(s, entry, medium)
        /\ UNCHANGED area
    BY SegmentValues DEF Reserve, TypeOK
  <2> HIDE DEF entry
  <2>2. \A t \in Segs : medium'[t] \in {medium[t], Erased, Unknown}
    BY <1>4, <2>1, GetSegmentFacts
  <2>3. \A t \in Segs : MediumPacked(medium'[t])
    BY <1>1, <1>3, <2>2
  <2> QED
    BY <1>1, <1>2, <2>1, <2>3
<1>6. ASSUME NEW m \in [Segs -> SegmentType],
             \A t \in Segs : MediumPacked(m[t]), NoSegmentLeft(m)
      PROVE  \A t \in Segs : MediumPacked(medium'[t])
  <2>1. \A t \in Segs : t \in Nat
    BY DEF Segs
  <2>2. \A t \in Segs : medium'[t] \in {m[t], Unknown}
    BY <1>6, <2>1, NoSegmentLeftFacts DEF TypeOK
  <2> QED
    BY <1>3, <1>6, <2>2
<1>7. CASE ReserveFails
  BY <1>1, <1>2, <1>4, <1>6, <1>7 DEF ReserveFails
<1>8. CASE \E type \in Types, ino \in Inos, bix \in Nat, level \in Levels,
              s \in Segs : SegmentWrite(type, ino, bix, level, s)
  <2> PICK type \in Types, ino \in Inos, bix \in Nat, level \in Levels,
           s \in Segs : SegmentWrite(type, ino, bix, level, s)
    BY <1>8
  <2> DEFINE l == AreaOf(ino, level)
  <2>1. l \in Areas /\ area[l] \in AreaType /\ bix \in Nat
    BY AreaOfType, DeviceAssumption DEF TypeOK
  <2>2. BufferPacked(CopyBuf(Fresh(s), type, ino, bix))
    BY <2>1, FreshPacked
  <2>3. CASE /\ area[l].open /\ HasRoom(l)
             /\ InPlace(l, CopyBuf(area[l], type, ino, bix))
    <3>1. BufferPacked(CopyBuf(area[l], type, ino, bix))
      <4> HIDE DEF l
      <4> QED
        BY <1>1, <2>1, <2>3, CopyBufPacked DEF HasRoom
    <3> HIDE DEF l
    <3>2. \A k \in Areas : BufferPacked(area'[k])
      BY <1>1, <2>1, <2>3, <3>1 DEF InPlace, TypeOK
    <3> QED
      BY <1>1, <1>2, <2>3, <3>2 DEF InPlace
  <2>4. CASE MovesTo(l, s, CopyBuf(Fresh(s), type, ino, bix))
    <3> HIDE DEF l
    <3>1. PICK entry \in [Segs -> Entry], m \in [Segs -> SegmentType] :
             /\ GetSegment(s, entry, m)
             /\ \A t \in Segs :
                   \/ /\ area[l].open /\ t = area[l].segno
                      /\ m[t].kind = "ostore" /\ m[t].objs = area[l].buf
                   \/ entry[t] = segment_entry[t] /\ m[t] = medium[t]
      BY <2>4 DEF MovesTo
    <3>2. \A t \in Segs : MediumPacked(m[t])
      BY <1>1, <2>1, <3>1 DEF BufferPacked, MediumPacked
    <3>3. \A t \in Segs : medium'[t] \in {m[t], Erased, Unknown}
      BY <3>1, GetSegmentFacts
    <3>4. \A t \in Segs : MediumPacked(medium'[t])
      BY <1>3, <3>2, <3>3
    <3>5. \A k \in Areas : BufferPacked(area'[k])
      BY <1>1, <2>1, <2>2, <2>4 DEF MovesTo, TypeOK
    <3> QED
      BY <1>2, <3>4, <3>5
  <2> QED
    BY <2>1, <2>3, <2>4, SegmentWriteShape
<1>9. ASSUME NEW l \in Areas, area[l].open
      PROVE  /\ MediumAfterFinish(l) \in [Segs -> SegmentType]
             /\ \A t \in Segs : MediumPacked(MediumAfterFinish(l)[t])
  BY <1>9, FinishFacts, FinishPacked
<1>10. ASSUME NEW l \in Areas, WriteError(l)
       PROVE  \A t \in Segs : MediumPacked(medium'[t])
  BY <1>1, <1>3, <1>4, <1>10 DEF WriteError
<1>11. CASE \E ino \in Inos, level \in Levels : SegmentWriteFails(ino, level)
  <2> PICK ino \in Inos, level \in Levels : SegmentWriteFails(ino, level)
    BY <1>11
  <2>1. AreaOf(ino, level) \in Areas
    BY AreaOfType
  <2>2. \A t \in Segs : MediumPacked(medium'[t])
    BY <1>1, <1>4, <1>6, <1>9, <1>10, <2>1 DEF SegmentWriteFails
  <2> QED
    BY <1>1, <1>2, <2>2 DEF SegmentWriteFails
<1>12. CASE FlushArea
  BY <1>1, <1>2, <1>9, <1>12 DEF FlushArea
<1>13. CASE FlushFails
  BY <1>1, <1>2, <1>10, <1>13 DEF FlushFails
<1>14. CASE Halt
  BY <1>1, <1>2, <1>14 DEF Halt
<1>15. CASE UNCHANGED segVars
  BY <1>1, <1>2, <1>15 DEF segVars
<1> QED
  BY <1>5, <1>7, <1>8, <1>11, <1>12, <1>13, <1>14, <1>15 DEF StoreNext

\* An empty store is packed.
LEMMA PackedInit == SegInit => Packed
  BY SegmentValues DEF SegInit, Packed

\* Objects tile every buffer and every segment written to the device: none
\* overlaps another, the segment header or the end of the segment.
THEOREM AlwaysPacked == SegSpec => []Packed
<1>1. SegInit => TypeOK /\ Packed
  BY TypeInit, PackedInit
<1>2. TypeOK /\ Packed /\ [StoreNext]_segVars => (TypeOK /\ Packed)'
  BY TypeStep, PackedStep
<1> QED
  BY <1>1, <1>2, AnyClient, PTL DEF SegSpec

----------------------------------------------------------------------------
(* A segment is written once                                               *)

\* The life of one segment in a step: WriteOnce is OnceStep of every segment.
OnceStep(s) ==
    /\ medium[s].kind = "ostore" => medium'[s] = medium[s]
    /\ medium'[s].kind = "ostore" => medium[s].kind \in {"erased", "ostore"}

\* get_segment touches only segments that were never written; the one an area
\* leaves is written, and it had been erased.
LEMMA GetSegmentOnce ==
    ASSUME TypeOK, AreasExclusive, ~exited, NEW s,
           NEW entry \in [Segs -> Entry], NEW m \in [Segs -> SegmentType],
           GetSegment(s, entry, m),
           \A t \in Segs : \/ t < lastseg /\ medium[t] = Erased
                           \/ m[t] = medium[t]
    PROVE  \A t \in Segs : OnceStep(t)
<1> SUFFICES ASSUME NEW t \in Segs PROVE OnceStep(t)
  OBVIOUS
<1>1. /\ s \in Segs /\ lastseg <= s /\ medium'[s] = Erased
      /\ t < lastseg \/ s < t => medium'[t] = m[t]
      /\ lastseg <= t /\ t < s => medium'[t] = Unknown
  BY GetSegmentFacts
<1>2. lastseg \in Nat /\ s \in Nat /\ t \in Nat
  BY <1>1 DEF TypeOK, Segs
<1>3. lastseg <= t => medium[t] = Unknown
  BY DEF AreasExclusive, Untouched
<1>4. Unknown.kind = "unknown" /\ Erased.kind = "erased"
  BY SegmentValues
<1>5. CASE t < lastseg
  BY <1>1, <1>4, <1>5 DEF OnceStep
<1>6. CASE lastseg <= t
  <2>1. ~(t < lastseg)
    BY <1>2, <1>6
  <2>2. medium'[t] \in {Erased, Unknown}
    BY <1>1, <1>2, <1>3, <1>6, <2>1
  <2> QED
    BY <1>3, <1>4, <1>6, <2>2 DEF OnceStep
<1> QED
  BY <1>2, <1>5, <1>6

\* The same for the end of the program in get_segment.
LEMMA NoSegmentLeftOnce ==
    ASSUME TypeOK, AreasExclusive, ~exited,
           NEW m \in [Segs -> SegmentType], NoSegmentLeft(m),
           \A t \in Segs : \/ t < lastseg /\ medium[t] = Erased
                           \/ m[t] = medium[t]
    PROVE  \A t \in Segs : OnceStep(t)
<1> SUFFICES ASSUME NEW t \in Segs PROVE OnceStep(t)
  OBVIOUS
<1>1. /\ t < lastseg => medium'[t] = m[t]
      /\ lastseg <= t => medium'[t] = Unknown
  BY NoSegmentLeftFacts
<1>2. lastseg \in Nat /\ t \in Nat
  BY DEF TypeOK, Segs
<1>3. lastseg <= t => medium[t] = Unknown
  BY DEF AreasExclusive, Untouched
<1>4. Unknown.kind = "unknown" /\ Erased.kind = "erased"
  BY SegmentValues
<1>5. CASE t < lastseg
  BY <1>1, <1>4, <1>5 DEF OnceStep
<1>6. CASE lastseg <= t
  BY <1>1, <1>3, <1>4, <1>6 DEF OnceStep
<1> QED
  BY <1>2, <1>5, <1>6

\* An area that still has to be written stands on an erased segment.
LEMMA PendingErased ==
    ASSUME TypeOK, NEW n, OwnedBelow(n), ~exited, NEW l \in Areas, area[l].open,
           flush_i <= l
    PROVE  /\ area[l].segno \in Segs
           /\ area[l].segno < lastseg
           /\ medium[area[l].segno] = Erased
  BY DEF TypeOK, OwnedBelow, Pending

\* No step writes or erases a segment that holds an object store, or writes one
\* on a segment that is not erased.
LEMMA OnceLemma ==
    TypeOK /\ AreasExclusive /\ [StoreNext]_segVars => \A t \in Segs : OnceStep(t)
<1> SUFFICES ASSUME TypeOK, AreasExclusive, [StoreNext]_segVars
             PROVE  \A t \in Segs : OnceStep(t)
  OBVIOUS
<1>0. OwnedBelow(NoSegs)
  BY ExclusiveIsOwned
<1>1. medium \in [Segs -> SegmentType]
  BY DEF TypeOK
<1>2. ASSUME medium' = medium PROVE \A t \in Segs : OnceStep(t)
  BY <1>2 DEF OnceStep
<1>3. ASSUME ~exited, NEW l \in Areas, area[l].open, flush_i <= l
      PROVE  /\ MediumAfterFinish(l) \in [Segs -> SegmentType]
             /\ \A t \in Segs : \/ t < lastseg /\ medium[t] = Erased
                                \/ MediumAfterFinish(l)[t] = medium[t]
  BY <1>0, <1>3, PendingErased, FinishFacts
<1>4. ASSUME ~exited, NEW l \in Areas, area[l].open, flush_i <= l, WriteError(l)
      PROVE  \A t \in Segs : OnceStep(t)
  <2>1. medium[area[l].segno] = Erased /\ area[l].segno \in Segs
    BY <1>0, <1>4, PendingErased
  <2>2. \A t \in Segs : medium'[t] = IF t = area[l].segno THEN Unknown
                                     ELSE medium[t]
    BY <1>1, <1>4 DEF WriteError
  <2> QED
    BY <2>1, <2>2, SegmentValues DEF OnceStep
<1>5. \A l \in Areas : 0 <= l
  BY DEF Areas
<1>6. CASE \E s \in Segs : Reserve(s)
  <2> PICK s \in Segs : Reserve(s)
    BY <1>6
  <2> DEFINE entry == [segment_entry EXCEPT ![s] = ReservedEntry]
  <2>1. entry \in [Segs -> Entry] /\ GetSegment(s, entry, medium) /\ ~exited
    BY SegmentValues DEF Reserve, TypeOK
  <2> HIDE DEF entry
  <2> QED
    BY <1>1, <2>1, GetSegmentOnce
<1>7. CASE ReserveFails
  BY <1>1, <1>7, NoSegmentLeftOnce DEF ReserveFails
<1>8. CASE \E type \in Types, ino \in Inos, bix \in Nat, level \in Levels,
              s \in Segs : SegmentWrite(type, ino, bix, level, s)
  <2> PICK type \in Types, ino \in Inos, bix \in Nat, level \in Levels,
           s \in Segs : SegmentWrite(type, ino, bix, level, s)
    BY <1>8
  <2> DEFINE l == AreaOf(ino, level)
  <2>1. l \in Areas /\ bix \in Nat /\ ~exited /\ flush_i = 0
    BY AreaOfType, DeviceAssumption DEF SegmentWrite
  <2>2. CASE InPlace(l, CopyBuf(area[l], type, ino, bix))
    BY <1>2, <2>2 DEF InPlace
  <2>3. CASE MovesTo(l, s, CopyBuf(Fresh(s), type, ino, bix))
    <3> HIDE DEF l
    <3>1. PICK entry \in [Segs -> Entry], m \in [Segs -> SegmentType] :
             /\ GetSegment(s, entry, m)
             /\ \A t \in Segs : \/ area[l].open /\ t = area[l].segno
                                \/ m[t] = medium[t]
      BY <2>3 DEF MovesTo
    <3>2. \A t \in Segs : \/ t < lastseg /\ medium[t] = Erased
                          \/ m[t] = medium[t]
      BY <1>0, <1>5, <2>1, <3>1, PendingErased
    <3> QED
      BY <2>1, <3>1, <3>2, GetSegmentOnce
  <2> QED
    BY <2>1, <2>2, <2>3, SegmentWriteShape
<1>9. CASE \E ino \in Inos, level \in Levels : SegmentWriteFails(ino, level)
  <2> PICK ino \in Inos, level \in Levels : SegmentWriteFails(ino, level)
    BY <1>9
  <2>1. AreaOf(ino, level) \in Areas /\ ~exited /\ flush_i = 0
    BY AreaOfType DEF SegmentWriteFails
  <2> QED
    BY <1>1, <1>3, <1>4, <1>5, <2>1, NoSegmentLeftOnce DEF SegmentWriteFails
<1>10. CASE FlushArea
  <2>1. /\ ~exited /\ flush_i \in Areas /\ flush_i <= flush_i
        /\ \/ area[flush_i].open /\ medium' = MediumAfterFinish(flush_i)
           \/ medium' = medium
    BY <1>10 DEF FlushArea, Areas
  <2>2. CASE area[flush_i].open /\ medium' = MediumAfterFinish(flush_i)
    BY <1>3, <2>1, <2>2, SegmentValues DEF OnceStep
  <2> QED
    BY <1>2, <2>1, <2>2
<1>11. CASE FlushFails
  <2>1. /\ ~exited /\ flush_i \in Areas /\ flush_i <= flush_i
        /\ area[flush_i].open /\ WriteError(flush_i)
    BY <1>11 DEF FlushFails, Areas
  <2> QED
    BY <1>4, <2>1
<1>12. CASE Halt
  BY <1>2, <1>12 DEF Halt
<1>13. CASE UNCHANGED segVars
  BY <1>2, <1>13 DEF segVars
<1> QED
  BY <1>6, <1>7, <1>8, <1>9, <1>10, <1>11, <1>12, <1>13 DEF StoreNext

\* On every device, however many erases and writes fail, finish_area writes a
\* segment once, after its erase, and nothing erases it afterwards.
THEOREM WrittenOnce == SegSpec => WriteOnce
<1>1. TypeOK /\ AreasExclusive /\ [StoreNext]_segVars
        => [\A s \in Segs :
               /\ medium[s].kind = "ostore" => medium'[s] = medium[s]
               /\ medium'[s].kind = "ostore"
                    => medium[s].kind \in {"erased", "ostore"}]_segVars
  BY OnceLemma DEF OnceStep
<1> QED
  BY <1>1, Typing, Exclusive, AnyClient, PTL DEF SegSpec, WriteOnce

----------------------------------------------------------------------------
(* Bad segments                                                            *)

\* get_segment enters every segment it finds bad, and no other.
LEMMA GetSegmentBad ==
    ASSUME TypeOK, NEW s, NEW entry \in [Segs -> Entry],
           NEW m \in [Segs -> SegmentType], GetSegment(s, entry, m)
    PROVE  \A t \in faulty' :
               \/ t \in faulty
               \/ medium'[t] = Unknown /\ segment_entry'[t] = BadEntry
<1> DEFINE skipped == lastseg .. s - 1
<1>1. s \in Segs /\ lastseg \in Nat /\ NoSegs \in Nat
  BY DeviceAssumption DEF GetSegment, TypeOK
<1>2. skipped \subseteq Segs /\ s \notin skipped
  BY <1>1 DEF Segs
<1>3. /\ faulty' = faulty \cup skipped
      /\ segment_entry' = [t \in Segs |-> IF t \in skipped THEN BadEntry ELSE entry[t]]
      /\ medium' = [t \in Segs |-> IF t = s THEN Erased
                                   ELSE IF t \in skipped THEN Unknown
                                   ELSE m[t]]
  BY DEF GetSegment, MarkBad
<1> HIDE DEF skipped
<1>4. ASSUME NEW t \in skipped
      PROVE  medium'[t] = Unknown /\ segment_entry'[t] = BadEntry
  BY <1>2, <1>3
<1> QED
  BY <1>3, <1>4

\* BadSegmentsShunned for the segments below n.
ShunnedBelow(n) ==
    /\ \A s \in faulty : s < n => medium[s].kind = "unknown"
    /\ ~exited => \A s \in faulty : s < n => segment_entry[s] = BadEntry

LEMMA ShunnedIsBelow == TypeOK => (BadSegmentsShunned <=> ShunnedBelow(NoSegs))
<1>1. \A s \in Segs : s < NoSegs
  BY DeviceAssumption DEF Segs
<1> QED
  BY <1>1 DEF TypeOK, BadSegmentsShunned, ShunnedBelow

\* What get_segment has passed it leaves alone.
LEMMA GetSegmentKeeps ==
    ASSUME TypeOK, NEW s, NEW entry \in [Segs -> Entry],
           NEW m \in [Segs -> SegmentType], GetSegment(s, entry, m)
    PROVE  \A t \in Segs :
               t < lastseg => medium'[t] = m[t] /\ segment_entry'[t] = entry[t]
<1> SUFFICES ASSUME NEW t \in Segs, t < lastseg
             PROVE  medium'[t] = m[t] /\ segment_entry'[t] = entry[t]
  OBVIOUS
<1>1. lastseg <= s /\ lastseg \in Nat /\ s \in Nat /\ t \in Nat
  BY DEF GetSegment, TypeOK, Segs
<1>2. t # s /\ t \notin lastseg .. s - 1
  BY <1>1
<1> QED
  BY <1>2 DEF GetSegment, MarkBad

\* A segment get_segment came to leaves its entry and its content alone when it
\* goes on, unless an area ends in it.
LEMMA GetSegmentShuns ==
    ASSUME TypeOK, NEW n \in Nat, OwnedBelow(n), ShunnedBelow(n), ~exited, NEW s,
           NEW entry \in [Segs -> Entry], NEW m \in [Segs -> SegmentType],
           GetSegment(s, entry, m),
           \A t \in faulty : t < lastseg =>
               entry[t] = segment_entry[t] /\ m[t] = medium[t]
    PROVE  ShunnedBelow(n)'
<1>1. \A t \in Segs : t < lastseg => medium'[t] = m[t] /\ segment_entry'[t] = entry[t]
  BY GetSegmentKeeps
<1>2. \A t \in faulty : t < n => t \in Segs /\ t < lastseg
  <2>1. \A t \in Segs : lastseg <= t /\ t < n => t \notin faulty
    BY DEF OwnedBelow, Untouched
  <2>2. faulty \subseteq Segs /\ lastseg \in Nat /\ \A t \in Segs : t \in Nat
    BY DEF TypeOK, Segs
  <2> QED
    BY <2>1, <2>2
<1>3. ASSUME NEW t \in faulty', t < n
      PROVE  medium'[t].kind = "unknown" /\ segment_entry'[t] = BadEntry
  <2>1. CASE t \in faulty
    BY <1>1, <1>2, <1>3, <2>1 DEF ShunnedBelow
  <2>2. CASE medium'[t] = Unknown /\ segment_entry'[t] = BadEntry
    BY <2>2, SegmentValues
  <2> QED
    BY <1>3, <2>1, <2>2, GetSegmentBad
<1> QED
  BY <1>3 DEF ShunnedBelow

\* The same when get_segment runs out of segments.
LEMMA NoSegmentLeftShuns ==
    ASSUME TypeOK, NEW n \in Nat, ShunnedBelow(n),
           NEW m \in [Segs -> SegmentType], NoSegmentLeft(m),
           \A t \in faulty : m[t] = medium[t]
    PROVE  ShunnedBelow(n)'
<1> DEFINE skipped == lastseg .. NoSegs - 1
<1>1. /\ faulty' = faulty \cup skipped
      /\ medium' = [t \in Segs |-> IF t \in skipped THEN Unknown ELSE m[t]]
      /\ exited' /\ faulty' \subseteq Segs
  BY NoSegmentLeftFacts DEF NoSegmentLeft
<1> HIDE DEF skipped
<1>2. \A t \in faulty' : medium'[t] = Unknown \/ (t \in faulty /\ medium'[t] = m[t])
  BY <1>1
<1> QED
  BY <1>1, <1>2, SegmentValues DEF ShunnedBelow

LEMMA ShunnedBelowStep ==
    ASSUME TypeOK, NEW n \in Nat, OwnedBelow(n), ShunnedBelow(n), [StoreNext]_segVars
    PROVE  ShunnedBelow(n)'
<1>1. /\ segment_entry \in [Segs -> Entry] /\ medium \in [Segs -> SegmentType]
      /\ faulty \subseteq Segs
  BY DEF TypeOK
\* An area that has to be written is not on a bad segment.
<1>2. ASSUME ~exited, NEW l \in Areas, area[l].open, flush_i <= l
      PROVE  /\ EntryAfterFinish(l) \in [Segs -> Entry]
             /\ MediumAfterFinish(l) \in [Segs -> SegmentType]
             /\ area[l].segno \in Segs /\ area[l].segno \notin faulty
             /\ \A t \in faulty :
                   /\ EntryAfterFinish(l)[t] = segment_entry[t]
                   /\ MediumAfterFinish(l)[t] = medium[t]
  <2>1. area[l].segno \in Segs /\ area[l].segno \notin faulty
    BY <1>2 DEF TypeOK, OwnedBelow, Pending
  <2> QED
    BY <1>1, <1>2, <2>1, FinishFacts
<1>3. ASSUME NEW l \in Areas, area[l].open, WriteError(l)
      PROVE  ShunnedBelow(n)'
  <2>1. area[l].segno \in Segs /\ faulty' = faulty /\ exited'
    BY <1>3 DEF TypeOK, WriteError
  <2>2. \A t \in Segs : medium'[t] = IF t = area[l].segno THEN Unknown ELSE medium[t]
    BY <1>1, <1>3, <2>1 DEF WriteError
  <2> QED
    BY <1>1, <2>1, <2>2, SegmentValues DEF ShunnedBelow
<1>4. \A l \in Areas : 0 <= l
  BY DEF Areas
<1>5. CASE \E s \in Segs : Reserve(s)
  <2> PICK s \in Segs : Reserve(s)
    BY <1>5
  <2> DEFINE entry == [segment_entry EXCEPT ![s] = ReservedEntry]
  <2>1. entry \in [Segs -> Entry] /\ GetSegment(s, entry, medium) /\ ~exited
    BY SegmentValues DEF Reserve, TypeOK
  <2>2. \A t \in Segs : t # s => entry[t] = segment_entry[t]
    BY <1>1
  <2> HIDE DEF entry
  <2>3. lastseg <= s /\ lastseg \in Nat /\ \A t \in Segs : t \in Nat
    BY <2>1 DEF GetSegment, TypeOK, Segs
  <2>4. \A t \in faulty : t < lastseg => entry[t] = segment_entry[t]
    BY <1>1, <2>2, <2>3
  <2> QED
    BY <1>1, <2>1, <2>4, GetSegmentShuns
<1>6. CASE ReserveFails
  BY <1>1, <1>6, NoSegmentLeftShuns DEF ReserveFails
<1>7. CASE \E type \in Types, ino \in Inos, bix \in Nat, level \in Levels,
              s \in Segs : SegmentWrite(type, ino, bix, level, s)
  <2> PICK type \in Types, ino \in Inos, bix \in Nat, level \in Levels,
           s \in Segs : SegmentWrite(type, ino, bix, level, s)
    BY <1>7
  <2> DEFINE l == AreaOf(ino, level)
  <2>1. l \in Areas /\ ~exited /\ flush_i = 0 /\ UNCHANGED exited
    BY AreaOfType DEF SegmentWrite
  <2>2. \/ UNCHANGED <<segment_entry, medium, faulty>>
        \/ GetSegment(s, segment_entry, medium)
        \/ /\ area[l].open
           /\ GetSegment(s, EntryAfterFinish(l), MediumAfterFinish(l))
    BY DEF SegmentWrite
  <2> HIDE DEF l
  <2>3. CASE UNCHANGED <<segment_entry, medium, faulty>>
    BY <2>1, <2>3 DEF ShunnedBelow
  <2>4. CASE GetSegment(s, segment_entry, medium)
    BY <1>1, <2>1, <2>4, GetSegmentShuns
  <2>5. CASE area[l].open /\ GetSegment(s, EntryAfterFinish(l), MediumAfterFinish(l))
    BY <1>2, <1>4, <2>1, <2>5, GetSegmentShuns
  <2> QED
    BY <2>2, <2>3, <2>4, <2>5
<1>8. CASE \E ino \in Inos, level \in Levels : SegmentWriteFails(ino, level)
  <2> PICK ino \in Inos, level \in Levels : SegmentWriteFails(ino, level)
    BY <1>8
  <2>1. AreaOf(ino, level) \in Areas /\ ~exited /\ flush_i = 0
    BY AreaOfType DEF SegmentWriteFails
  <2> QED
    BY <1>1, <1>2, <1>3, <1>4, <2>1, NoSegmentLeftShuns DEF SegmentWriteFails
<1>9. CASE FlushArea
  <2>1. /\ ~exited /\ flush_i \in Areas /\ flush_i <= flush_i
        /\ UNCHANGED <<faulty, exited>>
        /\ \/ /\ area[flush_i].open
              /\ segment_entry' = EntryAfterFinish(flush_i)
              /\ medium' = MediumAfterFinish(flush_i)
           \/ UNCHANGED <<segment_entry, medium>>
    BY <1>9 DEF FlushArea, Areas
  <2>2. \A t \in faulty : segment_entry'[t] = segment_entry[t] /\ medium'[t] = medium[t]
    BY <1>2, <2>1
  <2> QED
    BY <2>1, <2>2 DEF ShunnedBelow
<1>10. CASE FlushFails
  BY <1>3, <1>10 DEF FlushFails
<1>11. CASE Halt
  BY <1>11 DEF Halt, ShunnedBelow
<1>12. CASE UNCHANGED segVars
  BY <1>12 DEF segVars, ShunnedBelow
<1> QED
  BY <1>5, <1>6, <1>7, <1>8, <1>9, <1>10, <1>11, <1>12 DEF StoreNext

LEMMA ShunnedStep ==
    TypeOK /\ AreasExclusive /\ BadSegmentsShunned /\ [StoreNext]_segVars
        => BadSegmentsShunned'
<1> SUFFICES ASSUME TypeOK, AreasExclusive, BadSegmentsShunned, [StoreNext]_segVars
             PROVE  BadSegmentsShunned'
  OBVIOUS
<1>1. OwnedBelow(NoSegs) /\ ShunnedBelow(NoSegs) /\ NoSegs \in Nat
  BY ExclusiveIsOwned, ShunnedIsBelow, DeviceAssumption
<1>2. ShunnedBelow(NoSegs)'
  BY <1>1, ShunnedBelowStep
<1>3. TypeOK'
  BY TypeStep
<1> QED
  BY <1>2, <1>3, ShunnedIsBelow, PTL

\* A segment whose erase failed never gets an object, a reservation or a second
\* try: get_segment enters it as bad and moves on for good, in every history of
\* failures.
THEOREM Shunned == SegSpec => []BadSegmentsShunned
<1>1. SegInit => BadSegmentsShunned
  BY DEF SegInit, BadSegmentsShunned
<1>2. TypeOK /\ AreasExclusive /\ BadSegmentsShunned /\ [StoreNext]_segVars
          => BadSegmentsShunned'
  BY ShunnedStep
<1> QED
  BY <1>1, <1>2, Typing, Exclusive, AnyClient, PTL DEF SegSpec
=============================================================================
