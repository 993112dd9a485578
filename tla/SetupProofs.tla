---------------------------- MODULE SetupProofs ----------------------------
(***************************************************************************)
(* Theorems about what mklogfs decides before it writes, for every set of   *)
(* arguments, every device and every width of an unsigned int.             *)
(***************************************************************************)
EXTENDS Setup, TLAPS

(* Powers of two                                                           *)

\* The powers of two a shift the program accepts can make.
PowerTable(k) ==
    /\ (k = 0 => 2^k = 1) /\ (k = 1 => 2^k = 2) /\ (k = 2 => 2^k = 4)
    /\ (k = 3 => 2^k = 8) /\ (k = 4 => 2^k = 16) /\ (k = 5 => 2^k = 32)
    /\ (k = 6 => 2^k = 64) /\ (k = 7 => 2^k = 128) /\ (k = 8 => 2^k = 256)
    /\ (k = 9 => 2^k = 512) /\ (k = 10 => 2^k = 1024) /\ (k = 11 => 2^k = 2048)
    /\ (k = 12 => 2^k = 4096) /\ (k = 13 => 2^k = 8192) /\ (k = 14 => 2^k = 16384)
    /\ (k = 15 => 2^k = 32768) /\ (k = 16 => 2^k = 65536) /\ (k = 17 => 2^k = 131072)
    /\ (k = 18 => 2^k = 262144) /\ (k = 19 => 2^k = 524288) /\ (k = 20 => 2^k = 1048576)
    /\ (k = 21 => 2^k = 2097152) /\ (k = 22 => 2^k = 4194304) /\ (k = 23 => 2^k = 8388608)
    /\ (k = 24 => 2^k = 16777216) /\ (k = 25 => 2^k = 33554432) /\ (k = 26 => 2^k = 67108864)
    /\ (k = 27 => 2^k = 134217728) /\ (k = 28 => 2^k = 268435456) /\ (k = 29 => 2^k = 536870912)
    /\ (k = 30 => 2^k = 1073741824)

LEMMA PowerValues ==
    ASSUME NEW k \in 0..30
    PROVE  PowerTable(k)
<1>0. k = 0 => 2^k = 1
  OBVIOUS
<1>1. k = 1 => 2^k = 2
  OBVIOUS
<1>2. k = 2 => 2^k = 4
  OBVIOUS
<1>3. k = 3 => 2^k = 8
  OBVIOUS
<1>4. k = 4 => 2^k = 16
  OBVIOUS
<1>5. k = 5 => 2^k = 32
  OBVIOUS
<1>6. k = 6 => 2^k = 64
  OBVIOUS
<1>7. k = 7 => 2^k = 128
  OBVIOUS
<1>8. k = 8 => 2^k = 256
  OBVIOUS
<1>9. k = 9 => 2^k = 512
  OBVIOUS
<1>10. k = 10 => 2^k = 1024
  OBVIOUS
<1>11. k = 11 => 2^k = 2048
  OBVIOUS
<1>12. k = 12 => 2^k = 4096
  OBVIOUS
<1>13. k = 13 => 2^k = 8192
  OBVIOUS
<1>14. k = 14 => 2^k = 16384
  OBVIOUS
<1>15. k = 15 => 2^k = 32768
  OBVIOUS
<1>16. k = 16 => 2^k = 65536
  OBVIOUS
<1>17. k = 17 => 2^k = 131072
  OBVIOUS
<1>18. k = 18 => 2^k = 262144
  OBVIOUS
<1>19. k = 19 => 2^k = 524288
  OBVIOUS
<1>20. k = 20 => 2^k = 1048576
  OBVIOUS
<1>21. k = 21 => 2^k = 2097152
  OBVIOUS
<1>22. k = 22 => 2^k = 4194304
  OBVIOUS
<1>23. k = 23 => 2^k = 8388608
  OBVIOUS
<1>24. k = 24 => 2^k = 16777216
  OBVIOUS
<1>25. k = 25 => 2^k = 33554432
  OBVIOUS
<1>26. k = 26 => 2^k = 67108864
  OBVIOUS
<1>27. k = 27 => 2^k = 134217728
  OBVIOUS
<1>28. k = 28 => 2^k = 268435456
  OBVIOUS
<1>29. k = 29 => 2^k = 536870912
  OBVIOUS
<1>30. k = 30 => 2^k = 1073741824
  OBVIOUS
<1> QED
  BY <1>0, <1>1, <1>2, <1>3, <1>4, <1>5, <1>6, <1>7, <1>8, <1>9,
     <1>10, <1>11, <1>12, <1>13, <1>14, <1>15, <1>16, <1>17, <1>18,
     <1>19, <1>20, <1>21, <1>22, <1>23, <1>24, <1>25, <1>26, <1>27,
     <1>28, <1>29, <1>30
     DEF PowerTable

LEMMA PowerNat ==
    ASSUME NEW k \in 0..30
    PROVE  2^k \in Nat /\ 2^k > 0
<1>1. PowerTable(k)
  BY PowerValues
<1> QED
  BY <1>1 DEF PowerTable

----------------------------------------------------------------------------
(* Types                                                                   *)

DeviceType == [kind : {"none", "reg", "blk", "mtd"}, size : Nat, told : Nat,
               erasesize : Nat, writesize : Nat]

SaidType == [buffer : {"junk", "yes"}, continue : Replies, demo : Replies]

\* What has not happened yet: nothing is counted before the geometry is settled,
\* nothing is erased and no segment handed out before the first superblock.  Once
\* settled, the shifts are in bounds.
Early == {"options", "open", "checks", "question", "demo", "sb1"}
EarlyInv ==
    /\ pc \in {"options", "open"} => segshift = 18 /\ writeshift = 0
    /\ pc \in {"options", "open", "checks"} => no_segs = 0
    /\ pc \in Early => lastseg = 0 /\ ~erased /\ sb_ofs[1] = 0 /\ sb_ofs[2] = 0
    /\ pc \in Settled => ShiftsOk(segshift, writeshift)

TypeInv == SetupTypeOK /\ dev \in DeviceType /\ EarlyInv

\* A number cut to a width.
LEMMA Cut ==
    ASSUME NEW n \in Nat, NEW w \in Nat \ {0}
    PROVE  n % w \in 0 .. w - 1 /\ n % w <= n
OBVIOUS

\* The sizes of flash, and the shifts computed from them.
LEMMA Log2Value ==
    ASSUME NEW n, Pow2(n)
    PROVE  Log2(n) \in 0..30 /\ 2^Log2(n) = n
BY DEF Pow2, Log2

LEMMA TypeInitial == SetupInit => TypeInv
<1> SUFFICES ASSUME SetupInit PROVE TypeInv
  OBVIOUS
<1>1. dev \in DeviceType
  BY DEF SetupInit, NoDevice, DeviceType
<1>2. EarlyInv
  BY DEF SetupInit, EarlyInv, Early, Settled, Started
<1>3. user \in [segshift : 0 .. U32 - 1, writeshift : 0 .. U32 - 1]
  BY SetupAssumption DEF SetupInit, UNSET
<1>4. flags \in [compress : BOOLEAN, interactive : BOOLEAN, quick : BOOLEAN]
  BY DEF SetupInit
<1>5. sb_ofs \in [1..2 -> Int] /\ journal_seg \in [1..2 -> Nat]
  BY DEF SetupInit
<1>6. segshift \in 0..255 /\ writeshift \in 0..255 /\ lastseg \in 0..no_segs
      /\ fssize \in Nat /\ no_segs \in 0 .. U32 - 1
      /\ no_journal_segs \in 0 .. U32 - 1 /\ bad_seg_reserve \in 0 .. U32 - 1
  BY SetupAssumption DEF SetupInit
<1>7. pc \in {"options", "open", "checks", "exited"} \cup Settled
      /\ answer \in {"junk", "yes", "no"} /\ erased \in BOOLEAN
  BY DEF SetupInit
<1>8. said \in SaidType
  BY DEF SetupInit, SaidType, Replies
<1>9. SetupTypeOK
  BY <1>3, <1>4, <1>5, <1>6, <1>7, <1>8 DEF SetupTypeOK, SaidType
<1> QED
  BY <1>1, <1>2, <1>9 DEF TypeInv

LEMMA OptionType ==
    ASSUME TypeInv, Option
    PROVE  TypeInv'
<1>1. user' \in [segshift : 0 .. U32 - 1, writeshift : 0 .. U32 - 1]
  <2>1. CASE UNCHANGED user
    BY <2>1 DEF TypeInv, SetupTypeOK
  <2>2. ASSUME NEW n \in SegShiftArgs, OptionS(n)
        PROVE  user' \in [segshift : 0 .. U32 - 1, writeshift : 0 .. U32 - 1]
    <3>1. n % U32 \in 0 .. U32 - 1
      BY SetupAssumption, Cut
    <3> QED
      BY <2>2, <3>1 DEF OptionS, TypeInv, SetupTypeOK
  <2>3. ASSUME NEW n \in WriteShiftArgs, OptionW(n)
        PROVE  user' \in [segshift : 0 .. U32 - 1, writeshift : 0 .. U32 - 1]
    <3>1. n % U32 \in 0 .. U32 - 1
      BY SetupAssumption, Cut
    <3> QED
      BY <2>3, <3>1 DEF OptionW, TypeInv, SetupTypeOK
  <2> QED
    BY <2>1, <2>2, <2>3 DEF Option
<1>2. no_journal_segs' \in 0 .. U32 - 1
  <2>1. \A n \in JournalArgs : n % U32 \in 0 .. U32 - 1
    BY SetupAssumption, Cut
  <2> QED
    BY <2>1 DEF Option, TypeInv, SetupTypeOK
<1>3. bad_seg_reserve' \in 0 .. U32 - 1
  <2>1. \A n \in ReserveArgs : n % U32 \in 0 .. U32 - 1
    BY SetupAssumption, Cut
  <2> QED
    BY <2>1 DEF Option, TypeInv, SetupTypeOK
<1>4. flags' \in [compress : BOOLEAN, interactive : BOOLEAN, quick : BOOLEAN]
  <2>1. flags \in [compress : BOOLEAN, interactive : BOOLEAN, quick : BOOLEAN]
    BY DEF TypeInv, SetupTypeOK
  <2>2. \/ flags' = flags
        \/ flags' = [flags EXCEPT !.compress = TRUE]
        \/ flags' = [flags EXCEPT !.interactive = FALSE]
        \/ flags' = [flags EXCEPT !.quick = TRUE]
    BY DEF Option
  <2> QED
    BY <2>1, <2>2, Zenon
<1>5. UNCHANGED <<pc, segshift, writeshift, deviceVars, consentVars, writeVars>>
  BY DEF Option, OptionS, OptionW
<1>6. SetupTypeOK'
  BY <1>1, <1>2, <1>3, <1>4, <1>5
  DEF TypeInv, SetupTypeOK, deviceVars, consentVars, writeVars
<1> QED
  BY <1>5, <1>6 DEF TypeInv, EarlyInv, ShiftsOk, deviceVars, consentVars, writeVars

\* Whatever the system tells of a size, it is a number.
LEMMA ToldType ==
    ASSUME NEW size \in Sizes
    PROVE  Told(size) \subseteq Nat
<1>1. size \in Nat /\ U32 \in Nat \ {0} /\ Sizes \subseteq Nat
  BY SetupAssumption
<1>2. size % U32 \in Nat
  BY <1>1, Cut
<1>3. ASSUME NEW t \in Told(size) PROVE t \in Nat
  <2>1. t = size % U32 \/ t = 0 \/ t \in Sizes
    BY DEF Told
  <2>2. t \in Sizes => t \in Nat
    BY <1>1
  <2>3. t = size % U32 => t \in Nat
    BY <1>2
  <2>4. t = 0 => t \in Nat
    OBVIOUS
  <2> QED
    BY <2>1, <2>2, <2>3, <2>4
<1> QED
  BY <1>3

LEMMA OpenType ==
    ASSUME TypeInv, NEW size \in Sizes,
           \/ \E kind \in {"reg", "blk"} : OpenBdev(kind, size)
           \/ \E e \in EraseSizes, w \in WriteSizes : OpenMtd(size, e, w)
    PROVE  TypeInv'
<1>1. size \in Nat /\ Told(size) \subseteq Nat
  BY SetupAssumption, ToldType
<1>2. ASSUME NEW kind \in {"reg", "blk"}, OpenBdev(kind, size)
      PROVE  TypeInv'
  <2>1. dev' \in DeviceType
    BY <1>1, <1>2 DEF OpenBdev, NoDevice, DeviceType
  <2>2. SetupTypeOK' /\ EarlyInv'
    BY <1>1, <1>2 DEF OpenBdev, TypeInv, SetupTypeOK, EarlyInv, Early, Settled, Started,
                      optionVars, consentVars, writeVars
  <2> QED
    BY <2>1, <2>2 DEF TypeInv
<1>3. ASSUME NEW e \in EraseSizes, NEW w \in WriteSizes, OpenMtd(size, e, w)
      PROVE  TypeInv'
  <2>1. e \in Nat /\ w \in Nat
    BY SetupAssumption
  <2>2. dev' \in DeviceType
    BY <1>1, <1>3, <2>1 DEF OpenMtd, DeviceType
  <2>3. segshift' \in 0..30 /\ writeshift' \in 0..30
    BY <1>3, Log2Value DEF OpenMtd
  <2>4. SetupTypeOK' /\ EarlyInv'
    BY <1>1, <1>3, <2>3 DEF OpenMtd, TypeInv, SetupTypeOK, EarlyInv, Early, Settled,
                            Started, consentVars, writeVars
  <2> QED
    BY <2>2, <2>4 DEF TypeInv
<1> QED
  BY <1>2, <1>3

\* mkfs() has its shifts from the user or from the device.
LEMMA ChosenType ==
    ASSUME TypeInv
    PROVE  ChosenSegshift \in 0..255 /\ ChosenWriteshift \in 0..255
<1>1. user.segshift \in Nat /\ user.writeshift \in Nat
  BY SetupAssumption DEF TypeInv, SetupTypeOK
<1>2. U8(user.segshift) \in 0..255 /\ U8(user.writeshift) \in 0..255
  BY <1>1 DEF U8
<1> QED
  BY <1>2 DEF TypeInv, SetupTypeOK, ChosenSegshift, ChosenWriteshift

\* The number of segments fits its width and the device.
LEMMA SegmentCount ==
    ASSUME NEW size \in Nat, NEW k \in 0..30
    PROVE  /\ (size \div 2^k) % U32 \in 0 .. U32 - 1
           /\ ((size \div 2^k) % U32) * 2^k \in Nat
           /\ ((size \div 2^k) % U32) * 2^k <= size
<1> DEFINE S == 2^k
           q == size \div S
           n == q % U32
<1>1. S \in Nat /\ S > 0
  BY PowerNat
<1> HIDE DEF S
<1>2. q \in Nat /\ q * S <= size
  BY <1>1
<1> HIDE DEF q
<1>3. n \in 0 .. U32 - 1 /\ n <= q
  BY <1>2, SetupAssumption, Cut
<1> HIDE DEF n
<1>4. n \in Nat
  BY <1>3, SetupAssumption
<1>5. n * S \in Nat /\ n * S <= q * S
  BY <1>1, <1>2, <1>3, <1>4
<1> QED
  BY <1>1, <1>2, <1>3, <1>5 DEF S, q, n

LEMMA GeometryType ==
    ASSUME TypeInv, Geometry
    PROVE  TypeInv'
<1>1. segshift' \in 0..30 /\ writeshift' \in 0..16
  BY ChosenType DEF Geometry, ShiftsOk, blockshift
<1>2. fssize \in Nat /\ lastseg = 0
  BY DEF TypeInv, SetupTypeOK, EarlyInv, Early, Geometry
<1>3. no_segs' \in 0 .. U32 - 1 /\ fssize' \in Nat
  BY <1>1, <1>2, SegmentCount DEF Geometry
<1>4. SetupTypeOK'
  BY <1>1, <1>2, <1>3, SetupAssumption
  DEF Geometry, TypeInv, SetupTypeOK, Settled, consentVars, writeVars
<1> QED
  BY <1>4 DEF Geometry, TypeInv, EarlyInv, Early, writeVars

LEMMA AskType ==
    ASSUME TypeInv, Question \/ DemoQuestion
    PROVE  TypeInv'
<1>1. PICK next \in {"demo", "sb1"}, q \in {"continue", "demo"}, b \in BOOLEAN :
         Ask(b, q, next)
  BY DEF Question, DemoQuestion, TypeInv, SetupTypeOK
<1>2. UNCHANGED <<optionVars, deviceVars, writeVars>> /\ pc' \in {"exited", next}
  BY <1>1 DEF Ask
<1>3. answer' \in {"junk", "yes", "no"} /\ said' \in SaidType
  <2>1. answer \in {"junk", "yes", "no"} /\ said \in SaidType
    BY DEF TypeInv, SetupTypeOK, SaidType
  <2>2. \/ UNCHANGED consentVars
        \/ \E word \in {"yes", "no"} : answer' = word /\ said' = [said EXCEPT ![q] = word]
        \/ answer' = answer /\ said' = [said EXCEPT ![q] = "nothing"]
    BY <1>1 DEF Ask, Scanf
  <2> QED
    BY <2>1, <2>2 DEF consentVars, SaidType, Replies
<1>4. lastseg = 0 /\ ~erased /\ sb_ofs[1] = 0 /\ sb_ofs[2] = 0
  BY DEF Question, DemoQuestion, TypeInv, EarlyInv, Early
<1>5. SetupTypeOK'
  BY <1>2, <1>3 DEF TypeInv, SetupTypeOK, SaidType, Settled, Started, optionVars, deviceVars,
                    writeVars
<1> QED
  <2>1. ShiftsOk(segshift, writeshift)
    BY DEF Question, DemoQuestion, TypeInv, EarlyInv, Settled, Started
  <2>2. pc' \notin {"options", "open", "checks"}
    BY <1>2
  <2>3. lastseg' = 0 /\ ~erased' /\ sb_ofs'[1] = 0 /\ sb_ofs'[2] = 0
        /\ ShiftsOk(segshift, writeshift)' /\ dev' = dev
    BY <1>2, <1>4, <2>1 DEF ShiftsOk, optionVars, deviceVars, writeVars
  <2> QED
    BY <1>5, <2>2, <2>3 DEF TypeInv, EarlyInv

\* Sizes and offsets are numbers once the geometry is settled.
LEMMA SegSizeType ==
    ASSUME TypeInv, pc \in Settled
    PROVE  /\ segshift \in 13..30 /\ writeshift \in 0..16 /\ writeshift <= segshift
           /\ SegSize \in Nat /\ SegSize >= 8192
<1>1. segshift \in 13..30 /\ writeshift \in 0..16 /\ writeshift <= segshift
  BY DEF TypeInv, SetupTypeOK, EarlyInv, ShiftsOk, blockshift
<1>2. segshift \in 0..30
  BY <1>1
<1>3. 2^segshift \in Nat
  BY <1>2, PowerNat
<1>4. 2^segshift >= 8192
  <2>1. PowerTable(segshift)
    BY <1>2, PowerValues
  <2> QED
    BY <1>1, <2>1 DEF PowerTable
<1> QED
  BY <1>1, <1>3, <1>4 DEF SegSize

LEMMA PrepareType ==
    ASSUME TypeInv, PrepareSb1 \/ MtdSb2 \/ BdevSb2 \/ PrepareJournal
    PROVE  TypeInv'
<1>1. pc \in Settled /\ SegSize \in Int
  <2>1. pc \in Settled
    BY DEF PrepareSb1, MtdSb2, BdevSb2, PrepareJournal, Settled, Started
  <2> QED
    BY <2>1, SegSizeType
<1>2. /\ UNCHANGED <<optionVars, deviceVars, consentVars>>
      /\ pc' \in {"sb2", "journal", "body", "exited"}
  BY DEF PrepareSb1, MtdSb2, BdevSb2, PrepareJournal
<1>3. lastseg \in 0..no_segs /\ no_segs \in Nat /\ no_journal_segs \in Nat
      /\ MaxBad \in Nat
  BY SetupAssumption DEF TypeInv, SetupTypeOK
<1>4. lastseg' \in 0..no_segs /\ erased' \in BOOLEAN
  <2>1. erased \in BOOLEAN
    BY DEF TypeInv, SetupTypeOK
  <2>2. CASE PrepareSb1
    BY <1>3, <2>2 DEF PrepareSb1, Take, InDevice
  <2>3. CASE PrepareJournal
    BY <1>3, <2>1, <2>3 DEF PrepareJournal
  <2>4. CASE MtdSb2 \/ BdevSb2
    BY <1>3, <2>1, <2>4 DEF MtdSb2, BdevSb2
  <2> QED
    BY <2>2, <2>3, <2>4
<1>5. sb_ofs' \in [1..2 -> Int]
  <2>1. sb_ofs \in [1..2 -> Int]
    BY DEF TypeInv, SetupTypeOK
  <2>2. CASE PrepareSb1
    <3>1. (lastseg' - 1) * SegSize \in Int
      BY <1>1, <1>3, <1>4
    <3> QED
      BY <2>1, <2>2, <3>1 DEF PrepareSb1
  <2>3. CASE MtdSb2
    <3>1. \A s \in Tried : (s + 1) * SegSize - SbTail \in Int
      <4>1. \A s \in Tried : s \in Int
        BY <1>3 DEF Tried
      <4> QED
        BY <1>1, <4>1 DEF SbTail
    <3> QED
      BY <2>1, <2>3, <3>1 DEF MtdSb2
  <2>4. CASE BdevSb2
    <3>1. (no_segs - 1) * SegSize - SbTail \in Int
      BY <1>1, <1>3 DEF SbTail
    <3> QED
      BY <2>1, <2>4, <3>1 DEF BdevSb2
  <2>5. CASE PrepareJournal
    BY <2>1, <2>5 DEF PrepareJournal
  <2> QED
    BY <2>2, <2>3, <2>4, <2>5
<1>6. journal_seg' \in [1..2 -> Nat]
  <2>1. CASE PrepareJournal
    <3>1. PICK n \in 0..MaxBad : journal_seg' = <<lastseg + n, lastseg' - 1>>
                                 /\ lastseg' = lastseg + n + no_journal_segs
      BY <2>1 DEF PrepareJournal
    <3>2. lastseg + n \in Nat /\ lastseg' - 1 \in Nat
      BY <1>3, <2>1, <3>1 DEF PrepareJournal
    <3> QED
      BY <3>1, <3>2
  <2>2. CASE ~PrepareJournal
    BY <2>2 DEF PrepareSb1, MtdSb2, BdevSb2, TypeInv, SetupTypeOK
  <2> QED
    BY <2>1, <2>2
<1>7. SetupTypeOK'
  BY <1>2, <1>4, <1>5, <1>6
  DEF TypeInv, SetupTypeOK, Settled, Started, optionVars, deviceVars, consentVars
<1>8. ShiftsOk(segshift, writeshift)' /\ dev' = dev
  BY <1>1, <1>2 DEF TypeInv, EarlyInv, ShiftsOk, optionVars, deviceVars
<1> QED
  BY <1>2, <1>7, <1>8 DEF TypeInv, EarlyInv, Early

\* The steps that only move on: an exit, the end of the options, of the journal
\* and of the body.
Moves ==
    UsageExit \/ OptionsEnd \/ OpenFails \/ GeometryFails \/ NoJournalSegs
        \/ JournalOverrun \/ WriteBody \/ PrepareFails

LEMMA MoveFrame ==
    ASSUME Moves
    PROVE  /\ UNCHANGED <<optionVars, deviceVars, consentVars, writeVars>>
           /\ \/ pc' = "exited"
              \/ pc = "options" /\ pc' = "open"
              \/ pc = "journal" /\ pc' = "body" /\ no_journal_segs = 0
              \/ pc = "journal" /\ pc' = "undefined"
              \/ pc = "body" /\ pc' = "super" /\ lastseg + 2 <= no_segs
BY DEF Moves, UsageExit, OptionsEnd, OpenFails, GeometryFails, NoJournalSegs,
       JournalOverrun, WriteBody, PrepareFails, Exit

LEMMA MoveType ==
    ASSUME TypeInv, Moves
    PROVE  TypeInv'
<1>1. UNCHANGED <<optionVars, deviceVars, consentVars, writeVars>>
  BY MoveFrame
<1>2. pc' \in {"exited", "open", "body", "undefined", "super"}
  BY MoveFrame
<1>3. pc' = "open" => pc = "options"
  BY MoveFrame
<1>4. pc' \in Settled => pc \in Settled
  BY MoveFrame DEF Settled, Started
<1>5. SetupTypeOK'
  BY <1>1, <1>2 DEF TypeInv, SetupTypeOK, Settled, Started, optionVars, deviceVars,
                    consentVars, writeVars
<1>6. EarlyInv'
  BY <1>1, <1>2, <1>3, <1>4
  DEF TypeInv, EarlyInv, Early, ShiftsOk, optionVars, deviceVars, writeVars
<1> QED
  BY <1>1, <1>5, <1>6 DEF TypeInv, deviceVars

LEMMA MakeSuperType ==
    ASSUME TypeInv, MakeSuper
    PROVE  TypeInv'
<1>1. bad_seg_reserve' \in 0 .. U32 - 1
  BY DEF MakeSuper, MaxOf, TypeInv, SetupTypeOK
<1>2. pc' = "done" /\ pc \in Settled
  BY DEF MakeSuper, Settled, Started
<1>3. UNCHANGED <<user, segshift, writeshift, no_journal_segs, flags, deviceVars,
                  consentVars, erased, lastseg, sb_ofs, journal_seg>>
  BY DEF MakeSuper
<1>4. SetupTypeOK'
  BY <1>1, <1>2, <1>3 DEF TypeInv, SetupTypeOK, Settled, Started, deviceVars, consentVars
<1> QED
  BY <1>2, <1>3, <1>4 DEF TypeInv, EarlyInv, Early, ShiftsOk, deviceVars

\* Every step is one of these.
LEMMA NextCases ==
    ASSUME SetupNext
    PROVE  \/ Option \/ Moves \/ Geometry \/ Question \/ DemoQuestion
           \/ PrepareSb1 \/ MtdSb2 \/ BdevSb2 \/ PrepareJournal \/ MakeSuper
           \/ \E size \in Sizes :
                 \/ \E kind \in {"reg", "blk"} : OpenBdev(kind, size)
                 \/ \E e \in EraseSizes, w \in WriteSizes : OpenMtd(size, e, w)
BY DEF SetupNext, Moves

LEMMA TypeStep == TypeInv /\ [SetupNext]_setupVars => TypeInv'
<1> SUFFICES ASSUME TypeInv, [SetupNext]_setupVars PROVE TypeInv'
  OBVIOUS
<1>1. CASE UNCHANGED setupVars
  BY <1>1 DEF setupVars, TypeInv, SetupTypeOK, EarlyInv, ShiftsOk
<1>2. CASE SetupNext
  BY <1>2, NextCases, OptionType, MoveType, OpenType, GeometryType, AskType, PrepareType,
     MakeSuperType
<1> QED
  BY <1>1, <1>2

LEMMA AlwaysTyped == SetupSpec => []TypeInv
<1>1. SetupInit => TypeInv
  BY TypeInitial
<1>2. TypeInv /\ [SetupNext]_setupVars => TypeInv'
  BY TypeStep
<1> QED
  BY <1>1, <1>2, PTL DEF SetupSpec

\* Every variable keeps its type and its width, whatever arguments come: options
\* cut to 32 bits and shifts to 8, a segment number never past the device.
THEOREM SetupTyping == SetupSpec => []SetupTypeOK
<1>1. TypeInv => SetupTypeOK
  BY DEF TypeInv
<1> QED
  BY <1>1, AlwaysTyped, PTL

----------------------------------------------------------------------------
(* Consent                                                                 *)

Permitted ==
    /\ flags.interactive => HeardContinue = "yes"
    /\ flags.quick => HeardDemo = "yes"

\* What answer[] holds before the second question.
HeardBefore == IF flags.interactive THEN HeardContinue ELSE said.buffer

\* answer[] holds what it held at first or what was heard; who comes past a
\* question that is put has heard a yes to it.
ConsentInv ==
    /\ pc \in {"options", "open", "checks", "question"} => answer = said.buffer
    /\ pc = "demo" =>
          /\ answer = HeardBefore
          /\ flags.interactive => HeardContinue = "yes"
    /\ pc \in Started \/ erased => Permitted

\* scanf takes down what is heard.
LEMMA ScanfHears ==
    ASSUME said \in SaidType, NEW q \in {"continue", "demo"}, Scanf(q)
    PROVE  /\ answer' = Heard(said'[q], answer)
           /\ said'.buffer = said.buffer
           /\ q = "demo" => said'.continue = said.continue
<1>1. \/ \E word \in {"yes", "no"} : answer' = word /\ said' = [said EXCEPT ![q] = word]
      \/ answer' = answer /\ said' = [said EXCEPT ![q] = "nothing"]
  BY DEF Scanf
<1> QED
  BY <1>1 DEF SaidType, Heard

LEMMA AskConsent ==
    ASSUME TypeInv, ConsentInv, Question \/ DemoQuestion
    PROVE  ConsentInv'
<1>1. /\ flags' = flags /\ ~erased' /\ said \in SaidType
      /\ flags.interactive \in BOOLEAN /\ flags.quick \in BOOLEAN
  BY DEF Question, DemoQuestion, Ask, optionVars, writeVars, TypeInv, SetupTypeOK, SaidType,
         EarlyInv, Early
<1>2. CASE Question
  <2>1. Ask(flags.interactive, "continue", "demo") /\ answer = said.buffer
    BY <1>2 DEF Question, ConsentInv
  <2>2. SUFFICES ASSUME pc' = "demo"
                 PROVE  answer' = HeardBefore' /\ (flags.interactive => HeardContinue' = "yes")
    BY <1>1, <2>1 DEF Ask, ConsentInv, Started
  <2>3. CASE flags.interactive
    <3>1. Scanf("continue") /\ answer' = "yes"
      BY <2>1, <2>2, <2>3 DEF Ask, Agreed
    <3>2. answer' = HeardContinue'
      BY <1>1, <2>1, <3>1, ScanfHears DEF HeardContinue
    <3> QED
      BY <1>1, <2>3, <3>1, <3>2 DEF HeardBefore
  <2>4. CASE ~flags.interactive
    BY <1>1, <2>1, <2>4 DEF Ask, consentVars, HeardBefore
  <2> QED
    BY <2>3, <2>4
<1>3. CASE DemoQuestion
  <2>1. Ask(flags.quick, "demo", "sb1") /\ answer = HeardBefore
        /\ (flags.interactive => HeardContinue = "yes")
    BY <1>3 DEF DemoQuestion, ConsentInv
  <2>2. SUFFICES ASSUME pc' = "sb1" PROVE Permitted'
    BY <1>1, <2>1 DEF Ask, ConsentInv, Started
  <2>3. CASE flags.quick
    <3>1. Scanf("demo") /\ answer' = "yes"
      BY <2>1, <2>2, <2>3 DEF Ask, Agreed
    <3>2. /\ answer' = Heard(said'.demo, answer)
          /\ said'.buffer = said.buffer /\ said'.continue = said.continue
      BY <1>1, <3>1, ScanfHears
    <3>3. HeardContinue' = HeardContinue /\ HeardBefore' = HeardBefore
      BY <1>1, <3>2 DEF HeardContinue, HeardBefore, Heard
    <3>4. HeardDemo' = answer'
      BY <2>1, <3>2, <3>3 DEF HeardDemo, HeardBefore
    <3> QED
      BY <1>1, <2>1, <3>1, <3>3, <3>4 DEF Permitted
  <2>4. CASE ~flags.quick
    <3>1. said' = said
      BY <2>1, <2>4 DEF Ask, consentVars
    <3> QED
      BY <1>1, <2>1, <2>4, <3>1 DEF Permitted, HeardContinue
  <2> QED
    BY <2>3, <2>4
<1> QED
  BY <1>2, <1>3

\* Steps that neither ask nor change what was asked for.
LEMMA ConsentStays ==
    ASSUME ConsentInv, UNCHANGED <<flags, answer, said>>, erased' => erased \/ pc \in Started,
           pc' # "demo" \/ pc = "demo", pc' \in Started => pc \in Started,
           pc' \in {"options", "open", "checks", "question"} =>
               pc \in {"options", "open", "checks", "question"}
    PROVE  ConsentInv'
BY DEF ConsentInv, Permitted, HeardBefore, HeardContinue, HeardDemo, Heard

LEMMA ConsentStep == TypeInv /\ ConsentInv /\ [SetupNext]_setupVars => ConsentInv'
<1> SUFFICES ASSUME TypeInv, ConsentInv, [SetupNext]_setupVars PROVE ConsentInv'
  OBVIOUS
<1>1. CASE UNCHANGED setupVars
  BY <1>1, ConsentStays DEF setupVars
<1>2. CASE Option
  <2>1. ~erased /\ pc = "options"
    BY <1>2 DEF Option, TypeInv, EarlyInv, Early
  <2> QED
    BY <1>2, <2>1 DEF Option, ConsentInv, Started, consentVars, writeVars
<1>3. CASE Moves
  <2>1. UNCHANGED <<flags, answer, said, erased>>
    BY <1>3, MoveFrame DEF optionVars, consentVars, writeVars
  <2>2. /\ pc' # "demo" /\ (pc' \in Started => pc \in Started)
        /\ pc' \in {"options", "open", "checks", "question"} => pc = "options"
    BY <1>3, MoveFrame DEF Started
  <2> QED
    BY <2>1, <2>2, ConsentStays
<1>4. ASSUME NEW size \in Sizes,
             \/ \E kind \in {"reg", "blk"} : OpenBdev(kind, size)
             \/ \E e \in EraseSizes, w \in WriteSizes : OpenMtd(size, e, w)
      PROVE  ConsentInv'
  <2>1. UNCHANGED <<flags, answer, said, erased>> /\ pc = "open" /\ pc' = "checks"
    BY <1>4 DEF OpenBdev, OpenMtd, optionVars, consentVars, writeVars
  <2> QED
    BY <2>1, ConsentStays DEF Started
<1>5. CASE Geometry
  <2>1. UNCHANGED <<flags, answer, said, erased>> /\ pc = "checks" /\ pc' = "question"
    BY <1>5 DEF Geometry, consentVars, writeVars
  <2> QED
    BY <2>1, ConsentStays DEF Started
<1>6. CASE PrepareSb1 \/ MtdSb2 \/ BdevSb2 \/ PrepareJournal \/ MakeSuper
  <2>1. UNCHANGED <<flags, answer, said>> /\ pc \in Started
        /\ pc' \notin {"options", "open", "checks", "question", "demo"}
    BY <1>6 DEF PrepareSb1, MtdSb2, BdevSb2, PrepareJournal, MakeSuper, Started,
                optionVars, consentVars
  <2> QED
    BY <2>1, ConsentStays
<1> QED
  BY <1>1, <1>2, <1>3, <1>4, <1>5, <1>6, NextCases, AskConsent

\* get_segment is reached only past the questions of mkfs(): each one the flags
\* ask for has heard a yes, typed at that very question or, where the input had
\* ended, found in answer[], whatever that held when the program started.
THEOREM Consent == SetupSpec => []ConsentFirst
<1>1. SetupInit => ConsentInv
  BY DEF SetupInit, ConsentInv, Started
<1>2. TypeInv /\ ConsentInv /\ [SetupNext]_setupVars => ConsentInv'
  BY ConsentStep
<1>3. ConsentInv => ConsentFirst
  BY DEF ConsentInv, ConsentFirst, Permitted
<1> QED
  BY <1>1, <1>2, <1>3, AlwaysTyped, PTL DEF SetupSpec

----------------------------------------------------------------------------
(* Geometry                                                                *)

\* The shifts the device asks for.
AskedOfDevice(ss, ws) ==
    /\ ss \in 0..30 /\ ws \in 0..30
    /\ 2^ss = IF dev.kind = "mtd" THEN dev.erasesize ELSE 2^18
    /\ 2^ws = IF dev.kind = "mtd" THEN dev.writesize ELSE 1

Super ==
    [filesystem_size |-> fssize, segment_shift |-> segshift,
     block_shift |-> blockshift, write_shift |-> writeshift,
     bad_seg_reserve |-> bad_seg_reserve, super_ofs |-> sb_ofs]

\* What is settled stays so, and the superblock says it.
GeometryInv ==
    /\ pc = "checks" => fssize <= dev.told /\ AskedOfDevice(segshift, writeshift)
    /\ pc \in Settled => fssize = no_segs * SegSize /\ fssize <= dev.told
    /\ UserShiftsObeyed
    /\ \/ ds = NoSuper
       \/ pc = "done" /\ ds = Super /\ bad_seg_reserve >= no_journal_segs

\* The variables the geometry is about.
geometryVars == <<user, segshift, writeshift, dev, fssize, no_segs>>

LEMMA GeometryStays ==
    ASSUME GeometryInv, UNCHANGED <<geometryVars, ds>>,
           pc' \in Settled => pc \in Settled, pc' # "checks", pc # "done"
    PROVE  GeometryInv'
<1>1. ds' = NoSuper
  BY DEF GeometryInv
<1>2. UserShiftsObeyed'
  BY DEF GeometryInv, UserShiftsObeyed, SegSize, geometryVars, Given, UNSET
<1> QED
  BY <1>1, <1>2 DEF GeometryInv, geometryVars, SegSize

LEMMA SettleGeometry ==
    ASSUME TypeInv, GeometryInv, Geometry
    PROVE  GeometryInv'
<1>1. segshift' = ChosenSegshift /\ writeshift' = ChosenWriteshift
      /\ segshift' \in 0..30 /\ writeshift' \in 0..16
  BY ChosenType DEF Geometry, ShiftsOk, blockshift
<1>2. fssize \in Nat /\ user.segshift \in 0 .. U32 - 1 /\ user.writeshift \in 0 .. U32 - 1
  BY DEF TypeInv, SetupTypeOK
<1>3. fssize' = no_segs' * SegSize' /\ fssize' <= fssize
  BY <1>1, <1>2, SegmentCount DEF Geometry, SegSize
<1>4. fssize' <= dev'.told
  <2>1. fssize <= dev.told /\ dev' = dev /\ dev.told \in Nat
    BY DEF Geometry, GeometryInv, TypeInv, DeviceType
  <2>2. fssize' \in Nat
    BY <1>1, <1>2, SegmentCount DEF Geometry
  <2> QED
    BY <1>2, <1>3, <2>1, <2>2
<1>5. UserShiftsObeyed'
  <2>1. user' = user /\ dev' = dev /\ AskedOfDevice(segshift, writeshift)
    BY DEF Geometry, GeometryInv
  <2>2. Given(user.segshift) => segshift' = user.segshift
    BY <1>1, <1>2, SetupAssumption DEF Given, ChosenSegshift, UNSET, U8
  <2>3. Given(user.writeshift) => writeshift' = user.writeshift
    BY <1>1, <1>2, SetupAssumption DEF Given, ChosenWriteshift, UNSET, U8
  <2>4. user.segshift = UNSET => segshift' = segshift
    BY <1>1 DEF ChosenSegshift
  <2>5. user.writeshift = UNSET => writeshift' = writeshift
    BY <1>1 DEF ChosenWriteshift
  <2>6. user.segshift = UNSET =>
          2^(segshift') = IF dev.kind = "mtd" THEN dev.erasesize ELSE 2^18
    BY <2>1, <2>4 DEF AskedOfDevice
  <2>7. user.writeshift = UNSET =>
          2^(writeshift') = IF dev.kind = "mtd" THEN dev.writesize ELSE 1
    BY <2>1, <2>5 DEF AskedOfDevice
  <2> QED
    BY <2>1, <2>2, <2>3, <2>6, <2>7 DEF UserShiftsObeyed, SegSize, Given, UNSET
<1>6. ds' = NoSuper /\ pc' = "question"
  BY DEF Geometry, writeVars, GeometryInv
<1> QED
  BY <1>3, <1>4, <1>5, <1>6 DEF GeometryInv

LEMMA OpenGeometry ==
    ASSUME TypeInv, GeometryInv, NEW size \in Sizes,
           \/ \E kind \in {"reg", "blk"} : OpenBdev(kind, size)
           \/ \E e \in EraseSizes, w \in WriteSizes : OpenMtd(size, e, w)
    PROVE  GeometryInv'
<1>1. size \in Nat /\ Told(size) \subseteq Nat
  BY SetupAssumption, ToldType
<1>2. pc' = "checks" /\ ds' = NoSuper
  BY DEF OpenBdev, OpenMtd, GeometryInv, writeVars
<1>3. fssize' <= dev'.told /\ AskedOfDevice(segshift, writeshift)'
  <2>1. ASSUME NEW kind \in {"reg", "blk"}, OpenBdev(kind, size)
        PROVE  fssize' <= dev'.told /\ AskedOfDevice(segshift, writeshift)'
    <3>1. dev'.kind # "mtd" /\ dev'.told = size /\ fssize' = size
      BY <2>1 DEF OpenBdev, NoDevice
    <3>2. segshift' = 18 /\ writeshift' = 0
      BY <2>1 DEF OpenBdev, TypeInv, EarlyInv, optionVars
    <3>3. 2^(writeshift') = 1 /\ 2^(segshift') = 2^18
      BY <3>2
    <3> QED
      BY <1>1, <3>1, <3>2, <3>3 DEF AskedOfDevice
  <2>2. ASSUME NEW e \in EraseSizes, NEW w \in WriteSizes, OpenMtd(size, e, w)
        PROVE  fssize' <= dev'.told /\ AskedOfDevice(segshift, writeshift)'
    <3>1. dev'.kind = "mtd" /\ fssize' \in Told(size) /\ dev'.told = fssize'
          /\ dev'.erasesize = e /\ dev'.writesize = w
      BY <2>2 DEF OpenMtd
    <3>2. segshift' \in 0..30 /\ 2^(segshift') = e
          /\ writeshift' \in 0..30 /\ 2^(writeshift') = w
      BY <2>2, Log2Value DEF OpenMtd
    <3> QED
      BY <1>1, <3>1, <3>2 DEF AskedOfDevice
  <2> QED
    BY <2>1, <2>2
<1> QED
  BY <1>2, <1>3 DEF GeometryInv, UserShiftsObeyed, Settled, Started

LEMMA GeometryStep == TypeInv /\ GeometryInv /\ [SetupNext]_setupVars => GeometryInv'
<1> SUFFICES ASSUME TypeInv, GeometryInv, [SetupNext]_setupVars PROVE GeometryInv'
  OBVIOUS
<1>1. CASE UNCHANGED setupVars
  <2>1. UserShiftsObeyed'
    BY <1>1 DEF setupVars, GeometryInv, UserShiftsObeyed, SegSize, Given, UNSET
  <2> QED
    BY <1>1, <2>1 DEF setupVars, GeometryInv, SegSize, AskedOfDevice, Super, blockshift
<1>2. CASE Option
  <2>1. pc' = "options" /\ ds' = NoSuper
    BY <1>2 DEF Option, writeVars, GeometryInv
  <2> QED
    BY <2>1 DEF GeometryInv, UserShiftsObeyed, Settled, Started
<1>3. CASE Moves
  <2>1. UNCHANGED <<geometryVars, ds>> /\ pc' # "checks"
        /\ (pc' \in Settled => pc \in Settled)
    BY <1>3, MoveFrame DEF geometryVars, optionVars, deviceVars, writeVars, Settled, Started
  <2>2. pc # "done"
    BY <1>3 DEF Moves, UsageExit, OptionsEnd, OpenFails, GeometryFails, NoJournalSegs,
                JournalOverrun, WriteBody, PrepareFails
  <2> QED
    BY <2>1, <2>2, GeometryStays
<1>4. CASE Question \/ DemoQuestion
  <2>1. UNCHANGED <<geometryVars, ds>> /\ pc' # "checks" /\ pc # "done" /\ pc \in Settled
    BY <1>4 DEF Question, DemoQuestion, Ask, geometryVars, optionVars, deviceVars,
                writeVars, Settled
  <2> QED
    BY <2>1, GeometryStays
<1>5. CASE PrepareSb1 \/ MtdSb2 \/ BdevSb2 \/ PrepareJournal
  <2>1. UNCHANGED <<geometryVars, ds>> /\ pc' # "checks" /\ pc # "done" /\ pc \in Settled
    BY <1>5 DEF PrepareSb1, MtdSb2, BdevSb2, PrepareJournal, geometryVars, optionVars,
                deviceVars, Settled, Started
  <2> QED
    BY <2>1, GeometryStays
<1>6. CASE MakeSuper
  <2>1. UNCHANGED geometryVars /\ pc' = "done" /\ pc \in Settled
    BY <1>6 DEF MakeSuper, geometryVars, deviceVars, Settled, Started
  <2>2. ds' = Super' /\ bad_seg_reserve' >= no_journal_segs'
    BY <1>6 DEF MakeSuper, Super, MaxOf, deviceVars, blockshift, TypeInv, SetupTypeOK
  <2>3. UserShiftsObeyed'
    BY <2>1 DEF GeometryInv, UserShiftsObeyed, SegSize, geometryVars, Given, UNSET
  <2> QED
    BY <2>1, <2>2, <2>3 DEF GeometryInv, SegSize, geometryVars
<1> QED
  BY <1>1, <1>2, <1>3, <1>4, <1>5, <1>6, NextCases, SettleGeometry, OpenGeometry

LEMMA AlwaysGeometry == SetupSpec => []GeometryInv
<1>1. SetupInit => GeometryInv
  BY DEF SetupInit, GeometryInv, UserShiftsObeyed, Settled, Started
<1>2. TypeInv /\ GeometryInv /\ [SetupNext]_setupVars => GeometryInv'
  BY GeometryStep
<1> QED
  BY <1>1, <1>2, AlwaysTyped, PTL DEF SetupSpec

\* The geometry is one the object store can work on: segments hold a header and
\* a block, consist of whole writes and lie within the size the system told, in
\* memory and in the superblock make_super writes, however options and sizes are
\* cut and whatever sysfs says.
THEOREM Sound == SetupSpec => []GeometrySound
<1>1. TypeInv /\ GeometryInv => GeometrySound
  <2> SUFFICES ASSUME TypeInv, GeometryInv PROVE GeometrySound
    OBVIOUS
  <2>1. ASSUME pc \in Settled
        PROVE  /\ SegHeader + ObjHeader + 2^blockshift <= SegSize
               /\ SegSize % 2^writeshift = 0
               /\ fssize = no_segs * SegSize
               /\ fssize <= dev.told
    <3>1. segshift \in 0..30 /\ writeshift \in 0..16 /\ writeshift <= segshift
          /\ SegSize \in Nat /\ SegSize >= 8192
      BY <2>1, SegSizeType
    <3>2. SegSize % 2^writeshift = 0
      <4>1. segshift \in 0..30 /\ writeshift \in 0..30
        BY <3>1
      <4>2. PowerTable(segshift) /\ PowerTable(writeshift)
        BY <4>1, PowerValues
      <4> QED
        BY <3>1, <4>2 DEF PowerTable, SegSize
    <3>3. 2^blockshift = 4096
      BY DEF blockshift
    <3> QED
      BY <2>1, <3>1, <3>2, <3>3 DEF GeometryInv, SegHeader, ObjHeader
  <2>2. ASSUME ds # NoSuper
        PROVE  /\ ds.filesystem_size = no_segs * 2^ds.segment_shift
               /\ dev.told <= dev.size => ds.filesystem_size <= dev.size
               /\ ds.bad_seg_reserve >= no_journal_segs
    <3>1. pc = "done" /\ ds = Super /\ bad_seg_reserve >= no_journal_segs
      BY <2>2 DEF GeometryInv
    <3>2. ds.filesystem_size = fssize /\ ds.segment_shift = segshift
          /\ ds.bad_seg_reserve = bad_seg_reserve
      BY <3>1 DEF Super
    <3>3. fssize = no_segs * SegSize /\ fssize <= dev.told
      BY <3>1, <2>1 DEF Settled, Started
    <3>4. fssize \in Nat /\ dev.told \in Nat /\ dev.size \in Nat
      BY DEF TypeInv, SetupTypeOK, DeviceType
    <3>5. dev.told <= dev.size => ds.filesystem_size <= dev.size
      BY <3>2, <3>3, <3>4
    <3> QED
      BY <3>1, <3>2, <3>3, <3>5 DEF SegSize
  <2> QED
    BY <2>1, <2>2 DEF GeometrySound
<1> QED
  BY <1>1, AlwaysTyped, AlwaysGeometry, PTL

\* What the user says of the shifts is obeyed, whichever way the options are
\* ordered and whatever __open_device found out.
THEOREM Obeyed == SetupSpec => []UserShiftsObeyed
<1>1. GeometryInv => UserShiftsObeyed
  BY DEF GeometryInv
<1> QED
  BY <1>1, AlwaysGeometry, PTL

----------------------------------------------------------------------------
(* The places of the superblocks and of the journal                        *)

\* A superblock takes a number of whole writes and fits a segment.
LEMMA SecSizeBound ==
    ASSUME TypeInv, pc \in Settled
    PROVE  /\ SecSize \in Nat /\ SecSize <= SegSize
           /\ writeshift <= 12 => SecSize <= SbTail
<1>1. segshift \in 0..30 /\ writeshift \in 0..30 /\ writeshift <= segshift
      /\ writeshift <= 16 /\ SegSize >= 8192 /\ SegSize \in Nat
  BY SegSizeType
<1>2. PowerTable(segshift) /\ PowerTable(writeshift)
  BY <1>1, PowerValues
<1> DEFINE w == 2^writeshift
<1>3. w \in Nat /\ w > 0 /\ w <= SegSize
  BY <1>1, <1>2 DEF PowerTable, SegSize
<1>4. /\ w \in {1, 2, 4, 8, 16, 32, 64, 128, 256} \/ w \in {512, 1024, 2048, 4096}
         \/ w \in {8192, 16384, 32768, 65536}
      /\ writeshift <= 12 => w <= 4096
  BY <1>1, <1>2 DEF PowerTable
<1>5. SecSize = ((256 + w - 1) \div w) * w
  BY DEF SecSize, SuperSize
<1> HIDE DEF w
<1>6. CASE w \in {1, 2, 4, 8, 16, 32, 64, 128, 256}
  <2>1. SecSize = 256
    BY <1>5, <1>6
  <2> QED
    BY <1>1, <2>1 DEF SbTail
<1>7. CASE w \in {512, 1024, 2048, 4096} \/ w \in {8192, 16384, 32768, 65536}
  <2>1. SecSize = w
    BY <1>5, <1>7
  <2> QED
    BY <1>3, <1>4, <2>1 DEF SbTail
<1> QED
  BY <1>4, <1>6, <1>7

\* Where mtd_prepare_sb and bdev_prepare_sb put the second superblock.
Sb2Place ==
    IF dev.kind = "mtd"
    THEN /\ no_segs >= TailWindow
         /\ \E s \in no_segs - 1 - MaxBad .. no_segs - 1 :
               sb_ofs[2] = (s + 1) * SegSize - SbTail
    ELSE sb_ofs[2] = (no_segs - 1) * SegSize - SbTail

\* The first superblock is in the last segment handed out until the journal comes;
\* the journal follows it and ends where the next segment starts.
PlaceInv ==
    /\ pc \in {"sb2", "journal"} =>
          /\ lastseg \in 1 .. MaxBad + 1
          /\ sb_ofs[1] = (lastseg - 1) * SegSize
    /\ pc = "sb2" => sb_ofs[2] = 0
    /\ pc \in {"journal", "body", "super", "done"} => Sb2Place
    /\ pc \in {"body", "super", "done"} /\ no_journal_segs \in 1 .. JOURNAL_SEGS =>
          /\ lastseg <= 2 * MaxBad + 1 + no_journal_segs
          /\ journal_seg[2] + 1 = lastseg
          /\ \E n \in Nat : n < journal_seg[1] /\ sb_ofs[1] = n * SegSize
    /\ pc \in {"super", "done"} => lastseg + 2 <= no_segs

\* With fewer segments than the window the u32 difference is larger than any of
\* them: a segment is tried only on a device that has as many as the window.
LEMMA TriedFacts ==
    ASSUME TypeInv, NEW s \in Tried
    PROVE  s \in no_segs - 1 - MaxBad .. no_segs - 1 /\ no_segs >= TailWindow
<1>1. no_segs \in 0 .. U32 - 1 /\ U32 \in Nat /\ U32 > 256 /\ MaxBad \in Nat
  BY SetupAssumption DEF TypeInv, SetupTypeOK
<1>2. s \in no_segs - 1 - MaxBad .. no_segs - 1 /\ s > (no_segs - 64) % U32
  BY DEF Tried, TailWindow
<1>3. no_segs < 64 => (no_segs - 64) % U32 = no_segs - 64 + U32
  BY <1>1
<1> QED
  BY <1>1, <1>2, <1>3 DEF TailWindow

LEMMA SecondPlace ==
    ASSUME TypeInv, PlaceInv, MtdSb2 \/ BdevSb2
    PROVE  PlaceInv'
<1>1. pc = "sb2" /\ lastseg \in 1 .. MaxBad + 1 /\ sb_ofs[1] = (lastseg - 1) * SegSize
      /\ sb_ofs[2] = 0
  BY DEF MtdSb2, BdevSb2, PlaceInv
<1>2. pc' \in {"journal", "exited"} /\ lastseg' = lastseg /\ SegSize' = SegSize
      /\ no_segs' = no_segs /\ dev' = dev
  BY DEF MtdSb2, BdevSb2, SegSize, optionVars, deviceVars
<1>3. sb_ofs \in [1..2 -> Int] /\ SegSize \in Nat /\ MaxBad \in Nat
  BY <1>1, SegSizeType, SetupAssumption DEF TypeInv, SetupTypeOK, Settled, Started
<1>4. sb_ofs'[1] = sb_ofs[1]
  BY <1>3 DEF MtdSb2, BdevSb2
<1>5. pc' = "journal" => Sb2Place'
  <2>1. CASE BdevSb2
    BY <1>2, <1>3, <2>1 DEF BdevSb2, Sb2Place
  <2>2. CASE MtdSb2
    <3> SUFFICES ASSUME pc' = "journal" PROVE Sb2Place'
      OBVIOUS
    <3>1. sb_ofs' # sb_ofs
      <4>1. sb_ofs'[2] > sb_ofs[1]
        BY <2>2 DEF MtdSb2, Sb2Ok
      <4>2. lastseg - 1 \in Nat
        BY <1>1, <1>3
      <4>3. (lastseg - 1) * SegSize \in Nat
        BY <1>3, <4>2
      <4>4. sb_ofs[1] \in Nat
        BY <1>1, <4>3
      <4>5. ~(0 > sb_ofs[1])
        BY <4>4
      <4> QED
        BY <1>1, <4>1, <4>5
    <3>2. PICK s \in Tried : sb_ofs' = [sb_ofs EXCEPT ![2] = (s + 1) * SegSize - SbTail]
      BY <2>2, <3>1 DEF MtdSb2
    <3>3. sb_ofs'[2] = (s + 1) * SegSize - SbTail
      BY <1>3, <3>2
    <3>4. s \in no_segs - 1 - MaxBad .. no_segs - 1 /\ no_segs >= TailWindow
      BY TriedFacts
    <3> QED
      BY <1>2, <2>2, <3>3, <3>4 DEF Sb2Place, MtdSb2
  <2> QED
    BY <2>1, <2>2
<1> QED
  BY <1>1, <1>2, <1>4, <1>5 DEF PlaceInv

LEMMA JournalPlace ==
    ASSUME TypeInv, PlaceInv, PrepareJournal
    PROVE  PlaceInv'
<1>1. pc = "journal" /\ lastseg \in 1 .. MaxBad + 1 /\ Sb2Place
      /\ sb_ofs[1] = (lastseg - 1) * SegSize
  BY DEF PrepareJournal, PlaceInv
<1>2. pc' = "body" /\ UNCHANGED <<dev, no_segs, sb_ofs, SegSize, no_journal_segs>>
  BY DEF PrepareJournal, SegSize, optionVars, deviceVars
<1>3. Sb2Place'
  BY <1>1, <1>2 DEF Sb2Place
<1>4. PICK n \in 0..MaxBad : /\ lastseg' = lastseg + n + no_journal_segs
                             /\ journal_seg' = <<lastseg + n, lastseg' - 1>>
  BY DEF PrepareJournal
<1>5. MaxBad \in Nat /\ no_journal_segs \in 1..JOURNAL_SEGS
  BY SetupAssumption DEF PrepareJournal
<1>6. journal_seg'[1] = lastseg + n /\ journal_seg'[2] = lastseg' - 1
  BY <1>4
<1>7. lastseg' <= 2 * MaxBad + 1 + no_journal_segs /\ journal_seg'[2] + 1 = lastseg'
      /\ lastseg - 1 \in Nat /\ lastseg - 1 < journal_seg'[1]
  BY <1>1, <1>4, <1>5, <1>6 DEF JOURNAL_SEGS
<1>8. \E k \in Nat : k < journal_seg'[1] /\ sb_ofs'[1] = k * SegSize'
  BY <1>1, <1>2, <1>7
<1> QED
  BY <1>2, <1>3, <1>7, <1>8 DEF PlaceInv

LEMMA PlaceStep == TypeInv /\ PlaceInv /\ [SetupNext]_setupVars => PlaceInv'
<1> SUFFICES ASSUME TypeInv, PlaceInv, [SetupNext]_setupVars PROVE PlaceInv'
  OBVIOUS
<1> DEFINE Late == {"sb2", "journal", "body", "super", "done"}
<1>1. CASE UNCHANGED setupVars
  <2>1. UNCHANGED <<pc, lastseg, sb_ofs, SegSize, no_journal_segs, journal_seg, no_segs, dev>>
    BY <1>1 DEF setupVars, SegSize
  <2>2. Sb2Place' <=> Sb2Place
    BY <2>1 DEF Sb2Place
  <2> QED
    BY <2>1, <2>2 DEF PlaceInv
<1>2. CASE pc' \notin Late
  BY <1>2 DEF PlaceInv
<1>3. CASE Moves /\ pc' \in Late
  <2>1. UNCHANGED <<lastseg, sb_ofs, SegSize, no_journal_segs, journal_seg, no_segs, dev>>
    BY <1>3, MoveFrame DEF SegSize, optionVars, deviceVars, writeVars
  <2>2. \/ pc = "journal" /\ pc' = "body" /\ no_journal_segs = 0
        \/ pc = "body" /\ pc' = "super" /\ lastseg + 2 <= no_segs
    BY <1>3, MoveFrame
  <2>3. Sb2Place' <=> Sb2Place
    BY <2>1 DEF Sb2Place
  <2>4. CASE pc = "journal"
    BY <2>1, <2>2, <2>3, <2>4 DEF PlaceInv
  <2>5. CASE pc = "body"
    BY <2>1, <2>2, <2>3, <2>5 DEF PlaceInv
  <2> QED
    BY <2>2, <2>4, <2>5
<1>4. CASE PrepareSb1
  <2>1. pc = "sb1" /\ lastseg = 0 /\ sb_ofs[2] = 0 /\ sb_ofs \in [1..2 -> Int]
        /\ MaxBad \in Nat
    BY <1>4, SetupAssumption DEF PrepareSb1, TypeInv, SetupTypeOK, EarlyInv, Early
  <2>2. pc' = "sb2" /\ SegSize' = SegSize /\ lastseg' \in 1 .. MaxBad + 1
    BY <1>4, <2>1 DEF PrepareSb1, Take, SegSize, optionVars
  <2>3. sb_ofs'[1] = (lastseg' - 1) * SegSize /\ sb_ofs'[2] = 0
    BY <1>4, <2>1 DEF PrepareSb1
  <2> QED
    BY <2>2, <2>3 DEF PlaceInv
<1>5. CASE MakeSuper
  <2>1. UNCHANGED <<lastseg, sb_ofs, SegSize, no_journal_segs, journal_seg, no_segs, dev>>
        /\ pc = "super" /\ pc' = "done"
    BY <1>5 DEF MakeSuper, SegSize, deviceVars
  <2>2. Sb2Place' <=> Sb2Place
    BY <2>1 DEF Sb2Place
  <2> QED
    BY <2>1, <2>2 DEF PlaceInv
<1>6. CASE Option \/ Geometry \/ Question \/ DemoQuestion
  <2>1. pc' \notin Late
    BY <1>6 DEF Option, Geometry, Question, DemoQuestion, Ask
  <2> QED
    BY <1>2, <2>1
<1>7. CASE \E size \in Sizes :
              \/ \E kind \in {"reg", "blk"} : OpenBdev(kind, size)
              \/ \E e \in EraseSizes, w \in WriteSizes : OpenMtd(size, e, w)
  <2>1. pc' \notin Late
    BY <1>7 DEF OpenBdev, OpenMtd
  <2> QED
    BY <1>2, <2>1
<1> QED
  BY <1>1, <1>2, <1>3, <1>4, <1>5, <1>6, <1>7, NextCases, SecondPlace, JournalPlace

\* What the three invariants say of a program that is done.
LEMMA PlacesInside ==
    ASSUME TypeInv, GeometryInv, PlaceInv,
           3 * MaxBad + JOURNAL_SEGS + 2 <= TailWindow
    PROVE  SuperblocksInside
<1> SUFFICES ASSUME pc = "done", no_journal_segs \in 1 .. JOURNAL_SEGS,
                    dev.kind = "mtd" => writeshift <= 12
             PROVE  /\ sb_ofs[1] >= 0
                    /\ sb_ofs[1] + SecSize <= journal_seg[1] * SegSize
                    /\ (journal_seg[2] + 1) * SegSize <= sb_ofs[2]
                    /\ sb_ofs[2] + SecSize <= fssize
  BY DEF SuperblocksInside
<1>1. pc \in Settled
  BY DEF Settled, Started
<1>2. SegSize \in Nat /\ SegSize >= 8192 /\ SecSize \in Nat /\ SecSize <= SegSize
      /\ (writeshift <= 12 => SecSize <= SbTail)
  BY <1>1, SegSizeType, SecSizeBound
<1>3. fssize = no_segs * SegSize
  BY <1>1 DEF GeometryInv
<1>4. no_segs \in Nat /\ lastseg \in Nat /\ journal_seg[1] \in Nat /\ MaxBad \in Nat
      /\ sb_ofs[1] \in Int /\ sb_ofs[2] \in Int
  BY SetupAssumption DEF TypeInv, SetupTypeOK
<1>5. PICK n \in Nat : n < journal_seg[1] /\ sb_ofs[1] = n * SegSize
  BY DEF PlaceInv
<1>6. sb_ofs[1] >= 0 /\ sb_ofs[1] + SecSize <= journal_seg[1] * SegSize
  <2>1. n * SegSize \in Nat /\ (n + 1) * SegSize = n * SegSize + SegSize
    BY <1>2
  <2>2. (n + 1) * SegSize <= journal_seg[1] * SegSize /\ journal_seg[1] * SegSize \in Nat
    BY <1>2, <1>4, <1>5
  <2> QED
    BY <1>2, <1>5, <2>1, <2>2
<1>7. journal_seg[2] + 1 = lastseg /\ lastseg + 2 <= no_segs
      /\ lastseg <= 2 * MaxBad + 1 + no_journal_segs /\ Sb2Place
  BY DEF PlaceInv
<1>8. CASE dev.kind # "mtd"
  <2>1. sb_ofs[2] = (no_segs - 1) * SegSize - SbTail
    BY <1>7, <1>8 DEF Sb2Place
  <2>2. (no_segs - 1) * SegSize = no_segs * SegSize - SegSize
        /\ (no_segs - 2) * SegSize = no_segs * SegSize - SegSize - SegSize
        /\ no_segs * SegSize \in Nat
    BY <1>2, <1>4
  <2>3. lastseg * SegSize <= (no_segs - 2) * SegSize /\ lastseg * SegSize \in Nat
    BY <1>2, <1>4, <1>7
  <2> QED
    BY <1>2, <1>3, <1>6, <1>7, <2>1, <2>2, <2>3 DEF SbTail
<1>9. CASE dev.kind = "mtd"
  <2>1. PICK s \in no_segs - 1 - MaxBad .. no_segs - 1 :
            sb_ofs[2] = (s + 1) * SegSize - SbTail
    BY <1>7, <1>9 DEF Sb2Place
  <2>2. no_segs >= TailWindow
    BY <1>7, <1>9 DEF Sb2Place
  <2>3. s \in Int /\ lastseg <= s /\ s + 1 <= no_segs
    BY <1>4, <1>7, <2>1, <2>2 DEF TailWindow, JOURNAL_SEGS
  <2>4. (s + 1) * SegSize = s * SegSize + SegSize /\ s * SegSize \in Int
    BY <1>2, <2>3
  <2>5. lastseg * SegSize <= s * SegSize /\ lastseg * SegSize \in Int
    BY <1>2, <1>4, <2>3
  <2>6. (s + 1) * SegSize <= no_segs * SegSize /\ no_segs * SegSize \in Int
    BY <1>2, <1>4, <2>3
  <2> QED
    BY <1>2, <1>3, <1>6, <1>7, <1>9, <2>1, <2>4, <2>5, <2>6 DEF SbTail
<1> QED
  BY <1>8, <1>9

\* Both superblocks lie on the device, apart from each other and from the journal,
\* wherever bad segments push them.  On flash this needs the window at the end to
\* be larger than what bad segments and the largest journal can take: nothing in
\* get_segment knows of the segment of the second superblock.
THEOREM SuperblocksPlaced ==
    ASSUME 3 * MaxBad + JOURNAL_SEGS + 2 <= TailWindow
    PROVE  SetupSpec => []SuperblocksInside
<1>1. SetupInit => PlaceInv
  BY DEF SetupInit, PlaceInv
<1>2. TypeInv /\ PlaceInv /\ [SetupNext]_setupVars => PlaceInv'
  BY PlaceStep
<1>3. TypeInv /\ GeometryInv /\ PlaceInv => SuperblocksInside
  BY PlacesInside
<1> QED
  BY <1>1, <1>2, <1>3, AlwaysTyped, AlwaysGeometry, PTL DEF SetupSpec
=============================================================================
