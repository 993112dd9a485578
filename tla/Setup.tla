------------------------------- MODULE Setup -------------------------------
(***************************************************************************)
(* mkfs.c: what mklogfs decides before and around the writing.              *)
(*                                                                         *)
(* main() takes the options in the order they come, __open_device() looks   *)
(* at the device, mkfs() settles the geometry and asks for consent.  Then   *)
(* the superblocks are placed, and make_super() records the geometry.  What *)
(* is written in between is the subject of Mkfs.                           *)
(*                                                                         *)
(* Numbers keep their widths: shifts are u8, options and segment numbers    *)
(* are 32 bits, of which U32 is the (smaller) model.                       *)
(***************************************************************************)
EXTENDS Integers

CONSTANTS
    U32,            \* 2^32: number of values of an unsigned int
    SegShiftArgs,   \* arguments of -s explored, as strtoul returns them
    WriteShiftArgs, \* arguments of -w explored
    JournalArgs,    \* arguments of --journal-segments explored
    ReserveArgs,    \* arguments of --bad-segment-reserve explored
    Sizes,          \* sizes of devices explored
    EraseSizes,     \* erase sizes of flash explored
    WriteSizes,     \* write sizes of flash explored
    MaxBad          \* most bad segments met on each end of the device (a bound)

ASSUME SetupAssumption ==
    /\ U32 \in Nat \ {0} /\ U32 > 256
    /\ SegShiftArgs \cup WriteShiftArgs \cup JournalArgs \cup ReserveArgs \subseteq Nat
    /\ Sizes \cup EraseSizes \cup WriteSizes \subseteq Nat
    /\ MaxBad \in Nat

VARIABLES
    pc,                 \* the step that comes next
    user,               \* user_segshift and user_writeshift
    segshift,           \* log2 of the segment size
    writeshift,         \* log2 of the write size
    no_journal_segs,    \* number of journal segments
    bad_seg_reserve,    \* number of segments kept for bad blocks
    flags,              \* compress_rootdir, interactice_mode, quick_bad_block_scan
    dev,                \* the device, and what the system told of its size
    fssize,             \* super_block.fssize
    no_segs,            \* super_block.no_segs
    answer,             \* answer[] of mkfs()
    said,               \* history: what answer[] held at first, and what was
                        \* typed at either question
    erased,             \* history: something on the device was erased
    lastseg,            \* super_block.lastseg
    sb_ofs,             \* super_block.sb_ofs1 and sb_ofs2
    journal_seg,        \* super_block.journal_seg, first and last one
    ds                  \* the superblock on the device

setupVars == <<pc, user, segshift, writeshift, no_journal_segs, bad_seg_reserve,
               flags, dev, fssize, no_segs, answer, said, erased, lastseg,
               sb_ofs, journal_seg, ds>>
optionVars == <<user, segshift, writeshift, no_journal_segs, bad_seg_reserve, flags>>
deviceVars == <<dev, fssize, no_segs>>
consentVars == <<answer, said>>
writeVars == <<erased, lastseg, sb_ofs, journal_seg, ds>>

UNSET      == U32 - 1   \* -1 as an unsigned
blockshift == 12        \* no option reaches the case 'b' that would set it
TailWindow == 64
SbTail     == 4096      \* 0x1000
SuperSize  == 256       \* sizeof(struct logfs_disk_super)
JOURNAL_SEGS == 16      \* LOGFS_JOURNAL_SEGS
SegHeader  == 24        \* LOGFS_SEGMENT_HEADERSIZE
ObjHeader  == 28        \* LOGFS_OBJECT_HEADERSIZE

NoDevice == [kind |-> "none", size |-> 0, told |-> 0, erasesize |-> 0, writesize |-> 0]
NoSuper  == [filesystem_size |-> 0]

U8(n) == n % 256

Pow2(n) == \E k \in 0..30 : n = 2^k
Log2(n) == CHOOSE k \in 0..30 : n = 2^k

Exit ==
    /\ pc' = "exited"
    /\ UNCHANGED <<optionVars, deviceVars, consentVars, writeVars>>

----------------------------------------------------------------------------
(* main: the options                                                       *)

MutOptionS(n) == segshift' = U8(n) /\ UNCHANGED user
\* -s: what the device says may come later and must not replace it.
OptionS(n) == user' = [user EXCEPT !.segshift = n % U32] /\ UNCHANGED segshift

OptionW(n) == user' = [user EXCEPT !.writeshift = n % U32] /\ UNCHANGED segshift

\* One turn of the getopt_long loop.
Option ==
    /\ pc = "options"
    /\ \/ /\ \/ \E n \in SegShiftArgs : OptionS(n)
             \/ \E n \in WriteShiftArgs : OptionW(n)
          /\ UNCHANGED <<no_journal_segs, bad_seg_reserve, flags>>
       \/ /\ \E n \in JournalArgs : no_journal_segs' = n % U32
          /\ UNCHANGED <<user, segshift, bad_seg_reserve, flags>>
       \/ /\ \E n \in ReserveArgs : bad_seg_reserve' = n % U32
          /\ UNCHANGED <<user, segshift, no_journal_segs, flags>>
       \/ /\ \/ flags' = [flags EXCEPT !.compress = TRUE]
             \/ flags' = [flags EXCEPT !.interactive = FALSE]
             \/ flags' = [flags EXCEPT !.quick = TRUE]
          /\ UNCHANGED <<user, segshift, no_journal_segs, bad_seg_reserve>>
    /\ UNCHANGED <<pc, writeshift, deviceVars, consentVars, writeVars>>

\* --help, an unknown option, or not exactly one argument left.
UsageExit == pc = "options" /\ Exit

OptionsEnd ==
    /\ pc = "options"
    /\ pc' = "open"
    /\ UNCHANGED <<optionVars, deviceVars, consentVars, writeVars>>

----------------------------------------------------------------------------
(* __open_device                                                           *)

\* A regular file or a block device.
OpenBdev(kind, size) ==
    /\ pc = "open"
    /\ dev' = [NoDevice EXCEPT !.kind = kind, !.size = size, !.told = size]
    /\ fssize' = size
    /\ pc' = "checks"
    /\ UNCHANGED <<optionVars, no_segs, consentVars, writeVars>>

\* What the system may tell of the size of flash: the 32 bits of the ioctl, where
\* sysfs has no entry of that name; the entry, which is that of another flash
\* device if a node elsewhere has the same basename; or 0, when the entry opens
\* and the read fails, as strtoull() then finds the path in the buffer.
Told(size) == {size % U32, 0} \cup Sizes

\* Flash says how large its segments and its writes are.
OpenMtd(size, erasesize, writesize) ==
    /\ pc = "open"
    /\ Pow2(erasesize) /\ Pow2(writesize)
    /\ fssize' \in Told(size)
    /\ dev' = [kind |-> "mtd", size |-> size, told |-> fssize',
               erasesize |-> erasesize, writesize |-> writesize]
    /\ segshift' = Log2(erasesize)
    /\ writeshift' = Log2(writesize)
    /\ pc' = "checks"
    /\ UNCHANGED <<user, no_journal_segs, bad_seg_reserve, flags, no_segs,
                   consentVars, writeVars>>

\* No device, one of another type, an ioctl that fails, or flash of odd sizes.
OpenFails == pc = "open" /\ Exit

----------------------------------------------------------------------------
(* mkfs: geometry and consent                                              *)

ChosenSegshift == IF user.segshift # UNSET THEN U8(user.segshift) ELSE segshift
ChosenWriteshift == IF user.writeshift # UNSET THEN U8(user.writeshift) ELSE writeshift

MutShiftsOk(ss, ws) == ss <= 30 /\ ss >= blockshift /\ ws <= 16 /\ ss >= ws
ShiftsOk(ss, ws) == ss <= 30 /\ ss > blockshift /\ ws <= 16 /\ ss >= ws

\* The number of segments is a u32, the size follows from it.
Geometry ==
    /\ pc = "checks"
    /\ ShiftsOk(ChosenSegshift, ChosenWriteshift)
    /\ segshift' = ChosenSegshift
    /\ writeshift' = ChosenWriteshift
    /\ no_segs' = (fssize \div 2^segshift') % U32
    /\ fssize' = no_segs' * 2^segshift'
    /\ pc' = "question"
    /\ UNCHANGED <<user, no_journal_segs, bad_seg_reserve, flags, dev, consentVars,
                   writeVars>>

GeometryFails ==
    /\ pc = "checks"
    /\ ~ShiftsOk(ChosenSegshift, ChosenWriteshift)
    /\ Exit

\* scanf stores a word, or at the end of the input nothing.
Scanf(question) ==
    \/ \E word \in {"yes", "no"} :
          answer' = word /\ said' = [said EXCEPT ![question] = word]
    \/ UNCHANGED answer /\ said' = [said EXCEPT ![question] = "nothing"]

MutAgreed(a) == a # "no"
Agreed(a) == a = "yes"

\* A question, put only if the flag says so, and where the program goes from there.
Ask(asked, question, next) ==
    /\ IF asked THEN Scanf(question) ELSE UNCHANGED consentVars
    /\ pc' = IF asked /\ ~Agreed(answer') THEN "exited" ELSE next
    /\ UNCHANGED <<optionVars, deviceVars, writeVars>>

Question == pc = "question" /\ Ask(flags.interactive, "continue", "demo")
DemoQuestion == pc = "demo" /\ Ask(flags.quick, "demo", "sb1")

----------------------------------------------------------------------------
(* prepare_sb and prepare_journal, as far as they decide on places          *)

SegSize == 2^segshift

MutInDevice(segno) == segno <= no_segs
\* sb->lastseg > sb->no_segs ends the program.
InDevice(segno) == segno < no_segs

\* get_segment: n erases fail, then one works.
Take(n) ==
    /\ InDevice(lastseg + n)
    /\ erased' = TRUE
    /\ lastseg' = lastseg + n + 1

PrepareSb1 ==
    /\ pc = "sb1"
    /\ \E n \in 0..MaxBad : Take(n)
    /\ sb_ofs' = [sb_ofs EXCEPT ![1] = (lastseg' - 1) * SegSize]
    /\ pc' = "sb2"
    /\ UNCHANGED <<optionVars, deviceVars, consentVars, journal_seg, ds>>

\* The segments mtd_prepare_sb tries, with the u32 difference it compares with.
Tried == {s \in no_segs - 1 - MaxBad .. no_segs - 1 : s > (no_segs - TailWindow) % U32}

LoopNeverRuns == no_segs - 1 <= (no_segs - TailWindow) % U32

MutSb2Ok(ofs) == TRUE
\* The test after the loop, which also finds a loop that never ran.
Sb2Ok(ofs) == ofs > sb_ofs[1]

MtdSb2 ==
    /\ pc = "sb2" /\ dev.kind = "mtd"
    /\ \/ \E s \in Tried : sb_ofs' = [sb_ofs EXCEPT ![2] = (s + 1) * SegSize - SbTail]
       \/ LoopNeverRuns /\ UNCHANGED sb_ofs
    /\ pc' = IF Sb2Ok(sb_ofs'[2]) THEN "journal" ELSE "exited"
    /\ UNCHANGED <<optionVars, deviceVars, consentVars, erased, lastseg, journal_seg, ds>>

BdevSb2 ==
    /\ pc = "sb2" /\ dev.kind # "mtd"
    /\ sb_ofs' = [sb_ofs EXCEPT ![2] = (no_segs - 1) * SegSize - SbTail]
    /\ pc' = "journal"
    /\ UNCHANGED <<optionVars, deviceVars, consentVars, erased, lastseg, journal_seg, ds>>

PrepareJournal ==
    /\ pc = "journal" /\ no_journal_segs \in 1 .. JOURNAL_SEGS
    /\ \E n \in 0..MaxBad :
          /\ lastseg + n + no_journal_segs <= no_segs
          /\ lastseg' = lastseg + n + no_journal_segs
          /\ journal_seg' = <<lastseg + n, lastseg' - 1>>
    /\ pc' = "body"
    /\ UNCHANGED <<optionVars, deviceVars, consentVars, erased, sb_ofs, ds>>

\* -j 0 leaves journal_seg[0] as it was allocated, zero.
NoJournalSegs ==
    /\ pc = "journal" /\ no_journal_segs = 0
    /\ pc' = "body"
    /\ UNCHANGED <<optionVars, deviceVars, consentVars, writeVars>>

\* More segments than journal_seg[] has places: what follows is undefined.
JournalOverrun ==
    /\ pc = "journal" /\ no_journal_segs > JOURNAL_SEGS
    /\ lastseg + JOURNAL_SEGS < no_segs
    /\ pc' = "undefined"
    /\ UNCHANGED <<optionVars, deviceVars, consentVars, writeVars>>

\* The segment file and the inodes need at least a segment each (Mkfs).
WriteBody ==
    /\ pc = "body"
    /\ lastseg + 2 <= no_segs
    /\ pc' = "super"
    /\ UNCHANGED <<optionVars, deviceVars, consentVars, writeVars>>

\* Out of memory or of segments, bad ones included, or a write that fails.
PrepareFails == pc \in {"sb1", "sb2", "journal", "body", "super"} /\ Exit

----------------------------------------------------------------------------
(* make_super                                                              *)

MaxOf(a, b) == IF a > b THEN a ELSE b

\* ALIGN(sizeof(*ds), sb->writesize)
SecSize == LET w == 2^writeshift IN ((SuperSize + w - 1) \div w) * w

MakeSuper ==
    /\ pc = "super"
    /\ bad_seg_reserve' = MaxOf(bad_seg_reserve, no_journal_segs)
    /\ ds' = [filesystem_size |-> fssize, segment_shift |-> segshift,
              block_shift |-> blockshift, write_shift |-> writeshift,
              bad_seg_reserve |-> bad_seg_reserve', super_ofs |-> sb_ofs]
    /\ pc' = "done"
    /\ UNCHANGED <<user, segshift, writeshift, no_journal_segs, flags, deviceVars,
                   consentVars, erased, lastseg, sb_ofs, journal_seg>>

----------------------------------------------------------------------------
(* The program                                                             *)

SetupInit ==
    /\ pc = "options"
    /\ user = [segshift |-> UNSET, writeshift |-> UNSET]
    /\ segshift = 18 /\ writeshift = 0
    /\ no_journal_segs = 4 /\ bad_seg_reserve = 4
    /\ flags = [compress |-> FALSE, interactive |-> TRUE, quick |-> FALSE]
    /\ dev = NoDevice /\ fssize = 0 /\ no_segs = 0
    /\ answer \in {"junk", "yes"}     \* answer[] is not initialised
    /\ said = [buffer |-> answer, continue |-> "unasked", demo |-> "unasked"]
    /\ erased = FALSE /\ lastseg = 0
    /\ sb_ofs = <<0, 0>> /\ journal_seg = <<0, 0>>
    /\ ds = NoSuper

SetupNext ==
    \/ Option \/ UsageExit \/ OptionsEnd
    \/ \E size \in Sizes :
          \/ \E kind \in {"reg", "blk"} : OpenBdev(kind, size)
          \/ \E e \in EraseSizes, w \in WriteSizes : OpenMtd(size, e, w)
    \/ OpenFails
    \/ Geometry \/ GeometryFails
    \/ Question \/ DemoQuestion
    \/ PrepareSb1 \/ MtdSb2 \/ BdevSb2
    \/ PrepareJournal \/ NoJournalSegs \/ JournalOverrun
    \/ WriteBody \/ PrepareFails
    \/ MakeSuper

SetupSpec == SetupInit /\ [][SetupNext]_setupVars

----------------------------------------------------------------------------
(* Properties                                                              *)

Started == {"sb1", "sb2", "journal", "body", "super", "done", "undefined"}
Settled == {"question", "demo"} \cup Started

Replies == {"unasked", "yes", "no", "nothing"}

\* Every variable has its type and its width.
SetupTypeOK ==
    /\ pc \in {"options", "open", "checks", "exited"} \cup Settled
    /\ user \in [segshift : 0 .. U32 - 1, writeshift : 0 .. U32 - 1]
    /\ segshift \in 0..255 /\ writeshift \in 0..255
    /\ no_journal_segs \in 0 .. U32 - 1 /\ bad_seg_reserve \in 0 .. U32 - 1
    /\ flags \in [compress : BOOLEAN, interactive : BOOLEAN, quick : BOOLEAN]
    /\ fssize \in Nat /\ no_segs \in 0 .. U32 - 1
    /\ answer \in {"junk", "yes", "no"}
    /\ said \in [buffer : {"junk", "yes"}, continue : Replies, demo : Replies]
    /\ erased \in BOOLEAN
    /\ lastseg \in 0..no_segs
    /\ sb_ofs \in [1..2 -> Int] /\ journal_seg \in [1..2 -> Nat]

\* What a question is answered with: the word typed at it, or if the input has
\* ended what answer[] still holds: the word typed at the question before, and
\* if there was none whatever the memory held.
Heard(reply, before) == IF reply = "nothing" THEN before ELSE reply
HeardContinue == Heard(said.continue, said.buffer)
HeardDemo == Heard(said.demo, IF flags.interactive THEN HeardContinue ELSE said.buffer)

\* Nothing on the device is touched before each question that the flags ask for
\* was put and heard a yes of its own: a refusal at either stops the program,
\* --non-interactive and --demo-mode turn one question off and on and say nothing
\* of the other, and a yes to the question of demo mode is none to the other.
\* Only where the input has ended does the yes come from answer[] instead.  It is
\* the order of questions and erases that this is about, not their words: the
\* question of demo mode says "mklogfs won't erase filesystem" (README).
ConsentFirst ==
    erased =>
        /\ flags.interactive => HeardContinue = "yes"
        /\ flags.quick => HeardDemo = "yes"

\* The geometry the program works with, and the one a mount computes from the
\* superblock, is one the object store can work on, whatever the options and
\* the device say and however the numbers were cut to their widths: a segment
\* has room for its header and a block with its own, is made of whole writes,
\* and all segments lie within the size the system told, which is on the
\* device unless that is the size of a larger one.
GeometrySound ==
    /\ pc \in Settled =>
          /\ SegHeader + ObjHeader + 2^blockshift <= SegSize
          /\ SegSize % 2^writeshift = 0
          /\ fssize = no_segs * SegSize
          /\ fssize <= dev.told
    /\ ds # NoSuper =>
          /\ ds.filesystem_size = no_segs * 2^ds.segment_shift
          /\ dev.told <= dev.size => ds.filesystem_size <= dev.size
          /\ ds.bad_seg_reserve >= no_journal_segs

Given(n) == n < 256

\* What the user says of the shifts goes before what the device says, in
\* whatever order options come, and that before the defaults.  Numbers that do
\* not fit a u8 are cut to size instead, and -1 counts as not given.
UserShiftsObeyed ==
    pc \in Settled =>
        /\ Given(user.segshift) => segshift = user.segshift
        /\ Given(user.writeshift) => writeshift = user.writeshift
        /\ user.segshift = UNSET =>
              SegSize = IF dev.kind = "mtd" THEN dev.erasesize ELSE 2^18
        /\ user.writeshift = UNSET =>
              2^writeshift = IF dev.kind = "mtd" THEN dev.writesize ELSE 1

\* Both superblocks lie on the device, apart from each other and from the journal,
\* on flash of few segments as well, where the search for the second place ends
\* before it starts.  Of the options this takes for granted a journal that
\* fits its array and, on flash, writes no larger than what is kept for the
\* superblock.
SuperblocksInside ==
    /\ pc = "done"
    /\ no_journal_segs \in 1 .. JOURNAL_SEGS
    /\ dev.kind = "mtd" => writeshift <= 12
    => /\ sb_ofs[1] >= 0
       /\ sb_ofs[1] + SecSize <= journal_seg[1] * SegSize
       /\ (journal_seg[2] + 1) * SegSize <= sb_ofs[2]
       /\ sb_ofs[2] + SecSize <= fssize
=============================================================================
