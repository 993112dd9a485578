------------------------------- MODULE Device -------------------------------
(***************************************************************************)
(* mkfs.c: the operations of a device, mtd_ops and bdev_ops.                *)
(*                                                                         *)
(* A write is the loop of safe_pwrite over a pwrite() that may be short,    *)
(* interrupted or fail.  On a disk it fills the page cache, which the       *)
(* system writes back page by page in any order; only the fsync at the end  *)
(* of mkfs() waits for it.  Flash is written through.  An erase is a write  *)
(* of 0xff on a disk and an ioctl on flash.                                *)
(*                                                                         *)
(* The client here is any sequence of calls that, like mkfs(), stops at the *)
(* first write that fails but goes on after an erase that fails.           *)
(***************************************************************************)
EXTENDS Integers, Sequences

CONSTANTS
    Devices,    \* kinds of device: "mtd" and "bdev"
    NoSegs,     \* segments of the device
    SegSize,    \* bytes in a segment
    PageSize,   \* bytes in a page of the page cache, divides SegSize
    SbTail,     \* 0x1000: distance of the 2nd superblock from the end
    SbSize,     \* bytes written for a superblock
    U32,        \* 2^32, the width of erase_info_user.start
    MaxCalls    \* most calls of one run (a bound)

ASSUME DevAssumption ==
    /\ Devices \subseteq {"mtd", "bdev"}
    /\ NoSegs \in Nat \ {0} /\ SegSize \in Nat \ {0}
    /\ PageSize \in 1..SegSize /\ SegSize % PageSize = 0
    /\ SbTail \in 1..SegSize /\ SbSize \in Nat \ {0}
    /\ U32 \in Nat \ {0} /\ MaxCalls \in Nat

VARIABLES
    dev_ops,    \* super_block.dev_ops
    pc,         \* where the program is
    req,        \* the request being served
    pos,        \* remaining, ofs and buf of safe_pwrite
    ret,        \* what the last call returned
    erase_buf,  \* super_block.erase_buf
    cache,      \* the bytes as a reader of the device finds them
    disk,       \* the bytes that outlive a power failure
    before,     \* history: cache when the current call began
    synced,     \* the fsync has succeeded
    calls       \* number of calls so far

devVars == <<dev_ops, pc, req, pos, ret, erase_buf, cache, disk, before, synced,
             calls>>

Size  == NoSegs * SegSize
Bytes == 0 .. Size - 1
Segs  == 0 .. NoSegs - 1
Pages == 0 .. Size \div PageSize - 1
PageOf(b) == b \div PageSize

OK   == "0"
EIO  == "-EIO"
GONE == "gone"

----------------------------------------------------------------------------
(* Requests.  A byte is named after the buffer it comes from and its place  *)
(* there, so that no two bytes of a buffer can be mistaken for each other.  *)

Old  == <<"old", 0>>    \* what was on the device
Junk == <<"junk", 0>>   \* what a failed erase leaves
FF   == <<"ff", 0>>

Sources == {"segment", "super"}
Buffer(source, size) == [i \in 1..size |-> <<source, i>>]
EraseBuf == [i \in 1..SegSize |-> FF]

Vals == {Old, Junk, FF} \cup (Sources \X (1 .. SegSize + SbSize))

Write(ofs, data) == [op |-> "write", ofs |-> ofs, data |-> data]
Erase(ofs) == [op |-> "erase", ofs |-> ofs, data |-> EraseBuf]

\* finish_area and make_journal write whole segments, get_segment erases them,
\* make_super writes to two places of its own.
Requests ==
    {Write(s * SegSize, Buffer("segment", SegSize)) : s \in Segs}
    \cup {Write(ofs, Buffer("super", SbSize)) : ofs \in {0, Size - SbTail}}
    \cup {Erase(s * SegSize) : s \in Segs}

NoRequest == Write(0, << >>)

----------------------------------------------------------------------------
(* A call, and the loop of safe_pwrite                                     *)

\* The call of bdev_write, bdev_erase or mtd_erase.  bdev_erase makes its buffer
\* of 0xff once.
Begin(r) ==
    /\ pc = "idle" /\ calls < MaxCalls
    /\ pc' = IF r.op = "erase" /\ dev_ops = "mtd" THEN "memerase" ELSE "pwrite"
    /\ erase_buf' = IF r.op = "erase" /\ dev_ops = "bdev" /\ erase_buf = << >>
                    THEN EraseBuf ELSE erase_buf
    /\ req' = r
    /\ pos' = [remaining |-> Len(r.data), ofs |-> r.ofs, buf |-> 0]
    /\ before' = cache
    /\ calls' = calls + 1
    /\ UNCHANGED <<dev_ops, ret, cache, disk, synced>>

\* The buffer handed to safe_pwrite.
Source == IF req.op = "erase" THEN erase_buf ELSE req.data

MutAdvance(n) == [pos EXCEPT !.ofs = @ + n, !.buf = @ + n]
\* What is left to do after pwrite() took n bytes.
Advance(n) == [remaining |-> pos.remaining - n, ofs |-> pos.ofs + n, buf |-> pos.buf + n]

\* pwrite() of n bytes.
Pwrite(n) ==
    LET Put(v) == [b \in Bytes |-> IF b \in pos.ofs .. pos.ofs + n - 1
                                   THEN Source[pos.buf + b - pos.ofs + 1] ELSE v[b]]
    IN  /\ pc = "pwrite"
        /\ n \in 1 .. pos.remaining
        /\ pos.ofs + n <= Size
        /\ cache' = Put(cache)
        /\ disk' = IF dev_ops = "mtd" THEN Put(disk) ELSE disk
        /\ pos' = Advance(n)
        /\ UNCHANGED <<dev_ops, pc, req, ret, erase_buf, before, synced, calls>>

\* pwrite() is interrupted (EINTR) or returns 0: the loop tries again.
PwriteAgain ==
    /\ pc = "pwrite" /\ pos.remaining > 0
    /\ UNCHANGED devVars

MutGiveUp == UNCHANGED <<pc, ret>>
\* Any other error ends the call.  Whoever asked for a write reports it up to
\* mkfs(), which exits; get_segment goes on to the next segment.
GiveUp ==
    /\ ret' = EIO
    /\ pc' = IF req.op = "write" THEN "exited" ELSE "idle"

PwriteFails ==
    /\ pc = "pwrite" /\ pos.remaining > 0
    /\ GiveUp
    /\ UNCHANGED <<dev_ops, req, pos, erase_buf, cache, disk, before, synced, calls>>

PwriteReturns ==
    /\ pc = "pwrite" /\ pos.remaining = 0
    /\ pc' = "idle"
    /\ ret' = OK
    /\ UNCHANGED <<dev_ops, req, pos, erase_buf, cache, disk, before, synced, calls>>

----------------------------------------------------------------------------
(* mtd_erase                                                               *)

\* The start of the range: MEMERASE has 32 bits for it, MEMERASE64 has 64.
EraseStart(ofs) == IF ofs >= U32 THEN ofs ELSE ofs % U32

\* The device erases the segment, or fails and leaves it in any state.
MtdErase ==
    LET start == EraseStart(req.ofs)
        Fill(v, x) == [b \in Bytes |-> IF b \in start .. start + SegSize - 1 THEN x ELSE v[b]]
    IN  /\ pc = "memerase"
        /\ pc' = "idle"
        /\ \/ ret' = OK /\ cache' = Fill(cache, FF) /\ disk' = Fill(disk, FF)
           \/ ret' = EIO /\ cache' = Fill(cache, Junk) /\ disk' = Fill(disk, Junk)
        /\ UNCHANGED <<dev_ops, req, pos, erase_buf, before, synced, calls>>

----------------------------------------------------------------------------
(* The system                                                              *)

\* A page is written back whenever the system likes.
WriteBack(p) ==
    /\ \E b \in Bytes : PageOf(b) = p /\ cache[b] # disk[b]
    /\ disk' = [b \in Bytes |-> IF PageOf(b) = p THEN cache[b] ELSE disk[b]]
    /\ UNCHANGED <<dev_ops, pc, req, pos, ret, erase_buf, cache, before, synced, calls>>

MutFlushed == disk
\* The pages a successful fsync has written.
Flushed == cache

\* fsync at the end of mkfs(), which says "Finished" whatever it returns.
Fsync ==
    /\ pc = "idle"
    /\ pc' = "finished"
    /\ \/ disk' = Flushed /\ synced' = TRUE
       \/ UNCHANGED <<disk, synced>>
    /\ UNCHANGED <<dev_ops, req, pos, ret, erase_buf, cache, before, calls>>

\* The process is killed, or bdev_erase finds no memory for its buffer.
Kill ==
    /\ pc \in {"idle", "pwrite", "memerase"}
    /\ pc' = "exited"
    /\ ret' = GONE
    /\ UNCHANGED <<dev_ops, req, pos, erase_buf, cache, disk, before, synced, calls>>

\* The machine goes down: what the page cache held is lost.
PowerLoss ==
    /\ pc # "off"
    /\ pc' = "off"
    /\ cache' = disk
    /\ ret' = GONE
    /\ UNCHANGED <<dev_ops, req, pos, erase_buf, disk, before, synced, calls>>

DevInit ==
    /\ dev_ops \in Devices
    /\ pc = "idle"
    /\ req = NoRequest
    /\ pos = [remaining |-> 0, ofs |-> 0, buf |-> 0]
    /\ ret = OK
    /\ erase_buf = << >>
    /\ cache = [b \in Bytes |-> Old]
    /\ disk = cache
    /\ before = cache
    /\ synced = FALSE
    /\ calls = 0

\* pwrite() writes something or reports an error.
PwriteEnds == (\E n \in 1 .. SegSize + SbSize : Pwrite(n)) \/ PwriteFails

DevNext ==
    \/ \E r \in Requests : Begin(r)
    \/ PwriteEnds \/ PwriteAgain \/ PwriteReturns \/ MtdErase
    \/ \E p \in Pages : WriteBack(p)
    \/ Fsync \/ Kill \/ PowerLoss

DevSpec == DevInit /\ [][DevNext]_devVars

\* The process is scheduled, and pwrite() does not answer 0 or EINTR for ever.
\* Nothing is assumed of the page cache, the fsync and the failures.
DevFairSpec == DevSpec /\ WF_devVars(PwriteEnds) /\ WF_devVars(PwriteReturns)

----------------------------------------------------------------------------
(* Properties                                                              *)

\* Every variable has its type, safe_pwrite stays within its buffer, and what it
\* has left and what it has done add up to the request.
DevTypeOK ==
    /\ dev_ops \in Devices
    /\ pc \in {"idle", "pwrite", "memerase", "finished", "exited", "off"}
    /\ req \in Requests \cup {NoRequest}
    /\ pos \in [remaining : Nat, ofs : Nat, buf : Nat]
    /\ pos.buf + pos.remaining <= Len(req.data) \/ pc # "pwrite"
    /\ ret \in {OK, EIO, GONE}
    /\ erase_buf \in {<< >>, EraseBuf}
    /\ cache \in [Bytes -> Vals] /\ disk \in [Bytes -> Vals] /\ before \in [Bytes -> Vals]
    /\ synced \in BOOLEAN
    /\ calls \in 0..MaxCalls

Busy == pc \in {"pwrite", "memerase"}

\* While a call lasts, a caller has what was there before it.
Promise == INSTANCE Volume WITH
    vol      <- IF Busy THEN before ELSE cache,
    req      <- req,
    busy     <- Busy,
    ret      <- ret,
    sealed   <- synced,
    Size     <- Size,
    Vals     <- Vals,
    Requests <- Requests

\* The device operations keep their promise: through any sequence of short and
\* interrupted writes every byte of the buffer arrives, once, at its place and
\* nothing else changes; a call that fails has touched nothing outside its
\* range; and a power failure after the fsync finds all of it on the medium, in
\* whatever order pages were written back before.
ImplementsVolume == Promise!VolumeSpec

\* Every call of safe_pwrite returns: an error that stays, such as the end of the
\* device, is not taken for one to be tried again.
CallReturns == pc = "pwrite" ~> pc # "pwrite"
=============================================================================
