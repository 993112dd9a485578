---------------------------- MODULE DeviceProofs ----------------------------
(***************************************************************************)
(* Theorems about the device operations of Device: for every geometry and  *)
(* every sequence of calls they implement the volume of bytes of Volume.   *)
(***************************************************************************)
EXTENDS Device, TLAPS

(* The invariant the refinement needs beside the types.                    *)

\* A call of safe_pwrite in progress: remaining, ofs and buf agree with the
\* request, the buffer handed down is the one asked for, and the device holds
\* what it held before and the bytes written so far.
LoopInv ==
    pc = "pwrite" =>
        /\ req \in Requests
        /\ pos.buf + pos.remaining = Len(req.data)
        /\ pos.ofs = req.ofs + pos.buf
        /\ pos.buf = 0 \/ pos.ofs <= Size
        /\ Source = req.data
        /\ cache = Promise!Prefix(before, req, pos.buf)

\* An erase of flash in progress has done nothing yet.
EraseInv ==
    pc = "memerase" => req \in Requests /\ req.op = "erase" /\ cache = before

\* After a successful fsync the program is over and the device in order.
SyncInv ==
    synced => pc \in {"finished", "off"} /\ cache = disk

DevInv == DevTypeOK /\ LoopInv /\ EraseInv /\ SyncInv

----------------------------------------------------------------------------
(* Requests                                                                *)

\* A segment lies on the device.
LEMMA SegmentInside ==
    ASSUME NEW s \in Segs
    PROVE  /\ s * SegSize \in Nat
           /\ s * SegSize + SegSize <= Size
           /\ Size \in Nat
<1>1. s \in Nat /\ NoSegs \in Nat /\ SegSize \in Nat /\ s + 1 <= NoSegs
  BY DevAssumption DEF Segs
<1>2. (s + 1) * SegSize <= NoSegs * SegSize /\ NoSegs * SegSize \in Nat
      /\ s * SegSize \in Nat
  BY <1>1
<1>3. (s + 1) * SegSize = s * SegSize + SegSize
  BY <1>1
<1> QED
  BY <1>2, <1>3 DEF Size

\* What a request may be: where it starts, how long it is and what it holds.
LEMMA RequestFacts ==
    ASSUME NEW r \in Requests
    PROVE  /\ r.op \in {"write", "erase"}
           /\ r.ofs \in Nat
           /\ Len(r.data) \in 1 .. SegSize + SbSize
           /\ \A i \in 1 .. Len(r.data) : r.data[i] \in Vals
           /\ r.op = "erase" =>
                 /\ r.data = EraseBuf /\ Len(r.data) = SegSize
                 /\ r.ofs + SegSize <= Size
<1>1. /\ SegSize \in Nat \ {0} /\ SbSize \in Nat \ {0} /\ NoSegs \in Nat \ {0}
      /\ SbTail \in 1..SegSize
  BY DevAssumption
<1>2. ASSUME NEW source \in Sources, NEW n \in 1 .. SegSize + SbSize
      PROVE  /\ Len(Buffer(source, n)) = n
             /\ \A i \in 1..n : Buffer(source, n)[i] \in Vals
  BY <1>1, <1>2 DEF Buffer, Vals
<1>3. Len(EraseBuf) = SegSize /\ \A i \in 1..SegSize : EraseBuf[i] \in Vals
  BY <1>1 DEF EraseBuf, Vals
<1>4. CASE \E s \in Segs : r = Write(s * SegSize, Buffer("segment", SegSize))
  <2>1. PICK s \in Segs : r = Write(s * SegSize, Buffer("segment", SegSize))
    BY <1>4
  <2>2. s * SegSize \in Nat
    BY SegmentInside
  <2>3. "segment" \in Sources /\ SegSize \in 1 .. SegSize + SbSize
    BY <1>1 DEF Sources
  <2> QED
    BY <1>2, <2>1, <2>2, <2>3 DEF Write
<1>5. CASE \E ofs \in {0, Size - SbTail} : r = Write(ofs, Buffer("super", SbSize))
  <2>1. PICK ofs \in {0, Size - SbTail} : r = Write(ofs, Buffer("super", SbSize))
    BY <1>5
  <2>2. 0 \in Segs
    BY <1>1 DEF Segs
  <2>3. ofs \in Nat
    BY <1>1, <2>2, SegmentInside
  <2>4. "super" \in Sources /\ SbSize \in 1 .. SegSize + SbSize
    BY <1>1 DEF Sources
  <2> QED
    BY <1>2, <2>1, <2>3, <2>4 DEF Write
<1>6. CASE \E s \in Segs : r = Erase(s * SegSize)
  <2>1. PICK s \in Segs : r = Erase(s * SegSize)
    BY <1>6
  <2>2. s * SegSize \in Nat /\ s * SegSize + SegSize <= Size
    BY SegmentInside
  <2> QED
    BY <1>1, <1>3, <2>1, <2>2 DEF Erase
<1> QED
  BY <1>4, <1>5, <1>6 DEF Requests
----------------------------------------------------------------------------
(* Prefixes of a request                                                   *)

\* A part of a request leaves bytes on the device.
LEMMA PrefixType ==
    ASSUME NEW v \in [Bytes -> Vals], NEW r \in Requests, NEW n \in 0 .. Len(r.data)
    PROVE  Promise!Prefix(v, r, n) \in [Bytes -> Vals]
<1>1. r.ofs \in Nat /\ Len(r.data) \in Nat
      /\ \A i \in 1 .. Len(r.data) : r.data[i] \in Vals
  BY RequestFacts
<1>2. ASSUME NEW b \in Bytes, b \in r.ofs .. r.ofs + n - 1
      PROVE  r.data[b - r.ofs + 1] \in Vals
  <2>1. b - r.ofs + 1 \in 1 .. Len(r.data)
    BY <1>1, <1>2
  <2> QED
    BY <1>1, <2>1
<1> QED
  BY <1>2 DEF Promise!Prefix, Promise!Bytes, Bytes

\* Nothing of a request changes nothing.
LEMMA PrefixZero ==
    ASSUME NEW v \in [Bytes -> Vals], NEW r \in Requests
    PROVE  Promise!Prefix(v, r, 0) = v
<1>1. r.ofs \in Nat
  BY RequestFacts
<1>2. r.ofs .. r.ofs + 0 - 1 = {}
  BY <1>1
<1> QED
  BY <1>2 DEF Promise!Prefix, Promise!Bytes, Bytes

\* The next n bytes behind a prefix of k bytes make it one of k + n bytes.
LEMMA PrefixExtend ==
    ASSUME NEW v \in [Bytes -> Vals], NEW r \in Requests, NEW k \in Nat, NEW n \in Nat
    PROVE  [b \in Bytes |->
              IF b \in r.ofs + k .. r.ofs + k + n - 1
              THEN r.data[k + b - (r.ofs + k) + 1]
              ELSE Promise!Prefix(v, r, k)[b]]
           = Promise!Prefix(v, r, k + n)
<1>1. r.ofs \in Nat
  BY RequestFacts
<1>2. ASSUME NEW b \in Bytes
      PROVE  (IF b \in r.ofs + k .. r.ofs + k + n - 1
              THEN r.data[k + b - (r.ofs + k) + 1]
              ELSE IF b \in r.ofs .. r.ofs + k - 1 THEN r.data[b - r.ofs + 1]
              ELSE v[b])
             = IF b \in r.ofs .. r.ofs + (k + n) - 1 THEN r.data[b - r.ofs + 1]
               ELSE v[b]
  <2>1. b \in Int
    BY DEF Bytes
  <2>2. k + b - (r.ofs + k) + 1 = b - r.ofs + 1
    BY <1>1, <2>1
  <2>3. b \in r.ofs .. r.ofs + (k + n) - 1 <=>
          \/ b \in r.ofs + k .. r.ofs + k + n - 1
          \/ b \in r.ofs .. r.ofs + k - 1
    BY <1>1, <2>1
  <2> QED
    BY <2>2, <2>3
<1> QED
  BY <1>2 DEF Promise!Prefix, Promise!Bytes, Bytes
----------------------------------------------------------------------------
(* The invariant                                                           *)

\* Before the first call the invariant holds.
LEMMA InitialInv == DevInit => DevInv
<1> SUFFICES ASSUME DevInit PROVE DevInv
  OBVIOUS
<1>1. Old \in Vals
  BY DEF Vals
<1>2. cache \in [Bytes -> Vals] /\ disk = cache /\ before = cache
  BY <1>1 DEF DevInit
<1>3. MaxCalls \in Nat
  BY DevAssumption
<1>4. pos \in [remaining : Nat, ofs : Nat, buf : Nat]
  BY DEF DevInit
<1>5. calls \in 0..MaxCalls
  BY <1>3 DEF DevInit
<1>6. /\ dev_ops \in Devices /\ pc = "idle" /\ req = NoRequest /\ ret = OK
      /\ erase_buf = << >> /\ synced = FALSE
  BY DEF DevInit
<1>7. DevTypeOK
  BY <1>2, <1>4, <1>5, <1>6 DEF DevTypeOK
<1> QED
  BY <1>7 DEF DevInv, DevInit, LoopInv, EraseInv, SyncInv

\* A call begins with nothing done.
LEMMA BeginInv ==
    ASSUME DevInv, NEW r \in Requests, Begin(r)
    PROVE  DevInv'
<1> USE DEF DevInv
<1>1. /\ r.op \in {"write", "erase"} /\ r.ofs \in Nat /\ Len(r.data) \in Nat
      /\ r.op = "erase" => r.data = EraseBuf
  BY RequestFacts
<1>2. /\ pc = "idle" /\ calls < MaxCalls
      /\ pc' = IF r.op = "erase" /\ dev_ops = "mtd" THEN "memerase" ELSE "pwrite"
      /\ erase_buf' = IF r.op = "erase" /\ dev_ops = "bdev" /\ erase_buf = << >>
                      THEN EraseBuf ELSE erase_buf
      /\ req' = r
      /\ pos' = [remaining |-> Len(r.data), ofs |-> r.ofs, buf |-> 0]
      /\ before' = cache /\ calls' = calls + 1
      /\ UNCHANGED <<dev_ops, ret, cache, disk, synced>>
  BY DEF Begin
<1>3. /\ pos' \in [remaining : Nat, ofs : Nat, buf : Nat]
      /\ pos'.buf = 0 /\ pos'.ofs = r.ofs /\ pos'.remaining = Len(r.data)
  BY <1>1, <1>2
<1>4. calls' \in 0..MaxCalls
  BY <1>2, DevAssumption DEF DevTypeOK
<1>5. erase_buf' \in {<< >>, EraseBuf}
  BY <1>2 DEF DevTypeOK
<1>6. DevTypeOK'
  BY <1>1, <1>2, <1>3, <1>4, <1>5 DEF DevTypeOK
<1>7. LoopInv'
  <2> SUFFICES ASSUME pc' = "pwrite"
               PROVE  /\ req' \in Requests
                      /\ pos'.buf + pos'.remaining = Len(req'.data)
                      /\ pos'.ofs = req'.ofs + pos'.buf
                      /\ pos'.buf = 0 \/ pos'.ofs <= Size
                      /\ Source' = req'.data
                      /\ cache' = Promise!Prefix(before', req', pos'.buf)
    BY DEF LoopInv
  <2>1. r.op = "erase" => dev_ops = "bdev"
    BY <1>2, DevAssumption DEF DevTypeOK
  <2>2. Source' = r.data
    BY <1>1, <1>2, <2>1 DEF Source, DevTypeOK
  <2>3. Promise!Prefix(cache, r, 0) = cache
    BY PrefixZero DEF DevTypeOK
  <2> QED
    BY <1>1, <1>2, <1>3, <2>2, <2>3
<1>8. EraseInv' /\ SyncInv'
  BY <1>2 DEF EraseInv, SyncInv
<1> QED
  BY <1>6, <1>7, <1>8

\* A turn of the loop that writes n bytes.
LEMMA PwriteInv ==
    ASSUME DevInv, NEW n \in Nat, Pwrite(n)
    PROVE  DevInv'
<1> USE DEF DevInv
<1> DEFINE Put(v) == [b \in Bytes |-> IF b \in pos.ofs .. pos.ofs + n - 1
                                      THEN Source[pos.buf + b - pos.ofs + 1] ELSE v[b]]
<1>1. /\ pc = "pwrite" /\ n \in 1 .. pos.remaining /\ pos.ofs + n <= Size
      /\ pos' = [remaining |-> pos.remaining - n, ofs |-> pos.ofs + n,
                 buf |-> pos.buf + n]
      /\ UNCHANGED <<dev_ops, pc, req, ret, erase_buf, before, synced, calls>>
  BY DEF Pwrite, Advance
<1>12. cache' = Put(cache) /\ disk' = IF dev_ops = "mtd" THEN Put(disk) ELSE disk
  BY DEF Pwrite
<1>2. /\ req \in Requests
      /\ pos.buf + pos.remaining = Len(req.data)
      /\ pos.ofs = req.ofs + pos.buf
      /\ Source = req.data
      /\ cache = Promise!Prefix(before, req, pos.buf)
  BY <1>1 DEF LoopInv
<1>3. /\ req.ofs \in Nat /\ Len(req.data) \in Nat
      /\ \A i \in 1 .. Len(req.data) : req.data[i] \in Vals
  BY <1>2, RequestFacts
<1>4. pos.remaining \in Nat /\ pos.ofs \in Nat /\ pos.buf \in Nat
  BY DEF DevTypeOK
<1>5. /\ pos' \in [remaining : Nat, ofs : Nat, buf : Nat]
      /\ pos'.buf = pos.buf + n /\ pos'.ofs = pos.ofs + n
      /\ pos'.remaining = pos.remaining - n
  BY <1>1, <1>4
<1>6. ASSUME NEW v \in [Bytes -> Vals] PROVE Put(v) \in [Bytes -> Vals]
  <2> SUFFICES ASSUME NEW b \in Bytes, b \in pos.ofs .. pos.ofs + n - 1
               PROVE  Source[pos.buf + b - pos.ofs + 1] \in Vals
    BY <1>6
  <2>1. b \in Int /\ pos.ofs <= b /\ b <= pos.ofs + n - 1 /\ n <= pos.remaining
    BY <1>1, <1>4
  <2>2. pos.buf + b - pos.ofs + 1 \in 1 .. pos.buf + pos.remaining
    BY <1>4, <2>1
  <2> QED
    BY <1>2, <1>3, <2>2
<1>7. cache' = Promise!Prefix(before, req, pos.buf + n)
  <2>1. Put(cache) = [b \in Bytes |->
                        IF b \in req.ofs + pos.buf .. req.ofs + pos.buf + n - 1
                        THEN req.data[pos.buf + b - (req.ofs + pos.buf) + 1]
                        ELSE Promise!Prefix(before, req, pos.buf)[b]]
    BY <1>2
  <2>2. before \in [Bytes -> Vals]
    BY DEF DevTypeOK
  <2>3. req \in Requests /\ pos.buf \in Nat
    BY <1>2, <1>4
  <2> HIDE DEF Put
  <2>4. [b \in Bytes |->
           IF b \in req.ofs + pos.buf .. req.ofs + pos.buf + n - 1
           THEN req.data[pos.buf + b - (req.ofs + pos.buf) + 1]
           ELSE Promise!Prefix(before, req, pos.buf)[b]]
        = Promise!Prefix(before, req, pos.buf + n)
    BY ONLY <2>2, <2>3, n \in Nat, PrefixExtend
  <2> QED
    BY <1>12, <2>1, <2>4
<1>8. cache' \in [Bytes -> Vals] /\ disk' \in [Bytes -> Vals]
  <2> HIDE DEF Put
  <2> QED
    BY <1>12, <1>6 DEF DevTypeOK
<1> HIDE DEF Put
<1>9. DevTypeOK'
  <2>1. pos'.buf + pos'.remaining <= Len(req'.data)
    <3>1. pos'.buf + pos'.remaining = pos.buf + pos.remaining /\ req' = req
      BY <1>1, <1>4, <1>5
    <3> QED
      BY <1>2, <1>3, <3>1
  <2> QED
    BY <1>1, <1>5, <1>8, <2>1 DEF DevTypeOK
<1>10. LoopInv'
  <2>1. Source' = Source
    BY <1>1 DEF Source
  <2>2. n \in 1 .. pos.remaining /\ req' = req
    BY <1>1
  <2>6. /\ pos'.buf + pos'.remaining = pos.buf + pos.remaining
        /\ pos'.ofs - pos'.buf = pos.ofs - pos.buf
    BY <1>4, <1>5
  <2>7. pos'.buf + pos'.remaining = Len(req'.data)
    BY <1>2, <2>2, <2>6
  <2>8. pos'.ofs \in Nat /\ pos'.buf \in Nat
    BY <1>5
  <2>9. pos'.ofs = req'.ofs + pos'.buf
    <3>1. pos.ofs - pos.buf = req.ofs
      BY <1>2, <1>3, <1>4
    <3>2. pos'.ofs - pos'.buf = req'.ofs /\ req'.ofs \in Nat
      BY <1>3, <2>2, <2>6, <3>1
    <3> QED
      BY <2>8, <3>2
  <2>3. /\ pos'.buf + pos'.remaining = Len(req'.data)
        /\ pos'.ofs = req'.ofs + pos'.buf
    BY <2>7, <2>9
  <2>4. pos'.ofs <= Size
    BY <1>1, <1>5
  <2>5. cache' = Promise!Prefix(before', req', pos'.buf)
    BY <1>1, <1>5, <1>7
  <2> QED
    BY <1>1, <1>2, <2>1, <2>3, <2>4, <2>5 DEF LoopInv
<1>11. EraseInv' /\ SyncInv'
  BY <1>1 DEF EraseInv, SyncInv
<1> QED
  BY <1>9, <1>10, <1>11

\* The ways a call ends without touching the device.
LEMMA CallEndsInv ==
    ASSUME DevInv, PwriteFails \/ PwriteReturns \/ Kill
    PROVE  DevInv'
<1> USE DEF DevInv
<1>1. /\ pc \in {"idle", "pwrite", "memerase"}
      /\ pc' \in {"idle", "exited"}
      /\ ret' \in {OK, EIO, GONE}
      /\ UNCHANGED <<dev_ops, req, pos, erase_buf, cache, disk, before, synced, calls>>
  BY DEF PwriteFails, PwriteReturns, Kill, GiveUp
<1>2. DevTypeOK'
  BY <1>1 DEF DevTypeOK
<1> QED
  BY <1>1, <1>2 DEF LoopInv, EraseInv, SyncInv

\* An erase of flash, good or not, leaves bytes in its segment.
LEMMA MtdEraseInv ==
    ASSUME DevInv, MtdErase
    PROVE  DevInv'
<1> USE DEF DevInv
<1> DEFINE start == EraseStart(req.ofs)
           Fill(v, x) == [b \in Bytes |->
                            IF b \in start .. start + SegSize - 1 THEN x ELSE v[b]]
<1>1. /\ pc = "memerase" /\ pc' = "idle"
      /\ UNCHANGED <<dev_ops, req, pos, erase_buf, before, synced, calls>>
  BY DEF MtdErase
<1>2. \/ ret' = OK /\ cache' = Fill(cache, FF) /\ disk' = Fill(disk, FF)
      \/ ret' = EIO /\ cache' = Fill(cache, Junk) /\ disk' = Fill(disk, Junk)
  BY DEF MtdErase
<1>3. FF \in Vals /\ Junk \in Vals
  BY DEF Vals
<1>4. ASSUME NEW v \in [Bytes -> Vals], NEW x \in Vals
      PROVE  Fill(v, x) \in [Bytes -> Vals]
  OBVIOUS
<1> HIDE DEF Fill
<1>5. /\ cache' \in [Bytes -> Vals] /\ disk' \in [Bytes -> Vals]
      /\ ret' \in {OK, EIO, GONE}
  <2>1. cache \in [Bytes -> Vals] /\ disk \in [Bytes -> Vals]
    BY DEF DevTypeOK
  <2>2. /\ Fill(cache, FF) \in [Bytes -> Vals] /\ Fill(disk, FF) \in [Bytes -> Vals]
        /\ Fill(cache, Junk) \in [Bytes -> Vals] /\ Fill(disk, Junk) \in [Bytes -> Vals]
    BY <1>3, <1>4, <2>1
  <2> QED
    BY <1>2, <2>2
<1>6. DevTypeOK'
  BY <1>1, <1>5 DEF DevTypeOK
<1> QED
  BY <1>1, <1>6 DEF LoopInv, EraseInv, SyncInv

\* What the system does: the page cache, the fsync and the end of power.
LEMMA SystemInv ==
    ASSUME DevInv, (\E p \in Pages : WriteBack(p)) \/ Fsync \/ PowerLoss
    PROVE  DevInv'
<1> USE DEF DevInv
<1>1. CASE \E p \in Pages : WriteBack(p)
  <2>1. PICK p \in Pages : WriteBack(p)
    BY <1>1
  <2>2. /\ disk' = [b \in Bytes |-> IF PageOf(b) = p THEN cache[b] ELSE disk[b]]
        /\ UNCHANGED <<dev_ops, pc, req, pos, ret, erase_buf, cache, before, synced,
                       calls>>
    BY <2>1 DEF WriteBack
  <2>3. cache \in [Bytes -> Vals] /\ disk \in [Bytes -> Vals]
    BY DEF DevTypeOK
  <2>4. disk' \in [Bytes -> Vals] /\ (cache = disk => disk' = cache)
    BY <2>2, <2>3
  <2>5. DevTypeOK'
    BY <2>2, <2>4 DEF DevTypeOK
  <2>6. Source' = Source
    BY <2>2 DEF Source
  <2> QED
    BY <2>2, <2>4, <2>5, <2>6 DEF LoopInv, EraseInv, SyncInv
<1>2. CASE Fsync
  <2>1. /\ pc = "idle" /\ pc' = "finished"
        /\ \/ disk' = cache /\ synced' = TRUE
           \/ UNCHANGED <<disk, synced>>
        /\ UNCHANGED <<dev_ops, req, pos, ret, erase_buf, cache, before, calls>>
    BY <1>2 DEF Fsync, Flushed
  <2>2. DevTypeOK'
    BY <2>1 DEF DevTypeOK
  <2> QED
    BY <2>1, <2>2 DEF LoopInv, EraseInv, SyncInv
<1>3. CASE PowerLoss
  <2>1. /\ pc' = "off" /\ cache' = disk /\ ret' = GONE
        /\ UNCHANGED <<dev_ops, req, pos, erase_buf, disk, before, synced, calls>>
    BY <1>3 DEF PowerLoss
  <2>2. DevTypeOK'
    BY <2>1 DEF DevTypeOK
  <2> QED
    BY <2>1, <2>2 DEF LoopInv, EraseInv, SyncInv
<1> QED
  BY <1>1, <1>2, <1>3

\* A step that changes nothing.
LEMMA StutterInv == ASSUME DevInv, UNCHANGED devVars PROVE DevInv'
<1>1. Source' = Source
  BY DEF Source, devVars
<1> QED
  BY <1>1 DEF DevInv, devVars, DevTypeOK, LoopInv, EraseInv, SyncInv

\* Every step keeps the invariant.
LEMMA InvStep == DevInv /\ [DevNext]_devVars => DevInv'
<1> SUFFICES ASSUME DevInv, [DevNext]_devVars PROVE DevInv'
  OBVIOUS
<1>1. ASSUME NEW n \in 1 .. SegSize + SbSize, Pwrite(n) PROVE DevInv'
  BY <1>1, PwriteInv
<1>2. CASE PwriteAgain
  BY <1>2, StutterInv DEF PwriteAgain
<1> QED
  BY <1>1, <1>2, BeginInv, CallEndsInv, MtdEraseInv, SystemInv, StutterInv
     DEF DevNext, PwriteEnds

\* The invariant holds throughout.
LEMMA Invariant == DevSpec => []DevInv
  BY InitialInv, InvStep, PTL DEF DevSpec

\* In every run of the device operations, of any length and on any device,
\* safe_pwrite stays inside its buffer, and what it has done and what it has
\* left never exceed the request.
THEOREM DeviceTyping == DevSpec => []DevTypeOK
<1>1. DevInv => DevTypeOK
  BY DEF DevInv
<1> QED
  BY <1>1, Invariant, PTL
----------------------------------------------------------------------------
(* The refinement                                                          *)

\* The volume a caller sees before the first call.
LEMMA RefineInit == DevInit => Promise!VolumeInit
<1> SUFFICES ASSUME DevInit PROVE Promise!VolumeInit
  OBVIOUS
<1>1. cache \in [Bytes -> Vals]
  BY InitialInv DEF DevInv, DevTypeOK
<1>2. pc = "idle" /\ ret = OK /\ ~synced /\ synced \in BOOLEAN
  BY DEF DevInit
<1> QED
  BY <1>1, <1>2 DEF Promise!VolumeInit, Promise!Bytes, Bytes, Busy, OK, Promise!OK

\* The call of a device operation is the request.
LEMMA RefineBegin ==
    ASSUME DevInv, NEW r \in Requests, Begin(r)
    PROVE  Promise!Ask(r)
<1>1. pc = "idle" /\ pc' \in {"pwrite", "memerase"} /\ req' = r /\ before' = cache
      /\ UNCHANGED <<ret, synced>>
  BY DEF Begin
<1>2. ~synced
  BY <1>1 DEF DevInv, SyncInv
<1> QED
  BY <1>1, <1>2 DEF Promise!Ask, Busy

\* A turn of the loop is not seen from outside.
LEMMA RefinePwrite ==
    ASSUME DevInv, NEW n \in Nat, Pwrite(n)
    PROVE  UNCHANGED Promise!volVars
  BY DEF Pwrite, Promise!volVars, Busy

\* The end of the loop: all of the request is on the device.
LEMMA RefineReturns ==
    ASSUME DevInv, PwriteReturns
    PROVE  Promise!Serve
<1>1. /\ pc = "pwrite" /\ pos.remaining = 0 /\ pc' = "idle" /\ ret' = OK
      /\ UNCHANGED <<req, cache, synced>>
  BY DEF PwriteReturns
<1>2. /\ req \in Requests /\ pos.buf + pos.remaining = Len(req.data)
      /\ pos.ofs = req.ofs + pos.buf
      /\ pos.buf = 0 \/ pos.ofs <= Size
      /\ cache = Promise!Prefix(before, req, pos.buf)
  BY <1>1 DEF DevInv, LoopInv
<1>3. pos.buf \in Nat /\ Len(req.data) \in 1 .. SegSize + SbSize /\ SegSize + SbSize \in Nat
  BY <1>2, RequestFacts, DevAssumption DEF DevInv, DevTypeOK
<1>4. pos.buf = Len(req.data) /\ pos.buf # 0
  BY <1>1, <1>2, <1>3
<1>5. req.ofs + Len(req.data) <= Size
  BY <1>2, <1>4
<1> QED
  BY <1>1, <1>2, <1>4, <1>5
     DEF Promise!Serve, Promise!Answer, Busy, OK, Promise!OK

\* A write that fails or whose process is killed is a torn one.
LEMMA RefineTorn ==
    ASSUME DevInv, Busy, pc' \in {"idle", "exited"},
           ret' \in {EIO, GONE}, UNCHANGED <<req, cache, synced>>
    PROVE  Promise!Torn
<1>1. \E n \in 0 .. Len(req.data) : cache = Promise!Prefix(before, req, n)
  <2>1. CASE pc = "pwrite"
    <3>1. /\ req \in Requests /\ pos.buf + pos.remaining = Len(req.data)
          /\ cache = Promise!Prefix(before, req, pos.buf)
      BY <2>1 DEF DevInv, LoopInv
    <3>2. pos.buf \in Nat /\ pos.remaining \in Nat
      BY DEF DevInv, DevTypeOK
    <3>3. pos.buf \in 0 .. Len(req.data)
      BY <3>1, <3>2
    <3> QED
      BY <3>1, <3>3
  <2>2. CASE pc = "memerase"
    <3>1. req \in Requests /\ cache = before /\ before \in [Bytes -> Vals]
      BY <2>2 DEF DevInv, EraseInv, DevTypeOK
    <3>2. cache = Promise!Prefix(before, req, 0)
      BY <3>1, PrefixZero
    <3>3. Len(req.data) \in Nat
      BY <3>1, RequestFacts
    <3> QED
      BY <3>2, <3>3
  <2> QED
    BY <2>1, <2>2 DEF Busy
<1> QED
  BY <1>1 DEF Promise!Torn, Promise!Answer, Busy, EIO, GONE, Promise!EIO, Promise!GONE

\* The ioctl erases the segment it was asked to erase, whichever of the two it
\* is, or spoils nothing else.
LEMMA RefineErase ==
    ASSUME DevInv, MtdErase
    PROVE  Promise!Serve \/ Promise!Spoil
<1>1. /\ pc = "memerase" /\ pc' = "idle" /\ UNCHANGED <<req, before, synced>>
  BY DEF MtdErase
<1>2. /\ req \in Requests /\ req.op = "erase" /\ cache = before
      /\ cache \in [Bytes -> Vals]
  BY <1>1 DEF DevInv, EraseInv, DevTypeOK
<1>3. /\ req.ofs \in Nat /\ req.data = EraseBuf /\ Len(req.data) = SegSize
      /\ req.ofs + SegSize <= Size
  BY <1>2, RequestFacts
<1>4. EraseStart(req.ofs) = req.ofs
  BY <1>3, DevAssumption DEF EraseStart
<1> DEFINE Fill(x) == [b \in Bytes |-> IF b \in req.ofs .. req.ofs + SegSize - 1
                                       THEN x ELSE cache[b]]
<1>5. \/ ret' = OK /\ cache' = Fill(FF)
      \/ ret' = EIO /\ cache' = Fill(Junk)
  BY <1>4 DEF MtdErase
<1>6. Fill(FF) = Promise!Prefix(before, req, Len(req.data))
  <2>1. ASSUME NEW b \in Bytes, b \in req.ofs .. req.ofs + SegSize - 1
        PROVE  req.data[b - req.ofs + 1] = FF
    <3>1. b - req.ofs + 1 \in 1..SegSize
      BY <1>3, <2>1, DevAssumption
    <3> QED
      BY <1>3, <3>1 DEF EraseBuf
  <2> QED
    BY <1>2, <1>3, <2>1 DEF Promise!Prefix, Promise!Bytes, Bytes
<1>7. /\ Fill(Junk) \in [Bytes -> Vals]
      /\ \A b \in Bytes \ (req.ofs .. req.ofs + Len(req.data) - 1) : Fill(Junk)[b] = before[b]
  BY <1>2, <1>3 DEF Vals
<1> HIDE DEF Fill
<1>8. CASE ret' = OK /\ cache' = Fill(FF)
  BY <1>1, <1>3, <1>6, <1>8 DEF Promise!Serve, Promise!Answer, Busy, OK, Promise!OK
<1>9. CASE ret' = EIO /\ cache' = Fill(Junk)
  BY <1>1, <1>2, <1>7, <1>9
     DEF Promise!Spoil, Promise!Answer, Busy, EIO, Promise!EIO, Promise!Bytes, Bytes
<1> QED
  BY <1>5, <1>8, <1>9
\* The end of the machine: after the fsync nothing is lost.
LEMMA RefinePowerLoss ==
    ASSUME DevInv, PowerLoss
    PROVE  Promise!PowerFails
<1>1. /\ pc' = "off" /\ cache' = disk /\ ret' = GONE /\ UNCHANGED <<req, synced>>
  BY DEF PowerLoss
<1>2. disk \in [Bytes -> Vals]
  BY DEF DevInv, DevTypeOK
<1>3. synced => ~Busy /\ cache = disk
  BY DEF DevInv, SyncInv, Busy
<1>4. ~Busy'
  BY <1>1 DEF Busy
<1> QED
  BY <1>1, <1>2, <1>3, <1>4 DEF Promise!PowerFails, Promise!Bytes, Bytes, GONE, Promise!GONE

\* Every step of the device operations is one of the volume, or none.
LEMMA RefineStep ==
    DevInv /\ [DevNext]_devVars => [Promise!VolumeNext]_Promise!volVars
<1> SUFFICES ASSUME DevInv, [DevNext]_devVars
             PROVE  Promise!VolumeNext \/ UNCHANGED Promise!volVars
  OBVIOUS
<1>1. ASSUME NEW r \in Requests, Begin(r) PROVE Promise!VolumeNext
  BY <1>1, RefineBegin DEF Promise!VolumeNext
<1>2. ASSUME NEW n \in 1 .. SegSize + SbSize, Pwrite(n)
      PROVE  UNCHANGED Promise!volVars
  BY <1>2, RefinePwrite
<1>3. CASE PwriteFails
  <2>1. /\ pc = "pwrite" /\ pc' \in {"idle", "exited"} /\ ret' = EIO
        /\ UNCHANGED <<req, cache, synced>>
    BY <1>3 DEF PwriteFails, GiveUp
  <2> QED
    BY <2>1, RefineTorn DEF Busy, Promise!VolumeNext
<1>4. CASE PwriteReturns
  BY <1>4, RefineReturns DEF Promise!VolumeNext
<1>5. CASE MtdErase
  BY <1>5, RefineErase DEF Promise!VolumeNext
<1>6. ASSUME UNCHANGED <<pc, req, ret, cache, before, synced>>
      PROVE  UNCHANGED Promise!volVars
  BY <1>6 DEF Promise!volVars, Busy
<1>7. ASSUME NEW p \in Pages, WriteBack(p) PROVE UNCHANGED Promise!volVars
  BY <1>6, <1>7 DEF WriteBack
<1>8. CASE Fsync
  <2>1. /\ pc = "idle" /\ pc' = "finished" /\ UNCHANGED <<req, ret, cache>>
        /\ synced' = TRUE \/ synced' = synced
    BY <1>8 DEF Fsync
  <2>2. ~Busy /\ ~Busy'
    BY <2>1 DEF Busy
  <2>3. Busy \in BOOLEAN /\ Busy' \in BOOLEAN
    BY DEF Busy
  <2>4. CASE synced' = TRUE
    BY <2>1, <2>2, <2>3, <2>4 DEF Promise!VolumeNext, Promise!Seal
  <2>5. CASE synced' = synced
    BY <2>1, <2>2, <2>3, <2>5 DEF Promise!volVars
  <2> QED
    BY <2>1, <2>4, <2>5
<1>9. CASE Kill
  <2>1. /\ pc \in {"idle", "pwrite", "memerase"} /\ pc' = "exited" /\ ret' = GONE
        /\ UNCHANGED <<req, cache, synced>>
    BY <1>9 DEF Kill
  <2>2. CASE Busy
    BY <2>1, <2>2, RefineTorn DEF Promise!VolumeNext
  <2>3. CASE ~Busy
    <3>1. ~Busy' /\ Busy \in BOOLEAN /\ Busy' \in BOOLEAN
      BY <2>1 DEF Busy
    <3> QED
      BY <2>1, <2>3, <3>1 DEF Promise!VolumeNext, Promise!Leave, GONE, Promise!GONE
  <2> QED
    BY <2>2, <2>3
<1>10. CASE PowerLoss
  BY <1>10, RefinePowerLoss DEF Promise!VolumeNext
<1>11. CASE PwriteAgain \/ UNCHANGED devVars
  BY <1>6, <1>11 DEF PwriteAgain, devVars
<1> QED
  BY <1>1, <1>2, <1>3, <1>4, <1>5, <1>7, <1>8, <1>9, <1>10, <1>11
     DEF DevNext, PwriteEnds

\* The device operations keep their promise to segment.c and make_super on every
\* device: a write or an erase is served as a whole, byte for byte, or fails and
\* has touched nothing beyond its range, through any sequence of short and
\* interrupted writes; and what was there at a successful fsync stays.
THEOREM DeviceImplementsVolume == DevSpec => ImplementsVolume
  BY RefineInit, RefineStep, Invariant, PTL
     DEF DevSpec, ImplementsVolume, Promise!VolumeSpec
=============================================================================
