------------------------------- MODULE Volume -------------------------------
(***************************************************************************)
(* What struct logfs_device_operations promises to its callers, segment.c   *)
(* and make_super: a vector of bytes in which a request takes effect as a   *)
(* whole and returns 0, or fails and leaves what was asked for done up to   *)
(* some byte.  Nothing outlives a power failure for certain before the     *)
(* volume is sealed, everything does afterwards.                           *)
(***************************************************************************)
EXTENDS Integers, Sequences

CONSTANTS
    Size,       \* bytes of the device
    Vals,       \* what a byte may hold
    Requests    \* what may be asked for: [op, ofs, data]

VARIABLES
    vol,        \* the bytes, as a reader finds them
    req,        \* what was asked for last
    busy,       \* it has not been answered yet
    ret,        \* the last answer
    sealed      \* an fsync has succeeded

volVars == <<vol, req, busy, ret, sealed>>

Bytes == 0 .. Size - 1

OK   == "0"
EIO  == "-EIO"
GONE == "gone"      \* the caller did not live to see it

\* v after the first n bytes of request r.
Prefix(v, r, n) ==
    [b \in Bytes |-> IF b \in r.ofs .. r.ofs + n - 1 THEN r.data[b - r.ofs + 1]
                     ELSE v[b]]

Ask(r) ==
    /\ ~busy /\ ~sealed
    /\ req' = r
    /\ busy' = TRUE
    /\ UNCHANGED <<vol, ret, sealed>>

Answer(x) ==
    /\ busy
    /\ busy' = FALSE
    /\ ret' = x
    /\ UNCHANGED <<req, sealed>>

Serve ==
    /\ req.ofs + Len(req.data) <= Size
    /\ vol' = Prefix(vol, req, Len(req.data))
    /\ Answer(OK)

\* A request that fails, or whose caller is killed, has written some of its
\* first bytes.
Torn ==
    /\ \E n \in 0 .. Len(req.data) : vol' = Prefix(vol, req, n)
    /\ Answer(EIO) \/ Answer(GONE)

\* An erase that fails may leave anything in its range, nothing outside.
Spoil ==
    /\ req.op = "erase"
    /\ vol' \in [Bytes -> Vals]
    /\ \A b \in Bytes \ (req.ofs .. req.ofs + Len(req.data) - 1) : vol'[b] = vol[b]
    /\ Answer(EIO)

Seal ==
    /\ ~busy
    /\ sealed' = TRUE
    /\ UNCHANGED <<vol, req, busy, ret>>

\* The caller goes between two requests.
Leave ==
    /\ ~busy
    /\ ret' = GONE
    /\ UNCHANGED <<vol, req, busy, sealed>>

PowerFails ==
    /\ vol' \in [Bytes -> Vals]
    /\ sealed => vol' = vol
    /\ busy' = FALSE
    /\ ret' = GONE
    /\ UNCHANGED <<req, sealed>>

VolumeInit ==
    /\ vol \in [Bytes -> Vals]
    /\ busy = FALSE
    /\ ret = OK
    /\ sealed = FALSE

VolumeNext ==
    \/ \E r \in Requests : Ask(r)
    \/ Serve \/ Torn \/ Spoil
    \/ Seal \/ Leave \/ PowerFails

VolumeSpec == VolumeInit /\ [][VolumeNext]_volVars
=============================================================================
