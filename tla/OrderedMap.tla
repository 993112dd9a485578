----------------------------- MODULE OrderedMap -----------------------------
(***************************************************************************)
(* What btree.h promises: maps from a key to a pointer, sorted by key.     *)
(*                                                                         *)
(* One function per tree, and the call that was made last, with what was   *)
(* asked: a step is that call and does what that call should.  A call may  *)
(* run out of memory where the program allocates: an insert then changes   *)
(* nothing, a merge has moved the largest keys of the victim.              *)
(***************************************************************************)
EXTENDS Integers

CONSTANTS
    Heads,      \* the trees
    Keys,       \* the keys in use
    Vals        \* what is stored: pointers, never NULL

NULL   == 0     \* also what a call returns that went well
ENOMEM == -12

VARIABLES
    map,    \* the content of each tree
    call,   \* the last call: its operation and its arguments
    ret,    \* what it returned
    odd     \* whether the number of calls is odd, so that none is a stutter

mapVars == <<map, call, ret, odd>>

Keyset(h) == DOMAIN map[h]

NoCall          == [op |-> "none"]
InsertOf(h, k, v) == [op |-> "insert", head |-> h, key |-> k, val |-> v]
RemoveOf(h, k)  == [op |-> "remove", head |-> h, key |-> k]
MergeOf(t, v)   == [op |-> "merge", target |-> t, victim |-> v]
ClearOf(h)      == [op |-> "clear", head |-> h]

\* What every call does: it is made, and returns.
Returns(c, r) == call' = c /\ ret' = r /\ odd' = ~odd

MapInsert(h, k, v) ==
    /\ Returns(InsertOf(h, k, v), NULL)
    /\ \A g \in Heads : k \notin Keyset(g)
    /\ map' = [map EXCEPT ![h] =
                 [x \in Keyset(h) \cup {k} |-> IF x = k THEN v ELSE @[x]]]

MapInsertFails(h, k, v) ==
    /\ Returns(InsertOf(h, k, v), ENOMEM)
    /\ UNCHANGED map

MapRemove(h, k) ==
    /\ Returns(RemoveOf(h, k), IF k \in Keyset(h) THEN map[h][k] ELSE NULL)
    /\ map' = [map EXCEPT ![h] = [x \in Keyset(h) \ {k} |-> @[x]]]

\* The keys M leave the victim for the target.
Move(target, victim, M) ==
    map' = [map EXCEPT
        ![target] = [x \in Keyset(target) \cup M |->
                       IF x \in M THEN map[victim][x] ELSE @[x]],
        ![victim] = [x \in Keyset(victim) \ M |-> @[x]]]

MapMerge(target, victim) ==
    /\ Returns(MergeOf(target, victim), NULL)
    /\ target # victim
    /\ Move(target, victim, Keyset(victim))

MapMergeFails(target, victim) ==
    /\ Returns(MergeOf(target, victim), ENOMEM)
    /\ target # victim
    /\ \E M \in SUBSET Keyset(victim) :
          /\ M # Keyset(victim)
          /\ \A x \in M, y \in Keyset(victim) \ M : x > y
          /\ Move(target, victim, M)

MapClear(h) ==
    /\ Returns(ClearOf(h), NULL)
    /\ map' = [map EXCEPT ![h] = << >>]

MapInit ==
    /\ map = [h \in Heads |-> << >>]
    /\ call = NoCall
    /\ ret = NULL
    /\ odd = FALSE

MapNext ==
    \/ \E h \in Heads, k \in Keys :
          \/ \E v \in Vals : MapInsert(h, k, v) \/ MapInsertFails(h, k, v)
          \/ MapRemove(h, k)
    \/ \E h, g \in Heads : MapMerge(h, g) \/ MapMergeFails(h, g)
    \/ \E h \in Heads : MapClear(h)

MapSpec == MapInit /\ [][MapNext]_mapVars
=============================================================================
