------------------------------- MODULE BucketRing -------------------------------
(***************************************************************************)
(* The abstract ring discipline of spec 3 and 4.4 that every account's     *)
(* activity history follows: a bounded sequence of entries, newest first,  *)
(* keyed by StartHeight.  In one step each ring either stays as it is,     *)
(* gets an entry newer than its head pushed at the head (the oldest is     *)
(* evicted at capacity), has one entry changed in place under its key, or  *)
(* loses its head.  Nothing is ever inserted below the head or removed     *)
(* from the middle or the tail other than by eviction.                     *)
(*                                                                         *)
(* The entries' contents are unconstrained: the ring is what is specified. *)
(***************************************************************************)
EXTENDS Naturals, Sequences

CONSTANTS
    Owners,      \* the accounts that own a ring
    Capacity     \* Activity_Bucket_History_Size

VARIABLE rings   \* owner -> sequence of entries, newest first

FirstAtMost(r, n) == SubSeq(r, 1, IF Len(r) < n THEN Len(r) ELSE n)

Init == rings = [o \in Owners |-> << >>]

\* An entry newer than the head is pushed; at capacity the oldest goes.
Push(r, r2) ==
    /\ r2 # << >>
    /\ r # << >> => r2[1].StartHeight > r[1].StartHeight
    /\ Tail(r2) = FirstAtMost(r, Capacity - 1)

\* One entry changes its contents but keeps its key and its place.
UpdateInPlace(r, r2) ==
    /\ Len(r2) = Len(r)
    /\ \E i \in DOMAIN r :
          /\ r2[i].StartHeight = r[i].StartHeight
          /\ \A j \in DOMAIN r \ {i} : r2[j] = r[j]

\* The newest entry is removed.
PopHead(r, r2) == r # << >> /\ r2 = Tail(r)

RingStep(r, r2) == r2 = r \/ Push(r, r2) \/ UpdateInPlace(r, r2) \/ PopHead(r, r2)

Next == \A o \in Owners : RingStep(rings[o], rings'[o])

Spec == Init /\ [][Next]_rings
====
