---------------------------- MODULE HashLockInfoCodec ----------------------------
(***************************************************************************)
(* HashLockInfoExtendedDataSerializer (HashLockInfoSerializer.cpp): the    *)
(* part of a hash lock info's serialization that follows the fields shared *)
(* by all lock infos.  The shared part is written and read by the lock     *)
(* info serializer of lock_shared, which is not in this repository; here   *)
(* it is one field holding the lock's shared data.                         *)
(*                                                                         *)
(* A writer saves lock infos back to back into one stream; a reader loads  *)
(* them from the front while the writer goes on.  A stream is a sequence   *)
(* of fields; input.read of a field takes the next field whatever it was   *)
(* written as.                                                             *)
(***************************************************************************)
EXTENDS Naturals, Sequences

CONSTANTS
    SharedData,  \* the shared fields of a lock info, as one value
    Hashes,      \* Hash256 values
    MaxLocks     \* bound on the number of lock infos saved

VARIABLES
    output,      \* the stream written so far
    saved,       \* history: the lock infos saved, in order
    position,    \* the reader's offset into the stream
    loaded       \* the lock infos loaded, in order

vars == <<output, saved, position, loaded>>

LockInfos == [shared : SharedData, Hash : Hashes]

\* Save of the shared fields (lock_shared), then of the extended data.
SaveShared(lockInfo) == <<lockInfo.shared>>

\* Fault model: the hash is not written.
ExtendedSaveNothing(lockInfo) == <<>>

\* HashLockInfoExtendedDataSerializer::Save: output.write(lockInfo.Hash).
ExtendedSave(lockInfo) == <<lockInfo.Hash>>

\* Fault model: the read advances past the field after the hash.
ExtendedLoadSkipping(stream, at, lockInfo) ==
    [lockInfo |-> [lockInfo EXCEPT !.Hash = stream[at]], next |-> at + 2]

\* HashLockInfoExtendedDataSerializer::Load: input.read(lockInfo.Hash);
\* the value of the next field is read into Hash and the input advances.
ExtendedLoad(stream, at, lockInfo) ==
    [lockInfo |-> [lockInfo EXCEPT !.Hash = stream[at]], next |-> at + 1]

Init ==
    /\ output = <<>>
    /\ saved = <<>>
    /\ position = 1
    /\ loaded = <<>>

SaveLockInfo(lockInfo) ==
    /\ Len(saved) < MaxLocks
    /\ output' = output \o SaveShared(lockInfo) \o ExtendedSave(lockInfo)
    /\ saved' = Append(saved, lockInfo)
    /\ UNCHANGED <<position, loaded>>

\* The reader loads a lock info when the stream holds enough fields for
\* one; otherwise input.read would throw (not modelled: the reader waits).
LoadLockInfo ==
    /\ position + 1 <= Len(output)
    /\ LET shared == [shared |-> output[position], Hash |-> CHOOSE h \in Hashes : TRUE]
           extended == ExtendedLoad(output, position + 1, shared)
       IN  /\ loaded' = Append(loaded, extended.lockInfo)
           /\ position' = extended.next
    /\ UNCHANGED <<output, saved>>

Next ==
    \/ \E lockInfo \in LockInfos : SaveLockInfo(lockInfo)
    \/ LoadLockInfo

Spec == Init /\ [][Next]_vars

-----------------------------------------------------------------------------
TypeOK ==
    /\ saved \in Seq(LockInfos)
    /\ position \in 1..Len(output) + 1

(***************************************************************************)
(* The reader, interleaved with the writer at any point, loads exactly the *)
(* lock infos saved, in order: each load consumes what one save produced,  *)
(* so the reader is always at the start of a lock info.                    *)
(***************************************************************************)
LoadsMatchSaves ==
    /\ Len(loaded) <= Len(saved)
    /\ \A i \in DOMAIN loaded : loaded[i] = saved[i]
====
