------------------------------ MODULE AccountStateCodec ------------------------------
(***************************************************************************)
(* The account state codec: the four wire layouts of an account (regular   *)
(* or high-value tier, non-historical or historical scope), the serializer *)
(* that writes and reads them, and the reference layout that               *)
(* AccountStateSerializerTests.cpp encodes and decodes by hand.            *)
(*                                                                         *)
(* AccountStateSerializer.cpp and the AccountState containers are not part *)
(* of this repository: Save, Load, the rings and the balances follow spec  *)
(* 4.5 and 3.  The reference encoder and decoder, the test's idea of what  *)
(* each layout keeps, and the account mutations the test uses follow the   *)
(* test file.                                                              *)
(*                                                                         *)
(* A stream is a sequence of fields, not of bytes: an account header (one  *)
(* value standing for address, heights, keys, account type and linked     *)
(* key), the format tag, importance snapshots, activity buckets, the       *)
(* optimized mosaic id, the mosaic count and the (id, amount) pairs.  A    *)
(* stream one byte short ends inside its last field, which therefore       *)
(* cannot be read: it is the stream without its last field.                *)
(*                                                                         *)
(* The state is one account, changed by the operations the test applies to *)
(* it; every reachable account is encoded and decoded in all four layouts. *)
(***************************************************************************)
EXTENDS Naturals, Sequences, SequencesExt

CONSTANTS
    Header,                          \* address, heights, public key, type, linked key
    Importance_History_Size,         \* ImportanceSnapshots ring capacity
    Activity_Bucket_History_Size,    \* ActivityBuckets ring capacity
    Rollback_Buffer_Size,            \* trailing entries written only in historical scope
    MosaicIds,                       \* nonzero mosaic ids
    MaxAmount,                       \* bound on a balance
    Importances,                     \* importance values a snapshot may take
    BucketValues,                    \* [TotalFeesPaid, BeneficiaryCount, RawScore] records
    MaxImportanceHeight,             \* bound on importance heights
    Truncated,                       \* catapult_runtime_error: stream ends early
    InvalidFormat                    \* catapult_invalid_argument: unknown format tag

\* The high-value importance header holds exactly one snapshot.
ASSUME Importance_History_Size - Rollback_Buffer_Size = 1
ASSUME Rollback_Buffer_Size < Activity_Bucket_History_Size

Regular_Format_Tag == 0
High_Value_Format_Tag == 1
Scopes == {"NonHistorical", "Historical"}

\* Non-historical depth of the bucket ring (5 in the test's layout).
NonHistoricalBuckets == Activity_Bucket_History_Size - Rollback_Buffer_Size

VARIABLES
    ImportanceSnapshots,   \* newest first, fixed size; empty entries are zero
    ActivityBuckets,       \* newest first, fixed size; empty entries have StartHeight 0
    Balances,              \* mosaic id -> amount
    OptimizedMosaicId,     \* cache hint; 0 when never optimized
    iterationOrder         \* the order in which Balances enumerates its ids

vars == <<ImportanceSnapshots, ActivityBuckets, Balances, OptimizedMosaicId, iterationOrder>>

ZeroSnapshot == [Importance |-> 0, Height |-> 0]
ZeroBucket == [StartHeight |-> 0, TotalFeesPaid |-> 0, BeneficiaryCount |-> 0, RawScore |-> 0]
Zeros(value, n) == [i \in 1..n |-> value]

Account(snapshots, buckets, balances, optimized, order) ==
    [header |-> Header, snapshots |-> snapshots, buckets |-> buckets, balances |-> balances,
     optimized |-> optimized, order |-> order]

\* A freshly constructed AccountState(address, height).
EmptyAccount ==
    Account(Zeros(ZeroSnapshot, Importance_History_Size),
            Zeros(ZeroBucket, Activity_Bucket_History_Size),
            <<>>, 0, <<>>)

State == Account(ImportanceSnapshots, ActivityBuckets, Balances, OptimizedMosaicId, iterationOrder)

CurrentImportance(a) == a.snapshots[1].Importance
CurrentHeight(a) == a.snapshots[1].Height

(***************************************************************************)
(* The containers (spec 3).  ImportanceSnapshots::set pushes a snapshot,   *)
(* evicting the oldest; pop removes the newest.  ActivityBuckets::update   *)
(* updates the bucket with the start height, or pushes a new one.          *)
(* AccountBalances::credit adds to a balance; the iteration order of the   *)
(* balances is not specified, so every change may reorder them.            *)
(***************************************************************************)
\* Fault model: set pushes without evicting the oldest snapshot.
SetSnapshotNoEviction(ring, snapshot) == <<snapshot>> \o ring

SetSnapshot(ring, snapshot) == <<snapshot>> \o Front(ring)

PopRing(ring, zero) == Tail(ring) \o <<zero>>

UpdateBucket(ring, bucket) ==
    LET at == {i \in DOMAIN ring : ring[i].StartHeight = bucket.StartHeight}
    IN  IF at # {}
        THEN [ring EXCEPT ![CHOOSE i \in at : TRUE] = bucket]
        ELSE <<bucket>> \o Front(ring)

Credit(balances, id, amount) ==
    IF amount = 0 THEN balances
    ELSE [i \in DOMAIN balances \cup {id} |->
            (IF i \in DOMAIN balances THEN balances[i] ELSE 0) + (IF i = id THEN amount ELSE 0)]

Orders(ids) == SetToSeqs(ids)

(***************************************************************************)
(* The test's helpers: PushSnapshot, PushBucket and                        *)
(* ClearSnapshotsAndBuckets, which pops both rings until the head is the   *)
(* zero-height sentinel.                                                    *)
(***************************************************************************)
PushSnapshot(a, snapshot) == [a EXCEPT !.snapshots = SetSnapshot(@, snapshot)]

PushBucket(a, bucket) == [a EXCEPT !.buckets = UpdateBucket(@, bucket)]

RECURSIVE PopSnapshotsUntilZeroHeight(_)
PopSnapshotsUntilZeroHeight(ring) ==
    IF ring[1].Height = 0 THEN ring ELSE PopSnapshotsUntilZeroHeight(PopRing(ring, ZeroSnapshot))

RECURSIVE PopBucketsUntilZeroHeight(_)
PopBucketsUntilZeroHeight(ring) ==
    IF ring[1].StartHeight = 0 THEN ring ELSE PopBucketsUntilZeroHeight(PopRing(ring, ZeroBucket))

ClearSnapshotsAndBuckets(a) ==
    [a EXCEPT !.snapshots = PopSnapshotsUntilZeroHeight(@),
              !.buckets = PopBucketsUntilZeroHeight(@)]

(***************************************************************************)
(* The reference layout the test writes by hand                            *)
(* (SerializeNonHistoricalToBuffer and the traits' CopyToBuffer): the      *)
(* balances in their iteration order, the count cast to uint16.            *)
(***************************************************************************)
MosaicFields(a, ids) ==
    <<a.optimized, Len(ids) % 2^16>>
        \o FlattenSeq([k \in 1..Len(ids) |-> <<ids[k], a.balances[ids[k]]>>])

SerializeNonHistoricalToBuffer(a, format) ==
    <<a.header, format>>
        \o (IF format = High_Value_Format_Tag
            THEN <<a.snapshots[1]>> \o SubSeq(a.buckets, 1, NonHistoricalBuckets)
            ELSE <<>>)
        \o MosaicFields(a, a.order)

\* Fault model: the skip count of the historical loop is one short.
HistoricalTailOffByOne(ring, tier) ==
    IF tier = Regular_Format_Tag THEN ring ELSE SubSeq(ring, Len(ring) - Rollback_Buffer_Size, Len(ring) - 1)

\* The entries of a ring beyond the non-historical window of a tier.
HistoricalTail(ring, tier) ==
    IF tier = Regular_Format_Tag THEN ring ELSE SubSeq(ring, Len(ring) - Rollback_Buffer_Size + 1, Len(ring))

CopyToBuffer(a, tier, scope) ==
    SerializeNonHistoricalToBuffer(a, tier)
        \o (IF scope = "Historical"
            THEN HistoricalTail(a.snapshots, tier) \o HistoricalTail(a.buckets, tier)
            ELSE <<>>)

\* Fault model: the high-value size counts the buckets but not the snapshot.
PackedSizeWithoutSnapshot(a, tier, scope) ==
    2 + (IF tier = High_Value_Format_Tag THEN NonHistoricalBuckets ELSE 0)
      + 2 + 2 * Cardinality(DOMAIN a.balances)
      + (IF scope = "NonHistorical" THEN 0
         ELSE IF tier = Regular_Format_Tag THEN Importance_History_Size + Activity_Bucket_History_Size
         ELSE 2 * Rollback_Buffer_Size)

\* The traits' CalculatePackedSize, in fields.
PackedSize(a, tier, scope) ==
    2 + (IF tier = High_Value_Format_Tag THEN 1 + NonHistoricalBuckets ELSE 0)
      + 2 + 2 * Cardinality(DOMAIN a.balances)
      + (IF scope = "NonHistorical" THEN 0
         ELSE IF tier = Regular_Format_Tag THEN Importance_History_Size + Activity_Bucket_History_Size
         ELSE 2 * Rollback_Buffer_Size)

(***************************************************************************)
(* The reference decoder (DeserializeNonHistoricalFromBuffer and the       *)
(* traits' DeserializeFromBuffer): it rebuilds an account by pushing the   *)
(* written entries oldest first, and takes the layout from the trait.      *)
(***************************************************************************)
ProcessSnapshots(a, snapshots) == FoldLeft(PushSnapshot, a, Reverse(snapshots))

\* Fault model: the buckets are pushed newest first.
ProcessBucketsNewestFirst(a, buckets) == FoldLeft(PushBucket, a, buckets)

ProcessBuckets(a, buckets) == FoldLeft(PushBucket, a, Reverse(buckets))

CreditPair(a, k, s, at) == [a EXCEPT !.balances = Credit(@, s[at + 2 * k], s[at + 2 * k + 1])]

RECURSIVE ProcessMosaics(_, _, _, _)
ProcessMosaics(a, s, at, count) ==
    IF count = 0 THEN a ELSE ProcessMosaics(CreditPair(a, count, s, at), s, at, count - 1)

ProcessMosaicHeader(a, s, at) == ProcessMosaics([a EXCEPT !.optimized = s[at]], s, at, s[at + 1])

MosaicHeaderAt(tier) == IF tier = High_Value_Format_Tag THEN 4 + NonHistoricalBuckets ELSE 3

DeserializeNonHistoricalFromBuffer(s, tier) ==
    LET a == [EmptyAccount EXCEPT !.header = s[1]]
        withImportance ==
            IF tier = High_Value_Format_Tag
            THEN ProcessBuckets(PushSnapshot(a, s[3]), SubSeq(s, 4, 3 + NonHistoricalBuckets))
            ELSE a
    IN  ProcessMosaicHeader(withImportance, s, MosaicHeaderAt(tier))

\* ReapplyNonHistoricalValues: the newest size - R values pushed back, oldest first.
ReapplySnapshots(a, values) ==
    ProcessSnapshots(a, SubSeq(values, 1, Len(values) - Rollback_Buffer_Size))

ReapplyBuckets(a, values) ==
    ProcessBuckets(a, SubSeq(values, 1, Len(values) - Rollback_Buffer_Size))

DeserializeFromBuffer(s, tier, scope) ==
    LET nonHistorical == DeserializeNonHistoricalFromBuffer(s, tier)
        at == PackedSize(nonHistorical, tier, "NonHistorical") + 1
        snapshotCount == IF tier = Regular_Format_Tag THEN Importance_History_Size ELSE Rollback_Buffer_Size
        bucketCount == IF tier = Regular_Format_Tag THEN Activity_Bucket_History_Size ELSE Rollback_Buffer_Size
        historicalSnapshots == SubSeq(s, at, at + snapshotCount - 1)
        historicalBuckets == SubSeq(s, at + snapshotCount, at + snapshotCount + bucketCount - 1)
        cleared == ClearSnapshotsAndBuckets(nonHistorical)
        withHistory == ProcessBuckets(ProcessSnapshots(
                           IF tier = Regular_Format_Tag THEN nonHistorical ELSE cleared,
                           historicalSnapshots), historicalBuckets)
    IN  IF scope = "NonHistorical" THEN nonHistorical
        ELSE IF tier = Regular_Format_Tag THEN withHistory
        ELSE ReapplyBuckets(ReapplySnapshots(withHistory, nonHistorical.snapshots), nonHistorical.buckets)

(***************************************************************************)
(* What the test expects a layout to keep (the traits' AssertEqual): a     *)
(* regular non-historical layout keeps no snapshots and no buckets, a      *)
(* high-value non-historical one keeps the values outside the rollback     *)
(* buffer, a historical layout keeps everything.                           *)
(***************************************************************************)
Expected(a, tier, scope) ==
    IF scope = "Historical" THEN a
    ELSE IF tier = Regular_Format_Tag THEN ClearSnapshotsAndBuckets(a)
    ELSE ReapplyBuckets(ReapplySnapshots(ClearSnapshotsAndBuckets(a), a.snapshots), a.buckets)

(***************************************************************************)
(* AccountStateSerializer (spec 4.5).  Save picks the tier from the        *)
(* current importance and writes the balances ascending by id.  Load reads *)
(* field by field, failing on an unknown format tag and on a stream that   *)
(* ends before the layout it announces.                                    *)
(***************************************************************************)
TierOf(a) == IF CurrentImportance(a) = 0 THEN Regular_Format_Tag ELSE High_Value_Format_Tag

SortedMosaicIds(a) == SetToSortSeq(DOMAIN a.balances, LAMBDA x, y : x < y)

Save(a, scope) ==
    LET tier == TierOf(a)
    IN  <<a.header, tier>>
          \o (IF tier = High_Value_Format_Tag
              THEN <<a.snapshots[1]>> \o SubSeq(a.buckets, 1, NonHistoricalBuckets)
              ELSE <<>>)
          \o MosaicFields(a, SortedMosaicIds(a))
          \o (IF scope = "Historical"
              THEN HistoricalTail(a.snapshots, tier) \o HistoricalTail(a.buckets, tier)
              ELSE <<>>)

HistoricalSize(tier, scope) ==
    IF scope = "NonHistorical" THEN 0
    ELSE IF tier = Regular_Format_Tag THEN Importance_History_Size + Activity_Bucket_History_Size
    ELSE 2 * Rollback_Buffer_Size

\* The account a well-formed stream describes; last is its last mosaic field.
LoadedAccount(s, tier, scope, last) ==
    LET at == MosaicHeaderAt(tier)
        historical == scope = "Historical"
        R == Rollback_Buffer_Size
        count == s[at + 1]
        IdAt(k) == s[at + 2 * k]
    IN  [header |-> s[1],
         snapshots |->
            IF tier = Regular_Format_Tag
            THEN IF historical THEN SubSeq(s, last + 1, last + Importance_History_Size)
                 ELSE Zeros(ZeroSnapshot, Importance_History_Size)
            ELSE <<s[3]>> \o (IF historical THEN SubSeq(s, last + 1, last + R) ELSE Zeros(ZeroSnapshot, R)),
         buckets |->
            IF tier = Regular_Format_Tag
            THEN IF historical
                 THEN SubSeq(s, last + Importance_History_Size + 1,
                             last + Importance_History_Size + Activity_Bucket_History_Size)
                 ELSE Zeros(ZeroBucket, Activity_Bucket_History_Size)
            ELSE SubSeq(s, 4, 3 + NonHistoricalBuckets)
                   \o (IF historical THEN SubSeq(s, last + R + 1, last + 2 * R) ELSE Zeros(ZeroBucket, R)),
         balances |-> [id \in {IdAt(k) : k \in 1..count} |->
                          s[at + 2 * (CHOOSE k \in 1..count : IdAt(k) = id) + 1]],
         optimized |-> s[at],
         order |-> <<>>]

\* Fault model: any tag but the high-value one is read as regular.
LoadUnknownFormatAsRegular(s, scope) ==
    IF Len(s) < 2 THEN Truncated
    ELSE LET tier == IF s[2] = High_Value_Format_Tag THEN High_Value_Format_Tag ELSE Regular_Format_Tag
             at == MosaicHeaderAt(tier)
         IN  IF Len(s) < at + 1 THEN Truncated
             ELSE LET last == at + 1 + 2 * s[at + 1]
                  IN  IF Len(s) < last + HistoricalSize(tier, scope) THEN Truncated
                      ELSE LoadedAccount(s, tier, scope, last)

Load(s, scope) ==
    IF Len(s) < 2 THEN Truncated
    ELSE IF s[2] \notin {Regular_Format_Tag, High_Value_Format_Tag} THEN InvalidFormat
    ELSE LET tier == s[2]
             at == MosaicHeaderAt(tier)
         IN  IF Len(s) < at + 1 THEN Truncated
             ELSE LET last == at + 1 + 2 * s[at + 1]
                  IN  IF Len(s) < last + HistoricalSize(tier, scope) THEN Truncated
                      ELSE LoadedAccount(s, tier, scope, last)

(***************************************************************************)
(* The operations the test applies to an account: a new importance         *)
(* snapshot at the next importance height (PushSnapshot, and              *)
(* CoerceToDesiredFormat with a zero importance), a bucket update at or    *)
(* above the newest bucket (PushBucket), a credit and an optimize of the   *)
(* balances.                                                                *)
(***************************************************************************)
Init ==
    /\ ImportanceSnapshots = EmptyAccount.snapshots
    /\ ActivityBuckets = EmptyAccount.buckets
    /\ Balances = EmptyAccount.balances
    /\ OptimizedMosaicId = EmptyAccount.optimized
    /\ iterationOrder = EmptyAccount.order

SetImportance ==
    \E importance \in Importances :
        /\ CurrentHeight(State) < MaxImportanceHeight
        /\ ImportanceSnapshots' = PushSnapshot(State, [Importance |-> importance,
                                                      Height |-> CurrentHeight(State) + 1]).snapshots
        /\ UNCHANGED <<ActivityBuckets, Balances, OptimizedMosaicId, iterationOrder>>

UpdateActivityBucket ==
    \E height \in 1..MaxImportanceHeight, v \in BucketValues :
        /\ height >= ActivityBuckets[1].StartHeight
        /\ ActivityBuckets' = PushBucket(State, [StartHeight |-> height, TotalFeesPaid |-> v.TotalFeesPaid,
                                                 BeneficiaryCount |-> v.BeneficiaryCount,
                                                 RawScore |-> v.RawScore]).buckets
        /\ UNCHANGED <<ImportanceSnapshots, Balances, OptimizedMosaicId, iterationOrder>>

CreditMosaic ==
    \E id \in MosaicIds, amount \in 1..MaxAmount :
        /\ (IF id \in DOMAIN Balances THEN Balances[id] ELSE 0) + amount <= MaxAmount
        /\ Balances' = Credit(Balances, id, amount)
        /\ iterationOrder' \in Orders(DOMAIN Balances')
        /\ UNCHANGED <<ImportanceSnapshots, ActivityBuckets, OptimizedMosaicId>>

OptimizeMosaic ==
    \E id \in MosaicIds :
        /\ OptimizedMosaicId' = id
        /\ iterationOrder' \in Orders(DOMAIN Balances)
        /\ UNCHANGED <<ImportanceSnapshots, ActivityBuckets, Balances>>

Next == SetImportance \/ UpdateActivityBucket \/ CreditMosaic \/ OptimizeMosaic

Spec == Init /\ [][Next]_vars

(***************************************************************************)
(* Checking.  Accounts are compared without the iteration order of their   *)
(* balances, as test::AssertEqual compares them.                           *)
(***************************************************************************)
Snapshot == [Importance : Importances, Height : 0..MaxImportanceHeight]
Bucket == [StartHeight : 0..MaxImportanceHeight, TotalFeesPaid : Nat, BeneficiaryCount : Nat, RawScore : Nat]

TypeOK ==
    /\ ImportanceSnapshots \in [1..Importance_History_Size -> Snapshot]
    /\ ActivityBuckets \in [1..Activity_Bucket_History_Size -> Bucket]
    /\ DOMAIN Balances \subseteq MosaicIds
    /\ \A id \in DOMAIN Balances : Balances[id] \in 1..MaxAmount
    /\ OptimizedMosaicId \in MosaicIds \cup {0}
    /\ iterationOrder \in Orders(DOMAIN Balances)

Comparable(x) == IF x \in {Truncated, InvalidFormat} THEN x ELSE [x EXCEPT !.order = <<>>]

Same(x, y) == Comparable(x) = Comparable(y)

(***************************************************************************)
(* Save writes the layout the test decodes by hand (the Save tests): for   *)
(* the tier Save picks and each scope, the stream has the packed size of   *)
(* that layout and the reference decoder reads back what the test expects  *)
(* the layout to keep, for every account the operations reach (partly     *)
(* filled rings, evicted entries, buckets updated in place).               *)
(***************************************************************************)
SaveMatchesReferenceLayout ==
    \A scope \in Scopes :
        LET tier == TierOf(State)
            s == Save(State, scope)
        IN  /\ Len(s) = PackedSize(State, tier, scope)
            /\ Same(DeserializeFromBuffer(s, tier, scope), Expected(State, tier, scope))

(***************************************************************************)
(* Load reads the layout the test writes by hand (the Load tests): for     *)
(* both tiers, whatever the account's importance, and both scopes, Load of *)
(* the reference stream is what the test expects the layout to keep,       *)
(* whatever order the balances were written in.                            *)
(***************************************************************************)
LoadMatchesReferenceLayout ==
    \A tier \in {Regular_Format_Tag, High_Value_Format_Tag}, scope \in Scopes :
        Same(Load(CopyToBuffer(State, tier, scope), scope), Expected(State, tier, scope))

(***************************************************************************)
(* Corrupt streams fail closed (the Cannot tests): a reference stream one  *)
(* field short is a truncation error and one with format tag 2 a format    *)
(* error, in every layout, never a partly read account.                    *)
(***************************************************************************)
CorruptStreamsRejected ==
    \A tier \in {Regular_Format_Tag, High_Value_Format_Tag}, scope \in Scopes :
        LET s == CopyToBuffer(State, tier, scope)
        IN  /\ Load(Front(s), scope) = Truncated
            /\ Load([s EXCEPT ![2] = 2], scope) = InvalidFormat
====
