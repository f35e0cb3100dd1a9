------------------------------- MODULE ActivityLedger -------------------------------
(***************************************************************************)
(* The account activity ledger and its reversible observer operation       *)
(* importance::UpdateActivity, driven by block commit and rollback.        *)
(*                                                                         *)
(* ActivityObserverUtils.cpp and AccountActivityBuckets are not part of    *)
(* this repository: UpdateActivity and the bucket ring follow spec 4.4 and *)
(* 3 and the branches ActivityObserverUtilsTests.cpp fixes (bypass,        *)
(* update, creation on commit only, removal of a zero head, no removal of  *)
(* a bucket with any nonzero field); the commit/rollback actions and the   *)
(* importance height of a notification follow the same test.              *)
(*                                                                         *)
(* Blocks are applied in order and undone in reverse order by a single     *)
(* thread (spec 5): a block commit runs the observers over its             *)
(* notifications in order, a block rollback over them in reverse order.    *)
(* Besides activity notifications a block carries balance transfers of the *)
(* harvesting mosaic (applied by an external balance observer) so that an  *)
(* account's eligibility changes along the chain.                          *)
(***************************************************************************)
EXTENDS Naturals, Sequences, SequencesExt

CONSTANTS
    Accounts,
    InitialBalances,                 \* harvesting mosaic balance of each account
    MinHarvesterBalance,             \* config.MinHarvesterBalance
    ImportanceGrouping,              \* config.ImportanceGrouping
    Activity_Bucket_History_Size,    \* ring capacity
    Rollback_Buffer_Size,            \* trailing entries kept only for rollback
    MaxRollbackBlocks,               \* how far below the best height blocks may be undone
    Blocks,                          \* block contents: sequences of notifications
    MaxChainLength                   \* bound on blocks above the nemesis block

ASSUME Rollback_Buffer_Size < Activity_Bucket_History_Size

VARIABLES
    chain,      \* blocks on top of the nemesis block; chain[i] is at height i + 1
    balances,   \* harvesting mosaic balance of every account
    buckets,    \* AccountActivityBuckets of every account, newest first
    maxLength   \* the longest the chain has been (bounds rollback depth)

vars == <<chain, balances, buckets, maxLength>>

ChainHeight == Len(chain) + 1

(***************************************************************************)
(* model::ConvertToImportanceHeight: the start of the grouping period      *)
(* before the height; notification height 100 with grouping 2 is          *)
(* importance height 98, heights in the first period map to 1.             *)
(***************************************************************************)
ImportanceHeightOf(height) ==
    LET grouped == ((height - 1) \div ImportanceGrouping) * ImportanceGrouping
    IN  IF grouped < 1 THEN 1 ELSE grouped

(***************************************************************************)
(* The matched commit and rollback actions an observer hands to            *)
(* UpdateActivity (the test's TestContext::update uses BeneficiaryCount    *)
(* +2 / -2; harvest fees use TotalFeesPaid).                               *)
(***************************************************************************)
CommitAction(n, bucket) ==
    [bucket EXCEPT !.TotalFeesPaid = @ + n.fees,
                   !.BeneficiaryCount = @ + n.beneficiaries]

RollbackAction(n, bucket) ==
    [bucket EXCEPT !.TotalFeesPaid = @ - n.fees,
                   !.BeneficiaryCount = @ - n.beneficiaries]

(***************************************************************************)
(* AccountActivityBuckets: a ring of at most Activity_Bucket_History_Size  *)
(* buckets, newest first.  A height without a bucket reads as a bucket of  *)
(* StartHeight 0 (the sentinel).                                           *)
(***************************************************************************)
ZeroBucket(height) ==
    [StartHeight |-> height, TotalFeesPaid |-> 0, BeneficiaryCount |-> 0, RawScore |-> 0]

IsZeroBucket(bucket) ==
    bucket.TotalFeesPaid = 0 /\ bucket.BeneficiaryCount = 0 /\ bucket.RawScore = 0

IndexesAt(ring, height) == {i \in DOMAIN ring : ring[i].StartHeight = height}

\* Fault model: a bucket pushed onto a full ring evicts nothing.
UpdateBucketsNoEviction(ring, height, n) ==
    IF IndexesAt(ring, height) # {}
    THEN LET i == CHOOSE i \in IndexesAt(ring, height) : TRUE
         IN  [ring EXCEPT ![i] = CommitAction(n, @)]
    ELSE <<CommitAction(n, ZeroBucket(height))>> \o ring

\* update: the bucket at height, created zeroed at the head when missing
\* (evicting the oldest at capacity), then n's commit action applied to it.
UpdateBuckets(ring, height, n) ==
    IF IndexesAt(ring, height) # {}
    THEN LET i == CHOOSE i \in IndexesAt(ring, height) : TRUE
         IN  [ring EXCEPT ![i] = CommitAction(n, @)]
    ELSE LET pushed == <<CommitAction(n, ZeroBucket(height))>> \o ring
         IN  SubSeq(pushed, 1, IF Len(pushed) > Activity_Bucket_History_Size
                               THEN Activity_Bucket_History_Size ELSE Len(pushed))

\* tryUpdate: n's rollback action applied only to an existing bucket.
TryUpdateBuckets(ring, height, n) ==
    IF IndexesAt(ring, height) # {}
    THEN LET i == CHOOSE i \in IndexesAt(ring, height) : TRUE
         IN  [ring EXCEPT ![i] = RollbackAction(n, @)]
    ELSE ring

(***************************************************************************)
(* importance::UpdateActivity for activity notification n at height in     *)
(* mode: a bypass for an account below the minimum harvester balance;      *)
(* commit updates (maybe creating) the bucket of the importance height;    *)
(* rollback updates an existing one and pops it when it became all zero    *)
(* and is the head.  ledger is [balances, buckets].                        *)
(***************************************************************************)
UpdateActivity(ledger, n, mode, height) ==
    LET account == n.account
        ih      == ImportanceHeightOf(height)
        ring    == ledger.buckets[account]
        undone  == TryUpdateBuckets(ring, ih, n)
    IN  IF ledger.balances[account] < MinHarvesterBalance
        THEN ledger
        ELSE IF mode = "Commit"
        THEN [ledger EXCEPT !.buckets[account] = UpdateBuckets(ring, ih, n)]
        ELSE [ledger EXCEPT !.buckets[account] =
                 IF undone # << >> /\ undone[1].StartHeight = ih /\ IsZeroBucket(undone[1])
                 THEN Tail(undone)
                 ELSE undone]

\* The balance observer of a transfer of the harvesting mosaic.
ApplyTransfer(ledger, n, mode) ==
    LET amount == IF mode = "Commit" THEN n.amount ELSE -n.amount
    IN  [ledger EXCEPT !.balances[n.from] = @ - amount, !.balances[n.to] = @ + amount]

ObserveNotification(ledger, n, mode, height) ==
    IF n.kind = "activity"
    THEN UpdateActivity(ledger, n, mode, height)
    ELSE ApplyTransfer(ledger, n, mode)

\* The observers over a block's notifications: in order for a commit, in
\* reverse order for a rollback.
CommitBlockNotifications(ledger, block, height) ==
    FoldLeft(LAMBDA l, n : ObserveNotification(l, n, "Commit", height), ledger, block)

\* Fault model: a rollback runs the observers in the block's own order.
RollbackBlockNotificationsInOrder(ledger, block, height) ==
    FoldLeft(LAMBDA l, n : ObserveNotification(l, n, "Rollback", height), ledger, block)

RollbackBlockNotifications(ledger, block, height) ==
    FoldLeft(LAMBDA l, n : ObserveNotification(l, n, "Rollback", height), ledger, Reverse(block))

Ledger == [balances |-> balances, buckets |-> buckets]

Init ==
    /\ chain = << >>
    /\ balances = InitialBalances
    /\ buckets = [a \in Accounts |-> << >>]
    /\ maxLength = 0

\* A valid block (no balance goes negative) is applied at the next height.
CommitBlock(block) ==
    LET after == CommitBlockNotifications(Ledger, block, ChainHeight + 1)
    IN  /\ Len(chain) < MaxChainLength
        /\ \A a \in Accounts : after.balances[a] >= 0
        /\ chain' = Append(chain, block)
        /\ balances' = after.balances
        /\ buckets' = after.buckets
        /\ maxLength' = IF Len(chain') > maxLength THEN Len(chain') ELSE maxLength

\* Fault model: the block is undone at the height above it.
RollbackBlockAtNextHeight ==
    LET after == RollbackBlockNotifications(Ledger, Last(chain), ChainHeight + 1)
    IN  /\ chain # << >>
        /\ Len(chain) > maxLength - MaxRollbackBlocks
        /\ chain' = Front(chain)
        /\ balances' = after.balances
        /\ buckets' = after.buckets
        /\ UNCHANGED maxLength

\* The top block is undone, unless it lies MaxRollbackBlocks or more below
\* the best height the chain has reached.
RollbackBlock ==
    LET after == RollbackBlockNotifications(Ledger, Last(chain), ChainHeight)
    IN  /\ chain # << >>
        /\ Len(chain) > maxLength - MaxRollbackBlocks
        /\ chain' = Front(chain)
        /\ balances' = after.balances
        /\ buckets' = after.buckets
        /\ UNCHANGED maxLength

Next ==
    \/ \E block \in Blocks : CommitBlock(block)
    \/ RollbackBlock

Spec == Init /\ [][Next]_vars

-----------------------------------------------------------------------------
Bucket == [StartHeight : Nat, TotalFeesPaid : Int, BeneficiaryCount : Int, RawScore : Nat]

TypeOK ==
    /\ chain \in Seq(Blocks)
    /\ balances \in [Accounts -> Nat]
    /\ buckets \in [Accounts -> Seq(Bucket)]
    /\ \A a \in Accounts : Len(buckets[a]) <= Activity_Bucket_History_Size
    /\ maxLength \in Len(chain) .. MaxChainLength

\* The ledger committing the current chain from the nemesis block produces,
\* had nothing ever been rolled back.
RECURSIVE ReplayChain(_, _)
ReplayChain(ledger, i) ==
    IF i > Len(chain) THEN ledger
    ELSE ReplayChain(CommitBlockNotifications(ledger, chain[i], i + 1), i + 1)

Replayed == ReplayChain([balances |-> InitialBalances, buckets |-> [a \in Accounts |-> << >>]], 1)

\* The buckets that must survive rollback: all but the rollback buffer.
NonHistorical(ring) ==
    SubSeq(ring, 1, IF Len(ring) < Activity_Bucket_History_Size - Rollback_Buffer_Size
                    THEN Len(ring) ELSE Activity_Bucket_History_Size - Rollback_Buffer_Size)

\* Rollback undoes commit: whatever blocks were committed and rolled back,
\* the balances and the non-historical buckets of every account are those
\* that committing the current chain alone produces (spec 3, 4.4, 8).
LedgerWindowMatchesReplay ==
    /\ balances = Replayed.balances
    /\ \A a \in Accounts : NonHistorical(buckets[a]) = NonHistorical(Replayed.buckets[a])

\* The same, bit for bit: all buckets, the rollback buffer included.
LedgerMatchesReplay ==
    /\ balances = Replayed.balances
    /\ buckets = Replayed.buckets

\* At most one bucket per importance height, newest first, and none above
\* the importance height of the chain head: no bucket of an undone block
\* outlives its rollback and later commits never go out of order.
BucketsOrderedBelowHead ==
    \A a \in Accounts :
        /\ \A i \in 1 .. Len(buckets[a]) - 1 : buckets[a][i].StartHeight > buckets[a][i + 1].StartHeight
        /\ buckets[a] # << >> => buckets[a][1].StartHeight <= ImportanceHeightOf(ChainHeight)

(***************************************************************************)
(* The ledger's rings follow the abstract ring discipline of BucketRing:   *)
(* every block commit or rollback, for every account, leaves the ring as   *)
(* it was, pushes a bucket newer than the head (evicting only the oldest), *)
(* changes one bucket in place, or pops the head.  A commit that created a *)
(* bucket below the head, or a rollback that removed a bucket other than   *)
(* the head, would break it.                                               *)
(***************************************************************************)
Ring == INSTANCE BucketRing WITH
    Owners <- Accounts, Capacity <- Activity_Bucket_History_Size, rings <- buckets

ImplementsBucketRing == Ring!Spec
=============================================================================
