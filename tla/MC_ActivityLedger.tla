------------------------------ MODULE MC_ActivityLedger ------------------------------
(***************************************************************************)
(* Two accounts, one able to harvest at the start; blocks harvested by     *)
(* either (fee 1), one naming the other as beneficiary, and blocks moving  *)
(* the harvesting balance across so that eligibility changes mid-chain.   *)
(* Grouping 2 over 8 blocks reaches 5 importance heights, one more than    *)
(* the ring holds, so commits evict and rollbacks cross groups.            *)
(***************************************************************************)
EXTENDS ActivityLedger

Activity(account, fees, beneficiaries) ==
    [kind |-> "activity", account |-> account, fees |-> fees, beneficiaries |-> beneficiaries]

Transfer(from, to, amount) == [kind |-> "transfer", from |-> from, to |-> to, amount |-> amount]

MC_Accounts == {"A", "B"}
MC_InitialBalances == [a \in MC_Accounts |-> IF a = "A" THEN 1 ELSE 0]

\* Every activity changes its bucket (fees or beneficiaries non-zero).
MC_Blocks ==
    { <<Activity("A", 1, 0)>>,
      <<Activity("B", 1, 0), Activity("A", 0, 1)>>,
      <<Transfer("A", "B", 1), Activity("B", 1, 0)>>,
      <<Transfer("B", "A", 1), Activity("A", 1, 0)>> }

\* The same with empty blocks: a harvest earning no fee.
MC_BlocksWithZeroFees == MC_Blocks \cup { <<Activity("A", 0, 0)>> }
=============================================================================
