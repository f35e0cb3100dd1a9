---------------------------- MODULE MC_AccountStateCodec ----------------------------
(***************************************************************************)
(* Constants for checking AccountStateCodec.  The rings are those of the   *)
(* test's layout scaled down: three snapshots (one current, two in the     *)
(* rollback buffer, as in the test) and four buckets (two non-historical,  *)
(* two in the rollback buffer).  Importance heights up to 5 fill and       *)
(* overflow both rings.                                                    *)
(***************************************************************************)
EXTENDS AccountStateCodec

MC_MosaicIds == {1, 2}

\* A harvest fee, and a beneficiary credit with a raw score.
MC_BucketValues ==
    {[TotalFeesPaid |-> 1, BeneficiaryCount |-> 0, RawScore |-> 0],
     [TotalFeesPaid |-> 0, BeneficiaryCount |-> 1, RawScore |-> 1]}
====
