----------------------------- MODULE BatchVerdict -----------------------------
(***************************************************************************)
(* What a batch signature consumer promises, in one step: handed a batch,  *)
(* it eventually returns the verdict that the batch's signature            *)
(* notifications deserve.  The verdict is stated on notifications and      *)
(* entities, without inputs, index maps, partitions or threads.            *)
(*   block path:       one result, failure iff any signature is bad;       *)
(*   transaction path: one result per entity, failure iff one of that      *)
(*                     entity's signatures is bad, others keep success.    *)
(***************************************************************************)
EXTENDS Naturals, Sequences

CONSTANTS
    Batches, GenerationHash, Signature_Type,
    Path,                 \* "block" or "transaction"
    Pending,              \* no verdict yet
    Success,              \* ValidationResult::Success
    Failure               \* Failure_Consumer_Batch_Signature_Not_Verifiable

VARIABLES batch, verdict

\* The bytes a notification's signer must have signed: the data, prefixed by
\* the network's generation hash when replay protection is enabled.
SignedPayload(n) ==
    IF n.replay = "Enabled" THEN <<GenerationHash, n.data>> ELSE <<n.data>>

IsBadSignature(n) ==
    /\ n.type = Signature_Type
    /\ ~(n.signature.by = n.signer /\ n.signature.over = SignedPayload(n))

EntityHasBadSignature(entity) == \E i \in DOMAIN entity : IsBadSignature(entity[i])

BlockVerdictOf(b) ==
    IF \E e \in DOMAIN b : EntityHasBadSignature(b[e]) THEN Failure ELSE Success

\* Results are indexed by entity, 0-based as the results vector.
TransactionVerdictOf(b) ==
    [e \in 0 .. Len(b) - 1 |-> IF EntityHasBadSignature(b[e + 1]) THEN Failure ELSE Success]

Expected(b) == IF Path = "block" THEN BlockVerdictOf(b) ELSE TransactionVerdictOf(b)

Init ==
    /\ batch \in Batches
    /\ verdict = Pending

Decide ==
    /\ verdict = Pending
    /\ verdict' = Expected(batch)
    /\ UNCHANGED batch

Spec == Init /\ [][Decide]_<<batch, verdict>>
=============================================================================
