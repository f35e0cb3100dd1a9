------------------------- MODULE BatchSignatureFixtures -------------------------
(***************************************************************************)
(* Entities and batches handed to the batch signature consumers by the MC  *)
(* modules.  An entity is the sequence of notifications its publisher      *)
(* raises.  Signatures are [by, over]: the key that signed and the buffers *)
(* it signed, so every way a signature can fail is a distinct value:       *)
(*   signed for another network (other generation hash), forged (another   *)
(*   key), and the legacy form without replay protection that verifies.    *)
(***************************************************************************)
EXTENDS Naturals, Sequences
LOCAL Multisig == INSTANCE MultisigAccountModificationPlugin

Gen == "generationHash"
OtherGen == "otherNetworkGenerationHash"
SigType == "Signature"

SignatureNotification(signer, by, over, replay) ==
    [type |-> SigType, signer |-> signer, data |-> "data",
     signature |-> [by |-> by, over |-> over], replay |-> replay]

Good(k)     == SignatureNotification(k, k, <<Gen, "data">>, "Enabled")
Legacy(k)   == SignatureNotification(k, k, <<"data">>, "Disabled")
Replayed(k) == SignatureNotification(k, k, <<OtherGen, "data">>, "Enabled")
Forged(k)   == SignatureNotification(k, "mallory", <<Gen, "data">>, "Enabled")

\* <<Replayed("alice"), Replayed("bob")>> is an aggregate taken from another
\* network: every one of its signatures fails here.
\* An aggregate signed by alice and cosigned by bob that embeds a multisig
\* account modification adding carol.
EmbeddedMultisig ==
    Multisig!Publish([signer |-> "alice", minRemovalDelta |-> 1, minApprovalDelta |-> 1,
                      modifications |-> <<[action |-> "Add", key |-> "carol"],
                                          [action |-> "Del", key |-> "dave"]>>])

Entities ==
    { <<Good("alice")>>,
      <<Replayed("alice")>>,
      <<Replayed("alice"), Replayed("bob")>>,
      <<Legacy("bob")>>,
      <<Good("alice"), Forged("bob")>>,
      <<Good("alice"), Good("bob")>> \o EmbeddedMultisig }

\* Every batch of one to MaxBatchSize entities.
BatchesUpTo(maxBatchSize) == UNION { [1 .. n -> Entities] : n \in 1 .. maxBatchSize }
=============================================================================
