------------------- MODULE MultisigAccountModificationPlugin -------------------
(***************************************************************************)
(* Publish of the multisig account modification transaction plugin        *)
(* (src/plugins/txes/multisig/src/plugins/                                 *)
(*  MultisigAccountModificationTransactionPlugin.cpp:33-60): the ordered   *)
(* notifications one such transaction raises.  None of them is a           *)
(* signature notification, so an entity embedding it contributes no        *)
(* signature input while still advancing the extractor's entity index.     *)
(*                                                                         *)
(* transaction: [signer, modifications: Seq([action, key]),                *)
(*               minRemovalDelta, minApprovalDelta]                        *)
(***************************************************************************)
LOCAL INSTANCE Sequences
LOCAL INSTANCE SequencesExt

\* The Add modifications, in order.
AddedModifications(transaction) ==
    SelectSeq(transaction.modifications, LAMBDA m : m.action = "Add")

\* addedCosignatoryKeys: a KeySet, so a key added twice is in it once.
AddedCosignatoryKeys(transaction) == {m.key : m \in ToSet(AddedModifications(transaction))}

\* One MultisigNewCosignatoryNotification per Add modification, in order.
NewCosignatoryNotifications(transaction) ==
    LET added == AddedModifications(transaction)
    IN  [i \in 1 .. Len(added) |->
            [type |-> "MultisigNewCosignatory", signer |-> transaction.signer,
             cosignatory |-> added[i].key]]

\* MultisigCosignatoriesNotification, raised when there is any modification.
CosignatoriesNotification(transaction) ==
    IF 0 < Len(transaction.modifications)
    THEN <<[type |-> "MultisigCosignatories", signer |-> transaction.signer,
            modifications |-> transaction.modifications]>>
    ELSE << >>

\* AddressInteractionNotification, raised when a cosignatory is added.
InteractionNotification(transaction) ==
    IF AddedCosignatoryKeys(transaction) # {}
    THEN <<[type |-> "AddressInteraction", signer |-> transaction.signer,
            participants |-> AddedCosignatoryKeys(transaction)]>>
    ELSE << >>

SettingsNotification(transaction) ==
    <<[type |-> "MultisigSettings", signer |-> transaction.signer,
       minRemovalDelta |-> transaction.minRemovalDelta,
       minApprovalDelta |-> transaction.minApprovalDelta]>>

Publish(transaction) ==
    NewCosignatoryNotifications(transaction) \o CosignatoriesNotification(transaction)
        \o InteractionNotification(transaction) \o SettingsNotification(transaction)
=============================================================================
