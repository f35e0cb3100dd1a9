------------------------------- MODULE MosaicTransfer -------------------------------
(***************************************************************************)
(* Balance transfers gated by the MosaicTransfer validator                 *)
(* (MosaicTransferValidator.cpp) over a mosaic cache of MosaicDefinitions  *)
(* (MosaicDefinition.h).                                                   *)
(*                                                                         *)
(* A transfer notification carries the sender's key, the recipient's       *)
(* address, a mosaic id and an amount; it is applied to the balances only  *)
(* when the validator (and the balance check, which is not in this         *)
(* repository) succeeds.  Blocks advance the height, so mosaic definitions *)
(* start and expire.  ActiveMosaicView is not in this repository: a lookup *)
(* succeeds when the mosaic is in the cache and its definition is active   *)
(* at the height.                                                          *)
(***************************************************************************)
EXTENDS Integers

CONSTANTS
    Accounts,            \* public keys; an account's address is Address[key]
    Address,             \* key -> address
    MosaicIds,
    Xem_Id,
    Definitions,         \* mosaic id -> MosaicDefinition
    InitialBalances,     \* key -> mosaic id -> amount
    Amounts,             \* transfer amounts
    MaxHeight,           \* bound on the chain height
    Success,
    Failure_Mosaic_Expired,
    Failure_Mosaic_Non_Transferable

VARIABLES
    height,      \* context.Height
    balances,    \* key -> mosaic id -> amount
    ownerFlow    \* key -> non-transferable mosaic id -> net amount received from its owner

vars == <<height, balances, ownerFlow>>

(***************************************************************************)
(* MosaicDefinition: a value holding the start height, the owner's public  *)
(* key, the revision and the properties given to its constructor, read     *)
(* back by its getters.  Of MosaicProperties (not in this repository) the  *)
(* model keeps the duration and the Transferable flag.                     *)
(***************************************************************************)
MosaicDefinition(startHeight, ownerPublicKey, revision, properties) ==
    [startHeight |-> startHeight, ownerPublicKey |-> ownerPublicKey,
     revision |-> revision, properties |-> properties]

\* isEternal, isActive: a duration of 0 is eternal.
IsEternal(definition) == definition.properties.duration = 0

IsActive(definition, h) ==
    /\ definition.startHeight <= h
    /\ IsEternal(definition) \/ h < definition.startHeight + definition.properties.duration

\* ActiveMosaicView::tryGet.
TryGet(mosaicId, h) ==
    IF mosaicId \in DOMAIN Definitions /\ IsActive(Definitions[mosaicId], h)
    THEN Success ELSE Failure_Mosaic_Expired

\* The owner is the sender (by key) or the recipient (by the address of the
\* owner's account state).
IsMosaicOwnerParticipant(owner, notification) ==
    \/ owner = notification.Sender
    \/ Address[owner] = notification.Recipient

\* Fault model: step 3 is skipped, as if every mosaic were transferable.
MosaicTransferValidatorWithoutOwnerCheck(notification, h) ==
    IF notification.MosaicId = Xem_Id THEN Success
    ELSE TryGet(notification.MosaicId, h)

\* DEFINE_STATEFUL_VALIDATOR(MosaicTransfer, ...)
MosaicTransferValidator(notification, h) ==
    IF notification.MosaicId = Xem_Id THEN Success
    ELSE IF TryGet(notification.MosaicId, h) # Success THEN TryGet(notification.MosaicId, h)
    ELSE IF Definitions[notification.MosaicId].properties.transferable THEN Success
    ELSE IF ~IsMosaicOwnerParticipant(Definitions[notification.MosaicId].ownerPublicKey, notification)
         THEN Failure_Mosaic_Non_Transferable
    ELSE Success

Init ==
    /\ height = 1
    /\ balances = InitialBalances
    /\ ownerFlow = [k \in Accounts |-> [m \in MosaicIds |-> 0]]

NextBlock ==
    /\ height < MaxHeight
    /\ height' = height + 1
    /\ UNCHANGED <<balances, ownerFlow>>

\* Fault model: the transfer is applied without checking the sender's balance.
TransferWithoutBalanceCheck(sender, recipient, mosaicId, amount) ==
    /\ MosaicTransferValidator([Sender |-> sender, Recipient |-> Address[recipient],
                                 MosaicId |-> mosaicId, Amount |-> amount], height) = Success
    /\ balances' = [balances EXCEPT ![sender][mosaicId] = @ - amount,
                                    ![recipient][mosaicId] = @ + amount]
    /\ UNCHANGED <<height, ownerFlow>>

\* A balance transfer from sender to the account at recipient; for a
\* non-transferable mosaic the recipient's flow from the owner, or the
\* sender's return to it, is noted.
Transfer(sender, recipient, mosaicId, amount) ==
    LET notification == [Sender |-> sender, Recipient |-> Address[recipient],
                         MosaicId |-> mosaicId, Amount |-> amount]
        tracked == mosaicId \in DOMAIN Definitions /\ ~Definitions[mosaicId].properties.transferable
        owner == IF tracked THEN Definitions[mosaicId].ownerPublicKey ELSE sender
    IN  /\ MosaicTransferValidator(notification, height) = Success
        /\ balances[sender][mosaicId] >= amount
        /\ balances' = [balances EXCEPT ![sender][mosaicId] = @ - amount,
                                        ![recipient][mosaicId] = @ + amount]
        /\ ownerFlow' = [ownerFlow EXCEPT
                            ![recipient][mosaicId] = IF tracked /\ sender = owner THEN @ + amount ELSE @,
                            ![sender][mosaicId] = IF tracked /\ recipient = owner THEN @ - amount ELSE @]
        /\ UNCHANGED height

Next ==
    \/ NextBlock
    \/ \E sender, recipient \in Accounts, mosaicId \in MosaicIds, amount \in Amounts :
          sender # recipient /\ Transfer(sender, recipient, mosaicId, amount)

Spec == Init /\ [][Next]_vars

-----------------------------------------------------------------------------
TypeOK ==
    /\ height \in 1..MaxHeight
    /\ balances \in [Accounts -> [MosaicIds -> Nat]]
    /\ ownerFlow \in [Accounts -> [MosaicIds -> Int]]

NonTransferable == {m \in DOMAIN Definitions : ~Definitions[m].properties.transferable}

(***************************************************************************)
(* A non-transferable mosaic only moves to and from its owner: whatever    *)
(* transfers happened, at whatever heights, every other account holds      *)
(* exactly its initial amount plus what the owner sent it minus what it    *)
(* returned to the owner (the validator's step 3 with its sender-by-key    *)
(* and recipient-by-address comparison).                                   *)
(***************************************************************************)
NonTransferableOnlyViaOwner ==
    \A m \in NonTransferable :
        \A k \in Accounts \ {Definitions[m].ownerPublicKey} :
            balances[k][m] = InitialBalances[k][m] + ownerFlow[k][m]
====
