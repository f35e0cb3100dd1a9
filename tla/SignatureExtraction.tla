------------------------- MODULE SignatureExtraction -------------------------
(***************************************************************************)
(* ExtractAllSignatureNotifications and SignatureCapturingNotificationSub- *)
(* scriber (src/src/catapult/consumers/BatchSignatureConsumer.cpp:34-93).  *)
(*                                                                         *)
(* A batch is a sequence of entities; the (external) notification          *)
(* publisher turns entity e into the sequence batch[e] of notifications.   *)
(* The loop publishes one entity at a time: every notification is one      *)
(* notify callback (Notify), and after publish returns the loop calls      *)
(* next() (NextEntity).  Entity indexes are 0-based as m_entityIndex.      *)
(***************************************************************************)
EXTENDS Naturals, Sequences

CONSTANTS
    Batches,            \* the batches the consumer may be handed
    GenerationHash,     \* the network's generation hash (m_generationHash)
    Signature_Type      \* SignatureNotification::Notification_Type

VARIABLES
    batch,                        \* entityInfos handed to the consumer
    entityIndex,                  \* m_entityIndex
    cursor,                       \* notifications of the current entity delivered so far
    inputs,                       \* m_inputs (crypto::SignatureInput list)
    notificationToEntityIndexMap  \* m_notificationToEntityIndexMap

extractionVars == <<batch, entityIndex, cursor, inputs, notificationToEntityIndexMap>>

(***************************************************************************)
(* Signatures (crypto/Signer.h, not part of this repository).  A signature *)
(* records the key that made it and the buffers it was made over; Verify   *)
(* accepts an input iff the signature was made by the input's signer over  *)
(* exactly the input's buffers, in order.                                  *)
(***************************************************************************)
Verify(input) ==
    /\ input.signature.by = input.signer
    /\ input.signature.over = input.buffers

\* SignatureCapturingNotificationSubscriber::add: the buffers verified are
\* the generation hash, when replay protection is enabled, then the data.
ToSignatureInput(notification) ==
    LET buffers == (IF notification.replay = "Enabled" THEN <<GenerationHash>> ELSE << >>)
                   \o <<notification.data>>
    IN  [signer |-> notification.signer, buffers |-> buffers, signature |-> notification.signature]

\* The extraction loop has published every entity.
ExtractionDone == entityIndex = Len(batch)

CurrentEntity == batch[entityIndex + 1]

ExtractionInit(b) ==
    /\ batch = b
    /\ entityIndex = 0
    /\ cursor = 0
    /\ inputs = << >>
    /\ notificationToEntityIndexMap = << >>

\* Fault model: the index recorded for a signature is one too high, as if
\* next() ran before publish.
NotifyIndexAfterNext ==
    /\ ~ExtractionDone
    /\ cursor < Len(CurrentEntity)
    /\ LET notification == CurrentEntity[cursor + 1]
       IN  IF notification.type = Signature_Type
           THEN /\ notificationToEntityIndexMap' = Append(notificationToEntityIndexMap, entityIndex + 1)
                /\ inputs' = Append(inputs, ToSignatureInput(notification))
           ELSE UNCHANGED <<notificationToEntityIndexMap, inputs>>
    /\ cursor' = cursor + 1
    /\ UNCHANGED <<batch, entityIndex>>

\* publisher.publish delivers the next notification of the current entity
\* to notify, which ignores every type but the signature notification.
Notify ==
    /\ ~ExtractionDone
    /\ cursor < Len(CurrentEntity)
    /\ LET notification == CurrentEntity[cursor + 1]
       IN  IF notification.type = Signature_Type
           THEN /\ notificationToEntityIndexMap' = Append(notificationToEntityIndexMap, entityIndex)
                /\ inputs' = Append(inputs, ToSignatureInput(notification))
           ELSE UNCHANGED <<notificationToEntityIndexMap, inputs>>
    /\ cursor' = cursor + 1
    /\ UNCHANGED <<batch, entityIndex>>

\* publish returned for the current entity: next() advances the index.
NextEntity ==
    /\ ~ExtractionDone
    /\ cursor = Len(CurrentEntity)
    /\ entityIndex' = entityIndex + 1
    /\ cursor' = 0
    /\ UNCHANGED <<batch, inputs, notificationToEntityIndexMap>>

ExtractionNext == Notify \/ NextEntity
=============================================================================
