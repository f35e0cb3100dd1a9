--------------------------- MODULE SecretLockBuilder ---------------------------
(***************************************************************************)
(* The SDK's SecretLockBuilder (sdk/src/builders/SecretLockBuilder.cpp).   *)
(*                                                                         *)
(* The builder holds the five fixed fields of a secret lock transaction,   *)
(* value-initialised by its constructor and overwritten by the setters.    *)
(* build() and buildEmbedded() allocate a transaction of sizeImpl<T>()     *)
(* bytes through the TransactionBuilder base (not in this repository: it   *)
(* zeroes the header and sets Size) and copy the five fields into it.      *)
(*                                                                         *)
(* A field value is an element of a small set whose 0 is the value-        *)
(* initialised one.  The history variable 'calls' logs the setter calls in *)
(* order, so that what each built transaction must contain can be computed *)
(* from the calls alone.                                                   *)
(***************************************************************************)
EXTENDS Naturals, Sequences

CONSTANTS
    Values,      \* field values; 0 is the value-initialised one
    Sizeof,      \* transaction type -> sizeof(type)
    MaxCalls,    \* bound on the number of setter calls
    MaxBuilds    \* bound on the number of built transactions

Fields == {"Mosaic", "Duration", "HashAlgorithm", "Secret", "RecipientAddress"}
TransactionTypes == DOMAIN Sizeof

VARIABLES
    builder,     \* field -> value: m_mosaic, m_duration, ...
    calls,       \* history: the setter calls made, as [field, value]
    built        \* the transactions returned, with Len(calls) when built

vars == <<builder, calls, built>>

\* Fault model: m_secret left out of the initialiser list is default-
\* initialised, i.e. indeterminate: any value, a valid one or not.
InitWithoutSecretInitialiser ==
    /\ \E garbage \in Values \cup {v + 1 : v \in Values} :
          builder = [f \in Fields |-> IF f = "Secret" THEN garbage ELSE 0]
    /\ calls = <<>>
    /\ built = <<>>

\* SecretLockBuilder(networkIdentifier, signer): every field value-initialised.
Init ==
    /\ builder = [f \in Fields |-> 0]
    /\ calls = <<>>
    /\ built = <<>>

\* A setter assigns its one member; 'calls' records the call.
Setter(field, value) ==
    /\ Len(calls) < MaxCalls
    /\ builder' = [builder EXCEPT ![field] = value]
    /\ calls' = Append(calls, [field |-> field, value |-> value])
    /\ UNCHANGED built

SetMosaic(mosaic) == Setter("Mosaic", mosaic)
SetDuration(duration) == Setter("Duration", duration)
SetHashAlgorithm(hashAlgorithm) == Setter("HashAlgorithm", hashAlgorithm)
SetSecret(secret) == Setter("Secret", secret)
SetRecipientAddress(recipientAddress) == Setter("RecipientAddress", recipientAddress)

\* sizeImpl<TransactionType>(): sizeof(TransactionType), there being no
\* variable-sized part.
SizeImpl(type) == Sizeof[type]

\* size(): the size of the regular transaction.
Size == SizeImpl("Transaction")

\* buildImpl<TransactionType>(): 1. createTransaction allocates sizeImpl
\* bytes, zeroed, with Size set; 2. the five fixed fields are copied.
BuildImplWithoutRecipient(type) ==
    [type |-> type, Size |-> SizeImpl(type),
     Mosaic |-> builder["Mosaic"], Duration |-> builder["Duration"],
     HashAlgorithm |-> builder["HashAlgorithm"], Secret |-> builder["Secret"],
     RecipientAddress |-> 0]

BuildImpl(type) ==
    LET pTransaction == [type |-> type, Size |-> SizeImpl(type),
                         Mosaic |-> 0, Duration |-> 0, HashAlgorithm |-> 0,
                         Secret |-> 0, RecipientAddress |-> 0]
    IN  [pTransaction EXCEPT !.Mosaic = builder["Mosaic"],
                             !.Duration = builder["Duration"],
                             !.HashAlgorithm = builder["HashAlgorithm"],
                             !.Secret = builder["Secret"],
                             !.RecipientAddress = builder["RecipientAddress"]]

\* build() and buildEmbedded() return a new transaction; the builder is const.
BuildAs(type) ==
    /\ Len(built) < MaxBuilds
    /\ built' = Append(built, [transaction |-> BuildImpl(type), after |-> Len(calls)])
    /\ UNCHANGED <<builder, calls>>

Build == BuildAs("Transaction")
BuildEmbedded == BuildAs("EmbeddedTransaction")

Next ==
    \/ \E v \in Values : SetMosaic(v)
    \/ \E v \in Values : SetDuration(v)
    \/ \E v \in Values : SetHashAlgorithm(v)
    \/ \E v \in Values : SetSecret(v)
    \/ \E v \in Values : SetRecipientAddress(v)
    \/ Build
    \/ BuildEmbedded

Spec == Init /\ [][Next]_vars

-----------------------------------------------------------------------------
TypeOK ==
    /\ builder \in [Fields -> Values]
    /\ calls \in Seq([field : Fields, value : Values])
    /\ \A i \in DOMAIN built :
          /\ built[i].transaction.type \in TransactionTypes
          /\ built[i].after \in 0..Len(calls)

\* The value the last call to the field's setter among the first n calls
\* gave, or the value-initialised 0 when there was none.
LastSet(field, n) ==
    LET setAt == {i \in 1..n : calls[i].field = field}
    IN  IF setAt = {} THEN 0
        ELSE calls[CHOOSE i \in setAt : \A j \in setAt : j <= i].value

(***************************************************************************)
(* Every transaction build() or buildEmbedded() returned, regular or       *)
(* embedded, is sizeof its own type and carries, in each of the five       *)
(* fields, the argument of the last call to that field's setter before it  *)
(* was built (0 when the setter was never called), whatever setters were   *)
(* called after.                                                           *)
(***************************************************************************)
BuiltTransactionsMatchSetters ==
    \A i \in DOMAIN built :
        LET tx == built[i].transaction
        IN  /\ tx.Size = Sizeof[tx.type]
            /\ \A f \in Fields : tx[f] = LastSet(f, built[i].after)
====
