------------------------- MODULE MC_SecretLockBuilder -------------------------
EXTENDS SecretLockBuilder

\* sizeof of the two transaction types: the embedded one lacks the
\* signature, fee and deadline of the regular header.
MC_Sizeof == [Transaction |-> 2, EmbeddedTransaction |-> 1]
====
