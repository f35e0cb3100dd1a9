------------------------ MODULE MC_HashLockInfoCodec ------------------------
EXTENDS HashLockInfoCodec
====
