------------------------------ MODULE LedgerRestart ------------------------------
(***************************************************************************)
(* The activity ledger across a restart: every account's activity buckets  *)
(* are saved through the account state codec and loaded back, in one       *)
(* scope, between block commits and rollbacks.                             *)
(*                                                                         *)
(* An account is saved as a high-value or regular account according to its *)
(* current importance, with one current snapshot at the importance height  *)
(* of the chain head.  The importance recalculation is not in this         *)
(* repository: it may set any account's importance to any value at any    *)
(* time, so that restarts save and load both formats.  The ledger's variable-length ring is the     *)
(* codec's fixed-size ring without its zero-height entries.  Balances and  *)
(* the chain are persisted elsewhere and survive unchanged.                *)
(***************************************************************************)
EXTENDS ActivityLedger

CONSTANTS
    Importances,     \* importance values (0: regular tier)
    RestartScopes,   \* the scopes a restart saves and loads in
    MaxRestarts,     \* bound on the number of restarts
    Header, Truncated, InvalidFormat

VARIABLES
    importance,      \* account -> current importance
    restarts

Codec == INSTANCE AccountStateCodec WITH
    Importance_History_Size <- Rollback_Buffer_Size + 1,
    MosaicIds <- {}, MaxAmount <- 0, Importances <- {0, 1},
    BucketValues <- {}, MaxImportanceHeight <- 0,
    ImportanceSnapshots <- << >>, ActivityBuckets <- << >>, Balances <- << >>,
    OptimizedMosaicId <- 0, iterationOrder <- << >>

\* The account state a ledger ring is part of, as the codec sees it.
StoredAccount(account, ring) ==
    Codec!Account(
        <<[Importance |-> importance[account], Height |-> ImportanceHeightOf(ChainHeight)]>>
            \o Codec!Zeros(Codec!ZeroSnapshot, Rollback_Buffer_Size),
        ring \o Codec!Zeros(Codec!ZeroBucket, Activity_Bucket_History_Size - Len(ring)),
        << >>, 0, << >>)

\* The ledger ring of a loaded account: its buckets with a start height.
LoadedRing(loaded) == SelectSeq(loaded.buckets, LAMBDA b : b.StartHeight # 0)

Reloaded(account, ring, scope) ==
    LoadedRing(Codec!Load(Codec!Save(StoredAccount(account, ring), scope), scope))

RestartInit ==
    /\ Init
    /\ importance \in [Accounts -> Importances]
    /\ restarts = 0

\* The importance recalculation gives an account a new importance.
Recalculate ==
    \E a \in Accounts, i \in Importances :
        /\ importance' = [importance EXCEPT ![a] = i]
        /\ UNCHANGED <<vars, restarts>>

\* The node stops and starts again: the account state cache is saved and
\* loaded in scope; nothing else changes.
Restart(scope) ==
    /\ restarts < MaxRestarts
    /\ buckets' = [a \in Accounts |-> Reloaded(a, buckets[a], scope)]
    /\ restarts' = restarts + 1
    /\ UNCHANGED <<chain, balances, maxLength, importance>>

RestartNext ==
    \/ Next /\ UNCHANGED <<importance, restarts>>
    \/ Recalculate
    \/ \E scope \in RestartScopes : Restart(scope)

RestartSpec == RestartInit /\ [][RestartNext]_<<vars, importance, restarts>>
====
