------------------------------ MODULE MC_LedgerRestart ------------------------------
(***************************************************************************)
(* The ledger instance of MC_ActivityLedger, importances 0 (regular tier)  *)
(* and 1 (high-value tier), and up to two restarts.                        *)
(***************************************************************************)
EXTENDS LedgerRestart, MC_ActivityLedger
====
