----------------------------- MODULE MC_MosaicTransfer -----------------------------
(***************************************************************************)
(* Constants for checking MosaicTransfer: three accounts, the xem mosaic,  *)
(* a non-transferable mosaic whose definition is active at heights 2 and 3 *)
(* only, and an eternal transferable one.                                  *)
(***************************************************************************)
EXTENDS MosaicTransfer, TLC

MC_Accounts == {"owner", "alice", "bob"}

MC_Address == [k \in MC_Accounts |-> <<"address", k>>]

MC_Definitions ==
    (1 :> MosaicDefinition(2, "owner", 1, [duration |-> 2, transferable |-> FALSE])) @@
    (2 :> MosaicDefinition(1, "alice", 1, [duration |-> 0, transferable |-> TRUE]))

MC_InitialBalances ==
    [k \in MC_Accounts |-> [m \in {0, 1, 2} |->
        CASE m = 0 -> 1
          [] m = 1 -> (IF k = "owner" THEN 2 ELSE 0)
          [] m = 2 -> (IF k = "alice" THEN 1 ELSE 0)]]
====
